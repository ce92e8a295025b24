----------------------- MODULE WebhookDelivery_proofs -----------------------
(***************************************************************************)
(* The delivery job, for every number of tasks, attempts and instances and *)
(* every size of a batch: SENT means received, and every delivery but the  *)
(* first has a cause of its own.                                           *)
(***************************************************************************)
EXTENDS WebhookDelivery, FiniteSetTheorems, WellFoundedInduction, TLAPS

Holds(j, t) == \E e \in batch[j] : e[1] = t

\* Instances that may still deliver t, or whose attempt to do so failed.
Owed(t) == {j \in Jobs : Holds(j, t) /\ ~(answer[j] = "ok" /\ First(batch[j])[1] = t)}

\* A batch holds a task once; a POST in progress is of a batch that is not empty.
BatchInv ==
  /\ \A j \in Jobs : \A e, f \in batch[j] : e[1] = f[1] => e = f
  /\ \A j \in Jobs : answer[j] # "none" => batch[j] # {}
  /\ \A t \in Tasks : task[t].status = "NONE" => \A j \in Jobs : ~ Holds(j, t)

\* What is known to have been delivered was received.
ArrivedInv ==
  /\ SentMeansReceived
  /\ \A j \in Jobs : answer[j] = "ok" => First(batch[j])[1] \in arrived

\* The receiver may still get a task once for each instance that owes it, and
\* once if it is open and nobody holds it.
AllowedInv ==
  \A t \in Tasks :
    /\ allowed[t] >= Cardinality(Owed(t))
    /\ task[t].status \in Open \union {"NONE"} /\ (\A j \in Jobs : ~ Holds(j, t)) => allowed[t] >= 1

DeliveryInv == TypeOK /\ BatchInv /\ ArrivedInv /\ AllowedInv

-----------------------------------------------------------------------------
\* A nonempty set of natural numbers has a least element.
LEMMA LeastElement ==
  ASSUME NEW T, T \subseteq Nat, T # {}
  PROVE  \E x \in T : \A y \in T : x <= y
<1>1. PICK x \in T : \A y \in T : ~ (<<y, x>> \in OpToRel(<, Nat))
  BY NatLessThanWellFounded, WFMin
<1>2. \A y \in T : ~ (y < x)
  BY <1>1 DEF OpToRel
<1> QED
  BY <1>2

\* The job works on a row of its batch, on the oldest task there is.
LEMMA FirstInBatch ==
  ASSUME TypeOK, NEW j \in Jobs, batch[j] # {}
  PROVE  First(batch[j]) \in batch[j] /\ First(batch[j]) \in Tasks \X Nat
<1> DEFINE T == {e[1] : e \in batch[j]}
<1>1. batch[j] \subseteq Tasks \X Nat
  BY DEF TypeOK
<1>2. T \subseteq Nat /\ T # {}
  BY <1>1, DeliveryAssumption DEF Tasks
<1>3. PICK x \in T : \A y \in T : x <= y
  BY <1>2, LeastElement
<1>4. PICK e \in batch[j] : e[1] = x
  BY <1>3
<1>5. \A f \in batch[j] : e[1] <= f[1]
  BY <1>3, <1>4
<1> QED
  BY <1>1, <1>4, <1>5 DEF First

\* The instances that owe a task are finitely many.
LEMMA OwedFinite ==
  ASSUME NEW t
  PROVE  IsFiniteSet(Owed(t)) /\ Cardinality(Owed(t)) \in Nat
  BY DeliveryAssumption, FS_Subset, FS_CardinalityType DEF Owed

-----------------------------------------------------------------------------
\* Every step keeps the variables' types.
LEMMA TypeInductive ==
  ASSUME TypeOK, BatchInv, [Next]_vars
  PROVE  TypeOK'
<1> DEFINE Row == [status : Statuses, attempts : Nat, due : BOOLEAN]
<1> USE DEF TypeOK
<1>1. ASSUME NEW t \in Tasks, Enqueue(t)
      PROVE  TypeOK'
  BY <1>1, DeliveryAssumption DEF Enqueue, TaskRow, Happens, Statuses
<1>2. ASSUME NEW t \in Tasks, Replay(t)
      PROVE  TypeOK'
  BY <1>2, DeliveryAssumption DEF Replay, TaskRow, Happens, Statuses
<1>3. ASSUME NEW t \in Tasks, BecomesDue(t)
      PROVE  TypeOK'
  BY <1>3 DEF BecomesDue
<1>4. ASSUME NEW j \in Jobs, Scan(j)
      PROVE  TypeOK'
  <2>1. {<<t, task[t].attempts>> : t \in Selected} \in SUBSET (Tasks \X Nat)
    <3>1. Selected \subseteq Tasks
      BY DEF Selected, Due
    <3>2. \A t \in Tasks : task[t].attempts \in Nat
      OBVIOUS
    <3> QED
      BY <3>1, <3>2
  <2>2. batch' \in [Jobs -> SUBSET (Tasks \X Nat)]
    BY <1>4, <2>1 DEF Scan
  <2>3. allowed' \in [Tasks -> Int]
    BY <1>4 DEF Scan
  <2> QED
    BY <1>4, <2>2, <2>3 DEF Scan
<1>5. ASSUME NEW j \in Jobs, Post(j)
      PROVE  TypeOK'
  <2>1. First(batch[j])[1] \in Tasks
    BY <1>5, FirstInBatch DEF Post
  <2> QED
    BY <1>5, <2>1 DEF Post
<1>6. ASSUME NEW j \in Jobs, MarkSent(j)
      PROVE  TypeOK'
  <2>1. First(batch[j])[1] \in Tasks
    BY <1>6, FirstInBatch DEF MarkSent, BatchInv
  <2>2. task' \in [Tasks -> Row]
    BY <1>6, <2>1 DEF MarkSent, Statuses
  <2> QED
    BY <1>6, <2>2 DEF MarkSent, Handled
<1>7. ASSUME NEW j \in Jobs, MarkFailure(j)
      PROVE  TypeOK'
  <2> DEFINE t == First(batch[j])[1]
             n == First(batch[j])[2] + 1
  <2>1. t \in Tasks /\ n \in Nat
    BY <1>7, FirstInBatch DEF MarkFailure, BatchInv
  <2>2. [[task[t] EXCEPT !.status = "DEAD"] EXCEPT !.attempts = n] \in Row
    <3>1. task[t] \in Row
      BY <2>1
    <3> QED
      BY <2>1, <3>1 DEF Statuses
  <2>3. TaskRow("RETRYING", n, FALSE) \in Row
    BY <2>1 DEF TaskRow, Statuses
  <2>4. \E row \in Row : task' = [task EXCEPT ![t] = row]
    BY <1>7, <2>1, <2>2, <2>3 DEF MarkFailure
  <2>5. task' \in [Tasks -> Row]
    BY <2>4
  <2> QED
    BY <1>7, <2>5 DEF MarkFailure, Handled
<1>8. ASSUME NEW j \in Jobs, Abort(j)
      PROVE  TypeOK'
  <2>1. First(batch[j])[1] \in Tasks
    BY <1>8, FirstInBatch DEF Abort
  <2>2. [allowed EXCEPT ![First(batch[j])[1]] = @ + 1] \in [Tasks -> Int]
    BY <2>1
  <2>3. allowed' \in [Tasks -> Int]
    BY <1>8, <2>2 DEF Abort
  <2>4. events' \in 0 .. MaxEvents
    BY <1>8, DeliveryAssumption DEF Abort, Happens
  <2> QED
    BY <1>8, <2>3, <2>4 DEF Abort
<1>9. CASE UNCHANGED vars
  BY <1>9 DEF vars
<1> QED
  BY <1>1, <1>2, <1>3, <1>4, <1>5, <1>6, <1>7, <1>8, <1>9 DEF Next, JobStep

-----------------------------------------------------------------------------
\* Only the task that a step is about changes, and none is ever deleted.
LEMMA TasksStay ==
  ASSUME TypeOK, BatchInv, [Next]_vars, NEW t \in Tasks, task'[t].status = "NONE"
  PROVE  task[t].status = "NONE"
<1> USE DEF TypeOK, TaskRow
<1>1. ASSUME NEW s \in Tasks, Enqueue(s) \/ Replay(s)
      PROVE  task[t].status = "NONE"
  BY <1>1 DEF Enqueue, Replay
<1>2. ASSUME NEW s \in Tasks, BecomesDue(s)
      PROVE  task[t].status = "NONE"
  BY <1>2 DEF BecomesDue
<1>3. ASSUME NEW j \in Jobs, MarkSent(j)
      PROVE  task[t].status = "NONE"
  BY <1>3 DEF MarkSent
<1>4. ASSUME NEW j \in Jobs, MarkFailure(j)
      PROVE  task[t].status = "NONE"
  BY <1>4 DEF MarkFailure
<1>5. ASSUME NEW j \in Jobs, Scan(j) \/ Post(j) \/ Abort(j)
      PROVE  task[t].status = "NONE"
  BY <1>5 DEF Scan, Post, Abort
<1> QED
  BY <1>1, <1>2, <1>3, <1>4, <1>5 DEF Next, JobStep, vars

\* A job that has handled a row, or given up, keeps at most the others.
LEMMA BatchShrinks ==
  ASSUME TypeOK, BatchInv, [Next]_vars, NEW j \in Jobs,
         NEW b \in SUBSET batch[j],
         batch' = [batch EXCEPT ![j] = b], answer' = [answer EXCEPT ![j] = "none"]
  PROVE  BatchInv'
<1>1. \A k \in Jobs : batch'[k] \subseteq batch[k]
  BY DEF TypeOK
<1>2. \A k \in Jobs, t \in Tasks : Holds(k, t)' => Holds(k, t)
  BY <1>1 DEF Holds
<1>3. \A k \in Jobs : \A e, f \in batch'[k] : e[1] = f[1] => e = f
  BY <1>1 DEF BatchInv
<1>4. \A k \in Jobs : answer'[k] # "none" => batch'[k] # {}
  BY DEF BatchInv, TypeOK
<1>5. \A t \in Tasks : task'[t].status = "NONE" => \A k \in Jobs : ~ Holds(k, t)'
  BY <1>2, TasksStay DEF BatchInv
<1> QED
  BY <1>3, <1>4, <1>5 DEF BatchInv

\* A batch has a task once, and shrinks as the job works through it.
LEMMA BatchInductive ==
  ASSUME TypeOK, BatchInv, [Next]_vars
  PROVE  BatchInv'
<1>1. ASSUME NEW j \in Jobs, Scan(j)
      PROVE  BatchInv'
  <2>1. batch' = [batch EXCEPT ![j] = {<<t, task[t].attempts>> : t \in Selected}]
    BY <1>1 DEF Scan
  <2>2. \A k \in Jobs : \A e, f \in batch'[k] : e[1] = f[1] => e = f
    BY <2>1 DEF BatchInv, TypeOK
  <2>3. \A k \in Jobs : answer'[k] # "none" => batch'[k] # {}
    BY <1>1, <2>1 DEF Scan, BatchInv, TypeOK
  <2>4. \A t \in Selected : task[t].status # "NONE"
    BY DEF Selected, Due, Open
  <2>5. \A t \in Tasks : task'[t].status = "NONE" => \A k \in Jobs : ~ Holds(k, t)'
    <3> SUFFICES ASSUME NEW t \in Tasks, task[t].status = "NONE", NEW k \in Jobs
                 PROVE  ~ Holds(k, t)'
      BY <1>1 DEF Scan
    <3>1. CASE k = j
      BY <3>1, <2>1, <2>4 DEF Holds, TypeOK
    <3>2. CASE k # j
      BY <3>2, <2>1 DEF Holds, TypeOK, BatchInv
    <3> QED
      BY <3>1, <3>2
  <2> QED
    BY <2>2, <2>3, <2>5 DEF BatchInv
<1>2. ASSUME NEW j \in Jobs, Post(j)
      PROVE  BatchInv'
  BY <1>2 DEF Post, BatchInv, Holds, TypeOK
<1>3. ASSUME NEW j \in Jobs, MarkSent(j) \/ MarkFailure(j) \/ Abort(j)
      PROVE  BatchInv'
  <2>1. \E b \in SUBSET batch[j] : batch' = [batch EXCEPT ![j] = b]
    BY <1>3 DEF MarkSent, MarkFailure, Abort, Handled, TypeOK
  <2>2. answer' = [answer EXCEPT ![j] = "none"]
    BY <1>3 DEF MarkSent, MarkFailure, Abort, Handled
  <2> QED
    BY <2>1, <2>2, BatchShrinks
<1>4. CASE (\E t \in Tasks : Enqueue(t) \/ Replay(t) \/ BecomesDue(t)) \/ UNCHANGED vars
  <2>1. UNCHANGED <<batch, answer>>
    BY <1>4 DEF Enqueue, Replay, BecomesDue, vars
  <2>2. \A t \in Tasks, k \in Jobs : Holds(k, t)' <=> Holds(k, t)
    BY <2>1 DEF Holds
  <2> QED
    BY <2>1, <2>2, TasksStay DEF BatchInv
<1> QED
  BY <1>1, <1>2, <1>3, <1>4 DEF Next, JobStep

-----------------------------------------------------------------------------
\* SENT is written, and success held, only after the receiver got the task.
LEMMA ArrivedInductive ==
  ASSUME TypeOK, BatchInv, ArrivedInv, [Next]_vars
  PROVE  ArrivedInv'
<1> USE DEF ArrivedInv, SentMeansReceived, TypeOK
<1>1. ASSUME NEW t \in Tasks, Enqueue(t) \/ Replay(t)
      PROVE  ArrivedInv'
  BY <1>1 DEF Enqueue, Replay, TaskRow
<1>2. ASSUME NEW t \in Tasks, BecomesDue(t)
      PROVE  ArrivedInv'
  BY <1>2 DEF BecomesDue
<1>3. ASSUME NEW j \in Jobs, Scan(j)
      PROVE  ArrivedInv'
  <2>1. answer[j] = "none"
    BY <1>3 DEF Scan, BatchInv
  <2> QED
    BY <1>3, <2>1 DEF Scan
<1>4. ASSUME NEW j \in Jobs, Post(j)
      PROVE  ArrivedInv'
  <2>1. arrived \subseteq arrived' /\ (answer'[j] = "ok" => First(batch[j])[1] \in arrived')
    BY <1>4 DEF Post
  <2>2. /\ \A k \in Jobs \ {j} : answer'[k] = answer[k]
        /\ UNCHANGED <<task, batch>>
    BY <1>4 DEF Post
  <2> QED
    BY <2>1, <2>2
<1>5. ASSUME NEW j \in Jobs, MarkSent(j)
      PROVE  ArrivedInv'
  <2>1. First(batch[j])[1] \in arrived
    BY <1>5 DEF MarkSent
  <2>2. \A t \in Tasks : task'[t].status = "SENT" => task[t].status = "SENT" \/ t \in arrived
    BY <1>5, <2>1 DEF MarkSent
  <2> QED
    BY <1>5, <2>2 DEF MarkSent, Handled
<1>6. ASSUME NEW j \in Jobs, MarkFailure(j)
      PROVE  ArrivedInv'
  <2>1. \A t \in Tasks : task'[t].status = "SENT" => task[t].status = "SENT"
    BY <1>6 DEF MarkFailure, TaskRow
  <2> QED
    BY <1>6, <2>1 DEF MarkFailure, Handled
<1>7. ASSUME NEW j \in Jobs, Abort(j)
      PROVE  ArrivedInv'
  BY <1>7 DEF Abort
<1>8. CASE UNCHANGED vars
  BY <1>8 DEF vars
<1> QED
  BY <1>1, <1>2, <1>3, <1>4, <1>5, <1>6, <1>7, <1>8 DEF Next, JobStep

-----------------------------------------------------------------------------
Loose(t) == \A j \in Jobs : ~ Holds(j, t)

\* What one step may do to a task that AllowedInv holds for.
AllowedFor(t) ==
  /\ allowed[t] >= Cardinality(Owed(t))
  /\ task[t].status \in Open \union {"NONE"} /\ Loose(t) => allowed[t] >= 1

\* AllowedInv speaks of each task by itself.
LEMMA AllowedEach ==
  AllowedInv <=> \A t \in Tasks : AllowedFor(t)
BY DEF AllowedInv, AllowedFor, Loose

\* Nothing that AllowedInv speaks of changes for t, or its count only grows.
LEMMA AllowedKept ==
  ASSUME NEW t, AllowedFor(t), TypeOK, TypeOK', t \in Tasks,
         Owed(t)' = Owed(t), Loose(t)' => Loose(t), allowed'[t] >= allowed[t],
         task'[t].status \in Open \union {"NONE"} => task[t].status \in Open \union {"NONE"}
  PROVE  AllowedFor(t)'
<1>1. Cardinality(Owed(t)) \in Nat /\ allowed[t] \in Int /\ allowed'[t] \in Int
  BY OwedFinite DEF TypeOK
<1> QED
  BY <1>1 DEF AllowedFor

\* One instance less owes t.
LEMMA OneOwesLess ==
  ASSUME NEW t, NEW j \in Owed(t), Owed(t)' = Owed(t) \ {j}
  PROVE  Cardinality(Owed(t)') = Cardinality(Owed(t)) - 1 /\ Cardinality(Owed(t)) >= 1
<1>1. Cardinality(Owed(t) \ {j}) = Cardinality(Owed(t)) - 1
  BY OwedFinite, FS_RemoveElement
<1>2. Cardinality(Owed(t) \ {j}) \in Nat /\ Cardinality(Owed(t)) \in Nat
  BY OwedFinite, FS_RemoveElement, FS_CardinalityType
<1> QED
  BY <1>1, <1>2

\* A selection adds a delivery that is owed, and one that is allowed where
\* another instance holds the task already.
LEMMA ScanAllowed ==
  ASSUME TypeOK, TypeOK', BatchInv, AllowedInv, NEW j \in Jobs, Scan(j), NEW t \in Tasks
  PROVE  AllowedFor(t)'
<1>1. /\ batch[j] = {} /\ answer[j] = "none"
      /\ batch' = [batch EXCEPT ![j] = {<<s, task[s].attempts>> : s \in Selected}]
      /\ UNCHANGED <<task, answer>>
      /\ allowed'[t] = allowed[t] + (IF t \in Selected \intersect Taken THEN 1 ELSE 0)
  BY DEF Scan, BatchInv
<1>2. \A k \in Jobs \ {j}, s \in Tasks : Holds(k, s)' <=> Holds(k, s)
  BY <1>1 DEF Holds, TypeOK
<1>3. \A k \in Jobs \ {j} : First(batch'[k]) = First(batch[k])
  BY <1>1 DEF TypeOK
<1>4. Holds(j, t)' <=> t \in Selected
  <2>1. batch'[j] = {<<s, task[s].attempts>> : s \in Selected}
    BY <1>1 DEF TypeOK
  <2>2. \A e \in batch'[j] : e[1] \in Selected
    BY <2>1
  <2>3. t \in Selected => <<t, task[t].attempts>> \in batch'[j]
    BY <2>1
  <2> QED
    BY <2>2, <2>3 DEF Holds
<1>5. ~ Holds(j, t)
  BY <1>1 DEF Holds
<1>6. AllowedFor(t)
  BY AllowedEach
<1>7. allowed[t] \in Int /\ Cardinality(Owed(t)) \in Nat /\ IsFiniteSet(Owed(t))
  BY OwedFinite DEF TypeOK
<1>8. CASE t \in Selected
  <2>1. Owed(t)' = Owed(t) \union {j} /\ j \notin Owed(t)
    BY <1>1, <1>2, <1>3, <1>4, <1>5, <1>8 DEF Owed
  <2>2. Cardinality(Owed(t)') = Cardinality(Owed(t)) + 1
    BY <1>7, <2>1, FS_AddElement
  <2>3. ~ Loose(t)'
    BY <1>4, <1>8 DEF Loose
  <2>4. CASE t \in Taken
    BY <1>1, <1>6, <1>7, <1>8, <2>2, <2>3, <2>4 DEF AllowedFor
  <2>5. CASE t \notin Taken
    <3>1. Loose(t)
      BY <2>5 DEF Loose, Taken, Holds
    <3>2. task[t].status \in Open
      BY <1>8 DEF Selected, Due
    <3>3. allowed[t] >= 1
      BY <1>6, <3>1, <3>2 DEF AllowedFor
    <3>4. Owed(t) = {}
      BY <3>1 DEF Loose, Owed
    <3>5. Cardinality(Owed(t)) = 0
      BY <3>4, FS_EmptySet
    <3> QED
      BY <1>1, <1>7, <2>2, <2>3, <2>5, <3>3, <3>5 DEF AllowedFor
  <2> QED
    BY <2>4, <2>5
<1>9. CASE t \notin Selected
  <2>1. Owed(t)' = Owed(t)
    BY <1>1, <1>2, <1>3, <1>4, <1>5, <1>9 DEF Owed
  <2>2. Loose(t)' => Loose(t)
    BY <1>2, <1>5 DEF Loose
  <2> QED
    BY <1>1, <1>6, <1>7, <1>9, <2>1, <2>2, AllowedKept
<1> QED
  BY <1>8, <1>9

\* A delivery uses up what is allowed and owed, or fails and stays owed.
LEMMA PostAllowed ==
  ASSUME TypeOK, TypeOK', AllowedInv, NEW j \in Jobs, Post(j), NEW t \in Tasks
  PROVE  AllowedFor(t)'
<1> DEFINE s == First(batch[j])[1]
<1>1. batch[j] # {} /\ answer[j] = "none" /\ UNCHANGED <<task, batch>>
  BY DEF Post
<1>2. s \in Tasks /\ Holds(j, s)
  BY <1>1, FirstInBatch DEF Holds
<1>3. \A k \in Jobs, u \in Tasks : Holds(k, u)' <=> Holds(k, u)
  BY <1>1 DEF Holds
<1>4. \A k \in Jobs \ {j} : answer'[k] = answer[k]
  BY DEF Post, TypeOK
<1>5. AllowedFor(t) /\ allowed[t] \in Int /\ Cardinality(Owed(t)) \in Nat
  BY AllowedEach, OwedFinite DEF TypeOK
<1>6. CASE answer'[j] = "ok" /\ t = s
  <2>1. j \in Owed(t) /\ Owed(t)' = Owed(t) \ {j}
    BY <1>1, <1>2, <1>3, <1>4, <1>6 DEF Owed
  <2>2. allowed'[t] = allowed[t] - 1
    BY <1>2, <1>6 DEF Post, TypeOK
  <2>3. ~ Loose(t)'
    BY <1>2, <1>3, <1>6 DEF Loose
  <2>4. Cardinality(Owed(t)') = Cardinality(Owed(t)) - 1
    BY <2>1, OneOwesLess
  <2>5. allowed[t] >= Cardinality(Owed(t))
    BY <1>5 DEF AllowedFor
  <2>6. allowed'[t] >= Cardinality(Owed(t)')
    BY <1>5, <2>2, <2>4, <2>5
  <2> QED
    BY <2>3, <2>6 DEF AllowedFor
<1>7. CASE ~ (answer'[j] = "ok" /\ t = s)
  <2>1. Owed(t)' = Owed(t)
    BY <1>1, <1>3, <1>4, <1>7 DEF Owed
  <2>2. allowed'[t] = allowed[t]
    BY <1>7 DEF Post, TypeOK
  <2>3. Loose(t)' => Loose(t)
    BY <1>3 DEF Loose
  <2> QED
    BY <1>1, <1>5, <2>1, <2>2, <2>3, AllowedKept
<1> QED
  BY <1>6, <1>7

\* The instance whose POST was a success owed the task no more, and holds it no
\* more once the outcome is written.
LEMMA MarkSentAllowed ==
  ASSUME TypeOK, TypeOK', BatchInv, AllowedInv, NEW j \in Jobs, MarkSent(j), NEW t \in Tasks
  PROVE  AllowedFor(t)'
<1> DEFINE e == First(batch[j])
<1>1. /\ answer[j] = "ok" /\ batch[j] # {}
      /\ batch' = [batch EXCEPT ![j] = @ \ {e}] /\ answer' = [answer EXCEPT ![j] = "none"]
      /\ UNCHANGED allowed
  BY DEF MarkSent, Handled, BatchInv
<1>2. e \in batch[j] /\ e[1] \in Tasks
  BY <1>1, FirstInBatch
<1>3. \A k \in Jobs \ {j} : batch'[k] = batch[k] /\ answer'[k] = answer[k]
  BY <1>1 DEF TypeOK
<1>4. batch'[j] = batch[j] \ {e} /\ answer'[j] = "none"
  BY <1>1 DEF TypeOK
<1>5. Holds(j, t)' <=> Holds(j, t) /\ t # e[1]
  BY <1>2, <1>4 DEF Holds, BatchInv
<1>6. Owed(t)' = Owed(t)
  BY <1>1, <1>3, <1>4, <1>5 DEF Owed, Holds
<1>7. AllowedFor(t) /\ allowed[t] \in Int /\ Cardinality(Owed(t)) \in Nat
  BY AllowedEach, OwedFinite DEF TypeOK
<1>8. CASE t = e[1]
  <2>1. task'[t].status = "SENT"
    BY <1>8 DEF MarkSent, TypeOK
  <2> QED
    BY <1>1, <1>6, <1>7, <2>1 DEF AllowedFor, Open
<1>9. CASE t # e[1]
  <2>1. task'[t] = task[t]
    BY <1>9 DEF MarkSent, TypeOK
  <2>2. Loose(t)' => Loose(t)
    BY <1>3, <1>5, <1>9 DEF Loose, Holds
  <2> QED
    BY <1>1, <1>6, <1>7, <2>1, <2>2, AllowedKept
<1> QED
  BY <1>8, <1>9

\* The instance whose POST failed owed the task: there is one delivery left
\* when the task is open again.
LEMMA MarkFailureAllowed ==
  ASSUME TypeOK, TypeOK', BatchInv, AllowedInv, NEW j \in Jobs, MarkFailure(j), NEW t \in Tasks
  PROVE  AllowedFor(t)'
<1> DEFINE e == First(batch[j])
<1>1. /\ answer[j] = "failed" /\ batch[j] # {}
      /\ batch' = [batch EXCEPT ![j] = @ \ {e}] /\ answer' = [answer EXCEPT ![j] = "none"]
      /\ UNCHANGED allowed
  BY DEF MarkFailure, Handled, BatchInv
<1>2. e \in batch[j] /\ e[1] \in Tasks
  BY <1>1, FirstInBatch
<1>3. \A k \in Jobs \ {j} : batch'[k] = batch[k] /\ answer'[k] = answer[k]
  BY <1>1 DEF TypeOK
<1>4. batch'[j] = batch[j] \ {e} /\ answer'[j] = "none"
  BY <1>1 DEF TypeOK
<1>5. Holds(j, t)' <=> Holds(j, t) /\ t # e[1]
  BY <1>2, <1>4 DEF Holds, BatchInv
<1>6. AllowedFor(t) /\ allowed[t] \in Int /\ Cardinality(Owed(t)) \in Nat
  BY AllowedEach, OwedFinite DEF TypeOK
<1>7. CASE t = e[1]
  <2>1. j \in Owed(t)
    BY <1>1, <1>2, <1>7 DEF Owed, Holds
  <2>2. Owed(t)' = Owed(t) \ {j}
    BY <1>1, <1>3, <1>4, <1>5, <1>7 DEF Owed, Holds
  <2>3. /\ Cardinality(Owed(t)') = Cardinality(Owed(t)) - 1
        /\ Cardinality(Owed(t)) >= 1
    BY <2>1, <2>2, OneOwesLess
  <2>4. allowed[t] >= Cardinality(Owed(t))
    BY <1>6 DEF AllowedFor
  <2>5. allowed'[t] >= Cardinality(Owed(t)') /\ allowed'[t] >= 1
    BY <1>1, <1>6, <2>3, <2>4
  <2> QED
    BY <2>5 DEF AllowedFor
<1>8. CASE t # e[1]
  <2>1. task'[t] = task[t]
    BY <1>8 DEF MarkFailure, TypeOK
  <2>2. Loose(t)' => Loose(t)
    BY <1>3, <1>5, <1>8 DEF Loose, Holds
  <2>3. Owed(t)' = Owed(t)
    BY <1>1, <1>3, <1>4, <1>5, <1>8 DEF Owed, Holds
  <2> QED
    BY <1>1, <1>6, <2>1, <2>2, <2>3, AllowedKept
<1> QED
  BY <1>7, <1>8

\* An instance that gives up leaves a delivery for whoever takes the task next:
\* its own, or the one its success was.
LEMMA AbortAllowed ==
  ASSUME TypeOK, TypeOK', BatchInv, AllowedInv, NEW j \in Jobs, Abort(j), NEW t \in Tasks
  PROVE  AllowedFor(t)'
<1> DEFINE s == First(batch[j])[1]
           delivered == answer[j] = "ok" /\ s = t
<1>1. /\ batch[j] # {} /\ UNCHANGED task
      /\ batch' = [batch EXCEPT ![j] = {}] /\ answer' = [answer EXCEPT ![j] = "none"]
  BY DEF Abort
<1>2. \A k \in Jobs \ {j} : batch'[k] = batch[k] /\ answer'[k] = answer[k]
  BY <1>1 DEF TypeOK
<1>3. batch'[j] = {}
  BY <1>1 DEF TypeOK
<1>4. s \in Tasks
  BY <1>1, FirstInBatch
<1>5. allowed'[t] = IF delivered THEN allowed[t] + 1 ELSE allowed[t]
  BY <1>4 DEF Abort, TypeOK
<1>6. AllowedFor(t) /\ allowed[t] \in Int /\ Cardinality(Owed(t)) \in Nat
  BY AllowedEach, OwedFinite DEF TypeOK
<1>7. Owed(t)' = Owed(t) \ {j}
  BY <1>2, <1>3 DEF Owed, Holds
<1>8. CASE j \in Owed(t)
  <2>1. /\ Cardinality(Owed(t)') = Cardinality(Owed(t)) - 1
        /\ Cardinality(Owed(t)) >= 1
    BY <1>7, <1>8, OneOwesLess
  <2>2. allowed[t] >= Cardinality(Owed(t))
    BY <1>6 DEF AllowedFor
  <2>3. allowed'[t] >= Cardinality(Owed(t)') /\ allowed'[t] >= 1
    BY <1>5, <1>6, <2>1, <2>2
  <2> QED
    BY <2>3 DEF AllowedFor
<1>9. CASE j \notin Owed(t)
  <2>1. Owed(t)' = Owed(t)
    BY <1>7, <1>9
  <2>2. Holds(j, t) => delivered
    BY <1>9 DEF Owed
  <2>3. CASE Holds(j, t)
    <3>1. allowed'[t] = allowed[t] + 1
      BY <1>5, <2>2, <2>3
    <3>2. allowed[t] >= Cardinality(Owed(t))
      BY <1>6 DEF AllowedFor
    <3>3. allowed'[t] >= Cardinality(Owed(t)) /\ allowed'[t] >= 1
      BY <1>6, <3>1, <3>2
    <3> QED
      BY <2>1, <3>3 DEF AllowedFor
  <2>4. CASE ~ Holds(j, t)
    <3>1. Loose(t)' => Loose(t)
      BY <1>2, <2>4 DEF Loose, Holds
    <3>2. allowed'[t] >= allowed[t]
      BY <1>5, <1>6
    <3> QED
      BY <1>1, <1>6, <2>1, <3>1, <3>2, AllowedKept
  <2> QED
    BY <2>3, <2>4
<1> QED
  BY <1>8, <1>9

\* Every step allows at least what it makes the instances owe.
LEMMA AllowedInductive ==
  ASSUME TypeOK, TypeOK', BatchInv, AllowedInv, [Next]_vars
  PROVE  AllowedInv'
<1> SUFFICES ASSUME NEW t \in Tasks
             PROVE  AllowedFor(t)'
  BY AllowedEach DEF AllowedInv, AllowedFor, Loose
<1>1. AllowedFor(t) /\ allowed[t] \in Int
  BY AllowedEach DEF TypeOK
<1>2. ASSUME UNCHANGED <<batch, answer>>, allowed'[t] >= allowed[t],
             task'[t].status \in Open \union {"NONE"} => task[t].status \in Open \union {"NONE"}
      PROVE  AllowedFor(t)'
  <2>1. Owed(t)' = Owed(t) /\ (Loose(t)' => Loose(t))
    BY <1>2 DEF Owed, Loose, Holds
  <2> QED
    BY <1>1, <1>2, <2>1, AllowedKept
<1>3. ASSUME NEW s \in Tasks, Enqueue(s)
      PROVE  AllowedFor(t)'
  <2>1. UNCHANGED <<batch, answer, allowed>> /\ task[s].status = "NONE"
    BY <1>3 DEF Enqueue
  <2>2. t # s => task'[t] = task[t]
    BY <1>3 DEF Enqueue, TypeOK
  <2> QED
    BY <1>1, <1>2, <2>1, <2>2
<1>4. ASSUME NEW s \in Tasks, Replay(s)
      PROVE  AllowedFor(t)'
  <2>1. UNCHANGED <<batch, answer>>
    BY <1>4 DEF Replay
  <2>2. CASE t # s
    <3>1. task'[t] = task[t] /\ allowed'[t] = allowed[t]
      BY <1>4, <2>2 DEF Replay, TypeOK
    <3> QED
      BY <1>1, <1>2, <2>1, <3>1
  <2>3. CASE t = s
    <3>1. allowed'[t] = allowed[t] + 1
      BY <1>4, <2>3 DEF Replay, TypeOK
    <3>2. Owed(t)' = Owed(t)
      BY <2>1 DEF Owed, Holds
    <3>3. allowed[t] >= Cardinality(Owed(t)) /\ Cardinality(Owed(t)) \in Nat
      BY <1>1, OwedFinite DEF AllowedFor
    <3>4. allowed'[t] >= Cardinality(Owed(t)) /\ allowed'[t] >= 1
      BY <1>1, <3>1, <3>3
    <3> QED
      BY <3>2, <3>4 DEF AllowedFor
  <2> QED
    BY <2>2, <2>3
<1>5. ASSUME NEW s \in Tasks, BecomesDue(s)
      PROVE  AllowedFor(t)'
  <2>1. UNCHANGED <<batch, answer, allowed>> /\ task'[t].status = task[t].status
    BY <1>5 DEF BecomesDue, TypeOK
  <2> QED
    BY <1>1, <1>2, <2>1
<1>6. CASE UNCHANGED vars
  BY <1>1, <1>2, <1>6 DEF vars
<1> QED
  BY <1>3, <1>4, <1>5, <1>6, ScanAllowed, PostAllowed, MarkSentAllowed, MarkFailureAllowed,
     AbortAllowed DEF Next, JobStep

-----------------------------------------------------------------------------
\* At first no task exists and one delivery of each is allowed.
LEMMA DeliveryInitial ==
  ASSUME Init
  PROVE  DeliveryInv
<1>1. TypeOK
  BY DeliveryAssumption DEF Init, TypeOK, TaskRow, Statuses
<1>2. BatchInv /\ ArrivedInv
  BY DEF Init, BatchInv, ArrivedInv, SentMeansReceived, TaskRow, Holds
<1>3. AllowedInv
  <2>1. \A t \in Tasks : Owed(t) = {} /\ allowed[t] = 1
    BY DEF Init, Owed, Holds
  <2> QED
    BY <2>1, FS_EmptySet DEF AllowedInv
<1> QED
  BY <1>1, <1>2, <1>3 DEF DeliveryInv

\* What deliveries rely on always holds.
LEMMA DeliveryInvariant == Spec => []DeliveryInv
<1>1. Init => DeliveryInv
  BY DeliveryInitial
<1>2. DeliveryInv /\ [Next]_vars => DeliveryInv'
  BY TypeInductive, BatchInductive, ArrivedInductive, AllowedInductive DEF DeliveryInv
<1> QED
  BY <1>1, <1>2, PTL DEF Spec

\* The task table, the jobs' batches and the history keep their types, however
\* many instances overlap.
THEOREM DeliveryTyping == Spec => []TypeOK
<1>1. DeliveryInv => TypeOK
  BY DEF DeliveryInv
<1> QED
  BY <1>1, DeliveryInvariant, PTL

\* A task that is SENT was received by its receiver, whichever instances and
\* replays wrote over each other.
THEOREM SentWasReceived == Spec => []SentMeansReceived
<1>1. DeliveryInv => SentMeansReceived
  BY DEF DeliveryInv, ArrivedInv
<1> QED
  BY <1>1, DeliveryInvariant, PTL

\* The receiver gets an event once, and once more only for each lost answer,
\* success that was not written, replay, or overlapping selection.
THEOREM DeliveriesHaveCauses == Spec => []OneDeliveryPerCause
<1>1. DeliveryInv => OneDeliveryPerCause
  <2> SUFFICES ASSUME DeliveryInv, NEW t \in Tasks
               PROVE  allowed[t] >= 0
    BY DEF OneDeliveryPerCause
  <2>1. /\ allowed[t] >= Cardinality(Owed(t))
        /\ Cardinality(Owed(t)) \in Nat /\ allowed[t] \in Int
    BY OwedFinite DEF DeliveryInv, AllowedInv, TypeOK
  <2> QED
    BY <2>1
<1> QED
  BY <1>1, DeliveryInvariant, PTL
=============================================================================
