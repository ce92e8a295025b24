---------------------------- MODULE CallbackGate ----------------------------
(***************************************************************************)
(* POST /payment/status/callback in one server process: withCallbackToken  *)
(* in front of handleStatusCallback.  The gate remembers successful        *)
(* callbacks by their idempotency key (callbackDedupe) and consumes nonces *)
(* (callbackNonceLRU); both live in the memory of the process.  A record   *)
(* is only written after the handler has answered, so requests overlap.    *)
(*                                                                         *)
(* Time is counted in units of which a request needs none: the windows are *)
(* minutes, a request seconds.  Definitions named Mutant_... are no part   *)
(* of the specification (see module Ledger).                               *)
(***************************************************************************)
EXTENDS Integers, FiniteSets

CONSTANTS
  Handlers,    \* bound: requests in progress at once
  Keys,        \* values of X-Callback-Idempotency-Key
  Nonces,      \* values of X-Callback-Nonce
  Orders,      \* pay_order numbers
  Bodies,      \* what callbacks report: an order and its status
  Skew,        \* signatureMaxSkew, 5 minutes
  Window,      \* of the nonces and of the dedupe records, 10 minutes
  MaxTime,     \* bound: the clock
  NoRequest    \* what an idle handler works on

Times == 0 .. MaxTime

Requests == [key : Keys, nonce : Nonces, ts : Times, body : Bodies]

ASSUME GateAssumption ==
  /\ Skew \in Nat /\ Window \in Nat \ {0} /\ MaxTime \in Nat
  /\ 2 * Skew <= Window
  /\ Bodies \subseteq [order : Orders, status : {"SETTLED", "FAILED"}]
  /\ NoRequest \notin Requests

VARIABLES
  now,        \* nowFn
  order,      \* NONE, SETTLING, or the status with which an order left SETTLING
  dedupe,     \* callbackDedupe: the request and the time last marked under each key
  nonces,     \* callbackNonceLRU: when the window of each nonce began
  pc,         \* where each request is
  req,        \* the request each handler works on
  answer,     \* the answer given in the last step: <<request, code>>
  done,       \* history: requests this process handled with success
  marked      \* history: those of them whose record was written

memory == <<dedupe, nonces>>
history == <<done, marked>>
vars == <<now, order, memory, pc, req, answer, history>>

\* callbackDigest: body, timestamp and nonce, not the key.
Digest(r) == <<r.body, r.ts, r.nonce>>

Never == -1
NoRecord == [digest |-> <<>>, seenAt |-> Never]
NoAnswer == <<NoRequest, "none">>

Init ==
  /\ now = 0
  /\ order = [o \in Orders |-> "NONE"]
  /\ dedupe = [k \in Keys |-> NoRecord]
  /\ nonces = [n \in Nonces |-> Never]
  /\ pc = [h \in Handlers |-> "idle"]
  /\ req = [h \in Handlers |-> NoRequest]
  /\ answer = NoAnswer
  /\ done = {} /\ marked = {}

-----------------------------------------------------------------------------
\* validateSignatureTimestamp: both ends of the interval are accepted.
Fresh(ts) == now - Skew <= ts /\ ts <= now + Skew

\* Pruned that also forgets a record that is exactly one window old.
Mutant_Pruned ==
  [k \in Keys |-> IF dedupe[k].seenAt <= now - Window THEN NoRecord ELSE dedupe[k]]

\* prune: a record is kept until it is older than the window.
Pruned ==
  [k \in Keys |-> IF dedupe[k].seenAt < now - Window THEN NoRecord ELSE dedupe[k]]

\* Seen that looks for the key alone.
Mutant_Seen(r) == IF Pruned[r.key] = NoRecord THEN "no" ELSE "same"

Seen(r) ==
  IF Pruned[r.key] = NoRecord THEN "no"
  ELSE IF Pruned[r.key].digest = Digest(r) THEN "same" ELSE "differs"

\* The gate answers from the record of an earlier callback.
AnswerSeen(r) ==
  /\ Fresh(r.ts)
  /\ \/ Seen(r) = "same" /\ answer' = <<r, "ok">>
     \/ Seen(r) = "differs" /\ answer' = <<r, "conflict">>
  /\ dedupe' = Pruned
  /\ UNCHANGED <<now, order, nonces, pc, req, history>>

Begin(h, r) ==
  /\ pc[h] = "idle"
  /\ Fresh(r.ts)
  /\ Seen(r) = "no"
  /\ pc' = [pc EXCEPT ![h] = "nonce"]
  /\ req' = [req EXCEPT ![h] = r]
  /\ dedupe' = Pruned
  /\ answer' = NoAnswer
  /\ UNCHANGED <<now, order, nonces, history>>

Finish(h) ==
  /\ pc' = [pc EXCEPT ![h] = "idle"]
  /\ req' = [req EXCEPT ![h] = NoRequest]

\* Used that does not count the instant the window began at.
Mutant_Used(n) == nonces[n] # Never /\ nonces[n] < now /\ now - nonces[n] < Window

\* The nonce's window is open.
Used(n) == nonces[n] # Never /\ now - nonces[n] < Window

\* allow with a limit of 1: the first use opens a window, the next is refused.
TakeNonce(h) ==
  LET n == req[h].nonce IN
  /\ pc[h] = "nonce"
  /\ IF Used(n)
     THEN /\ answer' = <<req[h], "replayed">>
          /\ Finish(h)
          /\ UNCHANGED nonces
     ELSE /\ nonces' = [nonces EXCEPT ![n] = now]
          /\ pc' = [pc EXCEPT ![h] = "handle"]
          /\ answer' = NoAnswer
          /\ UNCHANGED req
  /\ UNCHANGED <<now, order, dedupe, history>>

\* handleStatusCallback resolves a SETTLING order and answers 200 at once.
Handle(h) ==
  LET b == req[h].body IN
  /\ pc[h] = "handle"
  /\ order[b.order] = "SETTLING"
  /\ order' = [order EXCEPT ![b.order] = b.status]
  /\ pc' = [pc EXCEPT ![h] = "mark"]
  /\ answer' = <<req[h], "ok">>
  /\ done' = done \union {req[h]}
  /\ UNCHANGED <<now, memory, req, marked>>

\* The signature or the body is refused, the order is not SETTLING, or the
\* database fails.  The nonce stays used.
Refuse(h) ==
  /\ pc[h] = "handle"
  /\ answer' = <<req[h], "error">>
  /\ Finish(h)
  /\ UNCHANGED <<now, order, memory, history>>

\* Mark with the digest of the key instead of the request.
Mutant_Mark(h) ==
  /\ pc[h] = "mark"
  /\ dedupe' = [Pruned EXCEPT ![req[h].key] = [digest |-> req[h].key, seenAt |-> now]]
  /\ marked' = marked \union {req[h]}
  /\ answer' = NoAnswer
  /\ Finish(h)
  /\ UNCHANGED <<now, order, nonces, done>>

Mark(h) ==
  /\ pc[h] = "mark"
  /\ dedupe' = [Pruned EXCEPT ![req[h].key] = [digest |-> Digest(req[h]), seenAt |-> now]]
  /\ marked' = marked \union {req[h]}
  /\ answer' = NoAnswer
  /\ Finish(h)
  /\ UNCHANGED <<now, order, nonces, done>>

\* Elsewhere: the payment commits as SETTLING; the job or an operator fails it.
\* What a refund or a late job makes of the order afterwards is left out: it is
\* never SETTLING again, and that is all a callback looks at.
OrderStep(o) ==
  /\ \/ order[o] = "NONE" /\ order' = [order EXCEPT ![o] = "SETTLING"]
     \/ order[o] = "SETTLING" /\ order' = [order EXCEPT ![o] = "FAILED"]
  /\ answer' = NoAnswer
  /\ UNCHANGED <<now, memory, pc, req, history>>

Tick ==
  /\ now < MaxTime
  /\ \A h \in Handlers : pc[h] = "idle"
  /\ now' = now + 1
  /\ answer' = NoAnswer
  /\ UNCHANGED <<order, memory, pc, req, history>>

\* A new process remembers nothing, and forgets what was in progress.
Restart ==
  /\ dedupe' = [k \in Keys |-> NoRecord]
  /\ nonces' = [n \in Nonces |-> Never]
  /\ pc' = [h \in Handlers |-> "idle"]
  /\ req' = [h \in Handlers |-> NoRequest]
  /\ answer' = NoAnswer
  /\ done' = {} /\ marked' = {}
  /\ UNCHANGED <<now, order>>

Next ==
  \/ \E r \in Requests : AnswerSeen(r)
  \/ \E h \in Handlers :
       \/ \E r \in Requests : Begin(h, r)
       \/ TakeNonce(h) \/ Handle(h) \/ Refuse(h) \/ Mark(h)
  \/ \E o \in Orders : OrderStep(o)
  \/ Tick
  \/ Restart

Spec == Init /\ [][Next]_vars

-----------------------------------------------------------------------------
(* Properties *)

TypeOK ==
  /\ now \in Times
  /\ order \in [Orders -> {"NONE", "SETTLING", "SETTLED", "FAILED"}]
  /\ dedupe \in [Keys -> {NoRecord} \union [digest : {Digest(r) : r \in Requests}, seenAt : Times]]
  /\ nonces \in [Nonces -> Times \union {Never}]
  /\ pc \in [Handlers -> {"idle", "nonce", "handle", "mark"}]
  /\ req \in [Handlers -> Requests \union {NoRequest}]
  /\ answer \in (Requests \union {NoRequest})
                  \X {"none", "ok", "conflict", "replayed", "error"}
  /\ done \subseteq Requests
  /\ marked \subseteq done

\* A callback that is answered 200, by the handler or from a record, has been
\* carried out: its order left SETTLING with the status it reports, and no
\* callback that says the opposite has been answered 200.
OkMeansResolved ==
  answer[2] = "ok" => order[answer[1].body.order] = answer[1].body.status

\* A callback that was handled with success does not reach the handler again
\* while the process runs: copies that overlap it are stopped by the nonce,
\* later ones by the record, and when both have gone its timestamp is too old.
HandledOnce ==
  \A h \in Handlers : pc[h] = "handle" => req[h] \notin done

\* The body that r's key stands for was never another.
KeyKeptFor(r) == \A s \in done : s.key = r.key => s.body = r.body

\* Once a callback is remembered, sending it again unchanged is answered 200
\* for as long as its timestamp is accepted: no new copy of it is let through to
\* the handler, and an answer to one that is not in progress is "ok".
ExactRetrySucceeds ==
  [][\A r \in marked :
       KeyKeptFor(r) =>
         /\ \A h \in Handlers : req'[h] = r => req[h] = r
         /\ answer'[1] = r /\ (\A h \in Handlers : req[h] # r) => answer'[2] = "ok"]_vars
=============================================================================
