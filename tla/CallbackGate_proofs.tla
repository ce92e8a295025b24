------------------------ MODULE CallbackGate_proofs ------------------------
(***************************************************************************)
(* The callback gate, for every number of requests in progress and every   *)
(* value of the windows: a callback is handled with success once, and an   *)
(* answer of 200 is true.                                                  *)
(***************************************************************************)
EXTENDS CallbackGate, TLAPS

\* A request is past the nonce check.
Past(h) == pc[h] \in {"handle", "mark"}

\* Requests in progress were accepted, and took their nonces, at this instant.
ProgressInv ==
  /\ \A h \in Handlers : pc[h] # "idle" => req[h] \in Requests /\ Fresh(req[h].ts)
  /\ \A h \in Handlers : Past(h) => nonces[req[h].nonce] = now
  /\ \A g, h \in Handlers : Past(g) /\ Past(h) /\ g # h => req[g].nonce # req[h].nonce
  /\ \A h \in Handlers : pc[h] = "mark" => req[h] \in done

\* What the process remembers of the requests it handled: the nonce's window
\* began after the request became acceptable, and so did the record's, which is
\* only forgotten once the request is no longer accepted.
MemoryInv ==
  /\ \A r \in done : nonces[r.nonce] # Never /\ nonces[r.nonce] \in r.ts - Skew .. now
  /\ \A r \in marked : IF dedupe[r.key] = NoRecord
                       THEN r.ts + Skew < now
                       ELSE dedupe[r.key].seenAt >= r.ts - Skew
  /\ \A r \in done \ marked : \E h \in Handlers : pc[h] = "mark" /\ req[h] = r
  /\ \A h \in Handlers : pc[h] = "nonce" /\ req[h] \in done => nonces[req[h].nonce] = now

\* What was answered stays true, and the records hold nothing else.
TruthInv ==
  /\ \A r \in done : order[r.body.order] = r.body.status
  /\ \A k \in Keys : dedupe[k] = NoRecord \/ \E r \in done : dedupe[k].digest = Digest(r)

GateInv == TypeOK /\ ProgressInv /\ MemoryInv /\ HandledOnce /\ TruthInv /\ OkMeansResolved

-----------------------------------------------------------------------------
\* What the proofs use of the types.
LEMMA TypeFacts ==
  ASSUME TypeOK
  PROVE  /\ now \in Int /\ now >= 0 /\ Skew \in Int /\ Skew >= 0 /\ Window \in Int /\ Window > 0
         /\ 2 * Skew <= Window
         /\ \A r \in Requests : r.ts \in Int /\ r.ts >= 0 /\ r.key \in Keys /\ r.nonce \in Nonces
                                 /\ r.body \in Bodies
         /\ \A b \in Bodies : b.order \in Orders /\ b.status \in {"SETTLED", "FAILED"}
         /\ \A n \in Nonces : nonces[n] \in Int /\ nonces[n] >= -1
         /\ \A k \in Keys : dedupe[k] # NoRecord => dedupe[k].seenAt \in Int /\ dedupe[k].seenAt >= 0
         /\ done \subseteq Requests /\ marked \subseteq done
  BY GateAssumption, SMT DEF TypeOK, Times, Requests, Never, NoRecord

\* Two requests with one digest report the same.
LEMMA DigestDetermines ==
  ASSUME NEW r, NEW s, Digest(r) = Digest(s)
  PROVE  r.body = s.body
  BY SMT DEF Digest

\* Pruning keeps a record or drops one that is older than the window.
LEMMA PrunedRecord ==
  ASSUME TypeOK, NEW k \in Keys
  PROVE  \/ Pruned[k] = dedupe[k]
         \/ Pruned[k] = NoRecord /\ dedupe[k].seenAt < now - Window
  BY SMT DEF Pruned

\* The pruned records have the type of the records, and keep what the
\* invariant says of them.
LEMMA PrunedKeeps ==
  ASSUME GateInv
  PROVE  /\ Pruned \in [Keys -> {NoRecord} \union [digest : {Digest(r) : r \in Requests}, seenAt : Times]]
         /\ \A r \in marked : IF Pruned[r.key] = NoRecord
                              THEN r.ts + Skew < now
                              ELSE Pruned[r.key].seenAt >= r.ts - Skew
         /\ \A k \in Keys : Pruned[k] = NoRecord \/ \E r \in done : Pruned[k].digest = Digest(r)
<1> USE DEF GateInv
<1>1. Pruned \in [Keys -> {NoRecord} \union [digest : {Digest(r) : r \in Requests}, seenAt : Times]]
  BY SMT DEF Pruned, TypeOK
<1>2. ASSUME NEW r \in marked
      PROVE  IF Pruned[r.key] = NoRecord
             THEN r.ts + Skew < now ELSE Pruned[r.key].seenAt >= r.ts - Skew
  <2>1. r \in Requests /\ r.key \in Keys
    BY <1>2, TypeFacts
  <2>2. IF dedupe[r.key] = NoRecord
        THEN r.ts + Skew < now ELSE dedupe[r.key].seenAt >= r.ts - Skew
    BY <1>2 DEF MemoryInv
  <2>3. CASE Pruned[r.key] = dedupe[r.key]
    BY <2>2, <2>3
  <2>4. CASE Pruned[r.key] = NoRecord /\ dedupe[r.key].seenAt < now - Window
    <3>1. CASE dedupe[r.key] = NoRecord
      BY <2>2, <2>4, <3>1
    <3>2. CASE dedupe[r.key] # NoRecord
      BY <2>1, <2>2, <2>4, <3>2, TypeFacts, SMT
    <3>. QED BY <3>1, <3>2
  <2>. QED BY <2>1, <2>3, <2>4, PrunedRecord
<1>3. ASSUME NEW k \in Keys
      PROVE  Pruned[k] = NoRecord \/ \E r \in done : Pruned[k].digest = Digest(r)
  BY <1>3, PrunedRecord DEF TruthInv
<1>. QED BY <1>1, <1>2, <1>3

\* The gate starts with nothing remembered and nothing in progress.
THEOREM GateInit == Init => GateInv
<1>. SUFFICES ASSUME Init PROVE GateInv
  OBVIOUS
<1>1. TypeOK
  BY GateAssumption, SMT DEF Init, TypeOK, Times, NoAnswer, NoRecord
<1>2. ProgressInv /\ MemoryInv /\ HandledOnce
  BY SMT DEF Init, ProgressInv, MemoryInv, HandledOnce, Past
<1>3. TruthInv /\ OkMeansResolved
  BY SMT DEF Init, TruthInv, OkMeansResolved, NoAnswer
<1>. QED BY <1>1, <1>2, <1>3 DEF GateInv

-----------------------------------------------------------------------------
\* An answer from a record repeats one that the handler gave.
LEMMA AnswerSeenStep ==
  ASSUME GateInv, NEW r \in Requests, AnswerSeen(r)
  PROVE  GateInv'
<1> USE DEF GateInv
<1>0. /\ UNCHANGED <<now, order, nonces, pc, req, done, marked>>
      /\ dedupe' = Pruned
      /\ answer' \in {<<r, "ok">>, <<r, "conflict">>}
  BY DEF AnswerSeen, history
<1>1. TypeOK'
  BY <1>0, PrunedKeeps, SMT DEF TypeOK
<1>2. ProgressInv' /\ HandledOnce'
  BY <1>0 DEF ProgressInv, HandledOnce, Past, Fresh
<1>3. MemoryInv'
  BY <1>0, PrunedKeeps DEF MemoryInv
<1>4. TruthInv'
  BY <1>0, PrunedKeeps DEF TruthInv
<1>5. OkMeansResolved'
  <2>. SUFFICES ASSUME answer'[2] = "ok"
                PROVE  order[r.body.order] = r.body.status /\ answer'[1] = r
    BY <1>0 DEF OkMeansResolved
  <2>1. answer' = <<r, "ok">>
    BY <1>0
  <2>2. Seen(r) = "same"
    BY <2>1 DEF AnswerSeen
  <2>3. Pruned[r.key] # NoRecord /\ Pruned[r.key].digest = Digest(r)
    BY <2>2 DEF Seen
  <2>4. PICK s \in done : Pruned[r.key].digest = Digest(s)
    BY <2>3, PrunedKeeps, TypeFacts
  <2>5. r.body = s.body
    BY <2>3, <2>4, DigestDetermines
  <2>. QED BY <2>1, <2>4, <2>5 DEF TruthInv
<1>. QED BY <1>1, <1>2, <1>3, <1>4, <1>5

\* A copy of a handled request only passes the records while the first is
\* being recorded, at the instant its nonce was taken.
LEMMA BeginStep ==
  ASSUME GateInv, NEW h \in Handlers, NEW r \in Requests, Begin(h, r)
  PROVE  GateInv'
<1> USE DEF GateInv
<1>0. /\ UNCHANGED <<now, order, nonces, done, marked>>
      /\ dedupe' = Pruned /\ answer' = NoAnswer
      /\ pc[h] = "idle" /\ Fresh(r.ts)
      /\ pc' = [pc EXCEPT ![h] = "nonce"] /\ req' = [req EXCEPT ![h] = r]
  BY DEF Begin, history
<1>a. /\ pc'[h] = "nonce" /\ req'[h] = r
      /\ \A g \in Handlers \ {h} : pc'[g] = pc[g] /\ req'[g] = req[g]
  BY <1>0 DEF TypeOK
<1>1. TypeOK'
  BY <1>0, PrunedKeeps, SMT DEF TypeOK, NoAnswer
<1>2. ProgressInv'
  BY <1>0, <1>a DEF ProgressInv, Past, Fresh
<1>3. r \in done => nonces[r.nonce] = now
  <2>. SUFFICES ASSUME r \in done PROVE nonces[r.nonce] = now
    OBVIOUS
  <2>1. Pruned[r.key] = NoRecord
    BY DEF Begin, Seen
  <2>2. r \notin marked
    <3>1. ~ (r.ts + Skew < now)
      BY <1>0, TypeFacts, SMT DEF Fresh
    <3>. QED BY <2>1, <3>1, PrunedKeeps
  <2>3. PICK g \in Handlers : pc[g] = "mark" /\ req[g] = r
    BY <2>2 DEF MemoryInv
  <2>. QED BY <2>3 DEF ProgressInv, Past
<1>4. MemoryInv'
  <2>1. \A s \in done \ marked : \E g \in Handlers : pc'[g] = "mark" /\ req'[g] = s
    BY <1>0, <1>a DEF MemoryInv
  <2>2. \A g \in Handlers : pc'[g] = "nonce" /\ req'[g] \in done => nonces[req'[g].nonce] = now
    BY <1>a, <1>3 DEF MemoryInv
  <2>. QED BY <1>0, <2>1, <2>2, PrunedKeeps DEF MemoryInv
<1>5. HandledOnce'
  BY <1>0, <1>a DEF HandledOnce
<1>6. TruthInv' /\ OkMeansResolved'
  BY <1>0, PrunedKeeps DEF TruthInv, OkMeansResolved, NoAnswer
<1>. QED BY <1>1, <1>2, <1>4, <1>5, <1>6

\* A request that ends without a record leaves the rest as it was.
LEMMA FinishKeeps ==
  ASSUME GateInv, NEW h \in Handlers, pc[h] # "mark", Finish(h),
         UNCHANGED <<now, order, dedupe, nonces, done, marked>>
  PROVE  ProgressInv' /\ MemoryInv' /\ HandledOnce' /\ TruthInv'
<1> USE DEF GateInv
<1>1. /\ pc'[h] = "idle"
      /\ \A g \in Handlers \ {h} : pc'[g] = pc[g] /\ req'[g] = req[g]
  BY DEF Finish, TypeOK
<1>2. ProgressInv'
  BY <1>1 DEF ProgressInv, Past, Fresh
<1>3. MemoryInv'
  <2>1. \A s \in done \ marked : \E g \in Handlers : pc'[g] = "mark" /\ req'[g] = s
    BY <1>1 DEF MemoryInv
  <2>2. \A g \in Handlers : pc'[g] = "nonce" /\ req'[g] \in done => nonces[req'[g].nonce] = now
    BY <1>1 DEF MemoryInv
  <2>. QED BY <2>1, <2>2 DEF MemoryInv
<1>4. HandledOnce' /\ TruthInv'
  BY <1>1 DEF HandledOnce, TruthInv
<1>. QED BY <1>2, <1>3, <1>4

\* A nonce that is taken again belongs to no request in progress.
LEMMA TakeNonceStep ==
  ASSUME GateInv, NEW h \in Handlers, TakeNonce(h)
  PROVE  GateInv'
<1> USE DEF GateInv
<1> DEFINE n == req[h].nonce
<1>0. pc[h] = "nonce" /\ UNCHANGED <<now, order, dedupe, done, marked>>
  BY DEF TakeNonce, history
<1>a. req[h] \in Requests /\ n \in Nonces /\ Fresh(req[h].ts)
  BY <1>0, TypeFacts DEF ProgressInv
<1>1. CASE Used(n)
  <2>1. answer' = <<req[h], "replayed">> /\ Finish(h) /\ UNCHANGED nonces
    BY <1>1 DEF TakeNonce
  <2>2. TypeOK'
    BY <1>0, <1>a, <2>1, SMT DEF TypeOK, Finish
  <2>3. OkMeansResolved'
    BY <2>1 DEF OkMeansResolved
  <2>. QED BY <1>0, <2>1, <2>2, <2>3, FinishKeeps
<1>2. CASE ~ Used(n)
  <2>1. /\ nonces' = [nonces EXCEPT ![n] = now]
        /\ pc' = [pc EXCEPT ![h] = "handle"]
        /\ answer' = NoAnswer /\ UNCHANGED req
    BY <1>2 DEF TakeNonce
  <2>2. /\ pc'[h] = "handle"
        /\ \A g \in Handlers \ {h} : pc'[g] = pc[g]
        /\ nonces'[n] = now
        /\ \A m \in Nonces \ {n} : nonces'[m] = nonces[m]
    BY <1>a, <2>1 DEF TypeOK
  <2>3. nonces[n] = Never \/ nonces[n] <= now - Window
    BY <1>2, <1>a, TypeFacts, SMT DEF Used
  <2>4. nonces[n] # now
    BY <2>3, TypeFacts, SMT DEF Never
  <2>5. TypeOK'
    BY <1>0, <1>a, <2>1, SMT DEF TypeOK, NoAnswer
  <2>6. \A g \in Handlers \ {h} : Past(g) => req[g].nonce # n /\ req[g].nonce \in Nonces
    BY <2>4, TypeFacts DEF ProgressInv, Past
  <2>7. ProgressInv'
    BY <1>0, <1>a, <2>1, <2>2, <2>6 DEF ProgressInv, Past, Fresh
  <2>8. ASSUME NEW s \in done
        PROVE  nonces'[s.nonce] # Never /\ nonces'[s.nonce] \in s.ts - Skew .. now
    <3>1. /\ nonces[s.nonce] # Never /\ nonces[s.nonce] \in s.ts - Skew .. now
          /\ s.nonce \in Nonces /\ s.ts \in Int
      BY <2>8, TypeFacts DEF MemoryInv
    <3>2. CASE s.nonce = n
      BY <2>2, <3>1, <3>2, TypeFacts, SMT DEF Never
    <3>3. CASE s.nonce # n
      BY <2>2, <3>1, <3>3
    <3>. QED BY <3>2, <3>3
  <2>9. MemoryInv'
    <3>1. \A s \in done \ marked : \E g \in Handlers : pc'[g] = "mark" /\ req'[g] = s
      BY <1>0, <2>1, <2>2 DEF MemoryInv
    <3>2. \A g \in Handlers : pc'[g] = "nonce" /\ req'[g] \in done => nonces'[req'[g].nonce] = now
      BY <1>0, <2>1, <2>2, TypeFacts DEF MemoryInv
    <3>. QED BY <1>0, <2>8, <3>1, <3>2 DEF MemoryInv
  <2>10. HandledOnce'
    <3>1. req[h] \notin done
      BY <1>0, <2>4 DEF MemoryInv
    <3>. QED BY <1>0, <2>1, <2>2, <3>1 DEF HandledOnce
  <2>11. TruthInv' /\ OkMeansResolved'
    BY <1>0, <2>1 DEF TruthInv, OkMeansResolved, NoAnswer
  <2>. QED BY <2>5, <2>7, <2>9, <2>10, <2>11
<1>. QED BY <1>1, <1>2

\* No other request in progress is the one that is handled, for they have
\* different nonces; and no order that was resolved is resolved again.
LEMMA HandleStep ==
  ASSUME GateInv, NEW h \in Handlers, Handle(h)
  PROVE  GateInv'
<1> USE DEF GateInv
<1> DEFINE b == req[h].body
<1>0. /\ pc[h] = "handle" /\ order[b.order] = "SETTLING"
      /\ order' = [order EXCEPT ![b.order] = b.status]
      /\ pc' = [pc EXCEPT ![h] = "mark"]
      /\ answer' = <<req[h], "ok">>
      /\ done' = done \union {req[h]}
      /\ UNCHANGED <<now, dedupe, nonces, req, marked>>
  BY DEF Handle, memory
<1>a. req[h] \in Requests /\ Fresh(req[h].ts) /\ nonces[req[h].nonce] = now
  BY <1>0 DEF ProgressInv, Past
<1>b. b \in Bodies /\ b.order \in Orders /\ b.status \in {"SETTLED", "FAILED"}
  BY <1>a, TypeFacts
<1>c. pc'[h] = "mark" /\ \A g \in Handlers \ {h} : pc'[g] = pc[g]
  BY <1>0 DEF TypeOK
<1>1. TypeOK'
  BY <1>0, <1>a, <1>b, SMT DEF TypeOK
<1>2. ProgressInv'
  BY <1>0, <1>c DEF ProgressInv, Past, Fresh
<1>3. MemoryInv'
  <2>1. nonces[req[h].nonce] # Never /\ nonces[req[h].nonce] \in req[h].ts - Skew .. now
    BY <1>a, TypeFacts, SMT DEF Fresh, Never
  <2>2. \A s \in done' \ marked : \E g \in Handlers : pc'[g] = "mark" /\ req[g] = s
    BY <1>0, <1>c DEF MemoryInv
  <2>3. \A g \in Handlers : pc'[g] = "nonce" /\ req[g] \in done' => nonces[req[g].nonce] = now
    BY <1>0, <1>a, <1>c DEF MemoryInv
  <2>. QED BY <1>0, <2>1, <2>2, <2>3 DEF MemoryInv
<1>4. HandledOnce'
  BY <1>0, <1>c DEF HandledOnce, ProgressInv, Past
<1>5. TruthInv'
  <2>1. \A s \in done : s.body.order # b.order /\ s.body.order \in Orders
    BY <1>0, TypeFacts DEF TruthInv
  <2>. QED BY <1>0, <1>b, <2>1 DEF TruthInv, TypeOK
<1>6. OkMeansResolved'
  BY <1>0, <1>b DEF OkMeansResolved, TypeOK
<1>. QED BY <1>1, <1>2, <1>3, <1>4, <1>5, <1>6

\* A refused request leaves no record.
LEMMA RefuseStep ==
  ASSUME GateInv, NEW h \in Handlers, Refuse(h)
  PROVE  GateInv'
<1> USE DEF GateInv
<1>0. /\ pc[h] = "handle" /\ answer' = <<req[h], "error">> /\ Finish(h)
      /\ UNCHANGED <<now, order, dedupe, nonces, done, marked>>
  BY DEF Refuse, memory, history
<1>1. TypeOK'
  BY <1>0, SMT DEF TypeOK, Finish
<1>2. OkMeansResolved'
  BY <1>0 DEF OkMeansResolved
<1>. QED BY <1>0, <1>1, <1>2, FinishKeeps

\* A record is made within the time its request is accepted.
LEMMA MarkStep ==
  ASSUME GateInv, NEW h \in Handlers, Mark(h)
  PROVE  GateInv'
<1> USE DEF GateInv
<1> DEFINE k == req[h].key
           new == [digest |-> Digest(req[h]), seenAt |-> now]
<1>0. /\ pc[h] = "mark" /\ dedupe' = [Pruned EXCEPT ![k] = new]
      /\ marked' = marked \union {req[h]} /\ answer' = NoAnswer /\ Finish(h)
      /\ UNCHANGED <<now, order, nonces, done>>
  BY DEF Mark
<1>a. req[h] \in done /\ req[h] \in Requests /\ k \in Keys
  BY <1>0, TypeFacts DEF ProgressInv
<1>b. /\ pc'[h] = "idle"
      /\ \A g \in Handlers \ {h} : pc'[g] = pc[g] /\ req'[g] = req[g]
  BY <1>0 DEF Finish, TypeOK
<1>c. dedupe'[k] = new /\ \A j \in Keys \ {k} : dedupe'[j] = Pruned[j]
  BY <1>0, <1>a, PrunedKeeps
<1>d. new # NoRecord /\ new.seenAt = now /\ new.digest = Digest(req[h])
  BY TypeFacts, SMT DEF NoRecord, Never
<1>1. TypeOK'
  <2>1. new \in [digest : {Digest(r) : r \in Requests}, seenAt : Times]
    BY <1>a DEF TypeOK
  <2>. QED BY <1>0, <1>a, <2>1, PrunedKeeps, SMT DEF TypeOK, NoAnswer, Finish
<1>2. ProgressInv'
  BY <1>0, <1>b DEF ProgressInv, Past, Fresh
<1>3. MemoryInv'
  <2>1. ASSUME NEW s \in marked'
        PROVE  IF dedupe'[s.key] = NoRecord
               THEN s.ts + Skew < now ELSE dedupe'[s.key].seenAt >= s.ts - Skew
    <3>1. s \in done /\ s.key \in Keys
      BY <1>0, <1>a, <2>1, TypeFacts
    <3>2. CASE s.key = k
      <4>1. now >= s.ts - Skew
        BY <3>1, TypeFacts, SMT DEF MemoryInv
      <4>. QED BY <1>c, <1>d, <3>2, <4>1
    <3>3. CASE s.key # k
      BY <1>0, <1>c, <2>1, <3>1, <3>3, PrunedKeeps
    <3>. QED BY <3>2, <3>3
  <2>2. \A s \in done \ marked' : \E g \in Handlers : pc'[g] = "mark" /\ req'[g] = s
    BY <1>0, <1>b DEF MemoryInv
  <2>3. \A g \in Handlers : pc'[g] = "nonce" /\ req'[g] \in done => nonces[req'[g].nonce] = now
    BY <1>b DEF MemoryInv
  <2>. QED BY <1>0, <2>1, <2>2, <2>3 DEF MemoryInv
<1>4. HandledOnce'
  BY <1>0, <1>b DEF HandledOnce
<1>5. TruthInv'
  BY <1>0, <1>a, <1>c, <1>d, PrunedKeeps DEF TruthInv
<1>6. OkMeansResolved'
  BY <1>0 DEF OkMeansResolved, NoAnswer
<1>. QED BY <1>1, <1>2, <1>3, <1>4, <1>5, <1>6

\* The callbacks' orders are final: nothing else resolves them.
LEMMA OrderStepKeeps ==
  ASSUME GateInv, NEW o \in Orders, OrderStep(o)
  PROVE  GateInv'
<1> USE DEF GateInv
<1>0. /\ order[o] \in {"NONE", "SETTLING"}
      /\ \E st \in {"SETTLING", "FAILED"} : order' = [order EXCEPT ![o] = st]
      /\ answer' = NoAnswer
      /\ UNCHANGED <<now, dedupe, nonces, pc, req, done, marked>>
  BY DEF OrderStep, memory, history
<1>1. TypeOK'
  BY <1>0, SMT DEF TypeOK, NoAnswer
<1>2. ProgressInv' /\ MemoryInv' /\ HandledOnce'
  BY <1>0 DEF ProgressInv, MemoryInv, HandledOnce, Past, Fresh
<1>3. TruthInv'
  <2>1. \A s \in done : s.body.order # o /\ s.body.order \in Orders
    BY <1>0, TypeFacts DEF TruthInv
  <2>. QED BY <1>0, <2>1 DEF TruthInv, TypeOK
<1>4. OkMeansResolved'
  BY <1>0 DEF OkMeansResolved, NoAnswer
<1>. QED BY <1>1, <1>2, <1>3, <1>4

\* The clock moves while no request is in progress: windows end, and every
\* reason to refuse a copy outlives the window it depends on.
LEMMA TickStep ==
  ASSUME GateInv, Tick
  PROVE  GateInv'
<1> USE DEF GateInv
<1>0. /\ now < MaxTime /\ now' = now + 1 /\ answer' = NoAnswer
      /\ \A h \in Handlers : pc[h] = "idle"
      /\ UNCHANGED <<order, dedupe, nonces, pc, req, done, marked>>
  BY DEF Tick, memory, history
<1>1. TypeOK'
  BY <1>0, GateAssumption, SMT DEF TypeOK, Times, NoAnswer
<1>2. ProgressInv' /\ HandledOnce'
  BY <1>0 DEF ProgressInv, HandledOnce, Past
<1>3. MemoryInv'
  <2>1. \A r \in done : nonces[r.nonce] # Never /\ nonces[r.nonce] \in r.ts - Skew .. now'
    BY <1>0, TypeFacts, SMT DEF MemoryInv
  <2>2. ASSUME NEW r \in marked
        PROVE  IF dedupe[r.key] = NoRecord
               THEN r.ts + Skew < now' ELSE dedupe[r.key].seenAt >= r.ts - Skew
    <3>1. r \in Requests
      BY <2>2, TypeFacts
    <3>. QED BY <1>0, <2>2, <3>1, TypeFacts, SMT DEF MemoryInv
  <2>. QED BY <1>0, <2>1, <2>2 DEF MemoryInv
<1>4. TruthInv' /\ OkMeansResolved'
  BY <1>0 DEF TruthInv, OkMeansResolved, NoAnswer
<1>. QED BY <1>1, <1>2, <1>3, <1>4

\* A new process has nothing in progress and remembers nothing.
LEMMA RestartStep ==
  ASSUME GateInv, Restart
  PROVE  GateInv'
<1> USE DEF GateInv
<1>1. TypeOK'
  BY SMT DEF Restart, TypeOK, NoAnswer
<1>2. ProgressInv' /\ MemoryInv' /\ HandledOnce'
  BY DEF Restart, ProgressInv, MemoryInv, HandledOnce, Past
<1>3. TruthInv' /\ OkMeansResolved'
  BY DEF Restart, TruthInv, OkMeansResolved, NoAnswer
<1>. QED BY <1>1, <1>2, <1>3

\* No step of the gate, of a request or of a restart breaks the invariant.
THEOREM GateStep == GateInv /\ [Next]_vars => GateInv'
<1>. SUFFICES ASSUME GateInv, [Next]_vars PROVE GateInv'
  OBVIOUS
<1>1. CASE Next
  <2>1. ASSUME NEW r \in Requests, AnswerSeen(r) PROVE GateInv'
    BY <2>1, AnswerSeenStep
  <2>2. ASSUME NEW h \in Handlers, NEW r \in Requests, Begin(h, r) PROVE GateInv'
    BY <2>2, BeginStep
  <2>3. ASSUME NEW h \in Handlers, TakeNonce(h) \/ Handle(h) \/ Refuse(h) \/ Mark(h)
        PROVE  GateInv'
    BY <2>3, TakeNonceStep, HandleStep, RefuseStep, MarkStep
  <2>4. ASSUME NEW o \in Orders, OrderStep(o) PROVE GateInv'
    BY <2>4, OrderStepKeeps
  <2>. QED BY <1>1, <2>1, <2>2, <2>3, <2>4, TickStep, RestartStep DEF Next
<1>2. CASE UNCHANGED vars
  BY <1>2 DEF vars, memory, history, GateInv, TypeOK, ProgressInv, MemoryInv, HandledOnce,
              TruthInv, OkMeansResolved, Past, Fresh
<1>. QED BY <1>1, <1>2

-----------------------------------------------------------------------------
\* The inductive invariant holds in every state of the gate.
THEOREM GateAlways == Spec => []GateInv
<1>. QED BY GateInit, GateStep, PTL DEF Spec

\* The variables keep their types, for every number of requests and orders.
THEOREM GateTypeOK == Spec => []TypeOK
<1>1. GateInv => TypeOK
  BY DEF GateInv
<1>. QED BY <1>1, GateAlways, PTL

\* No callback reaches the handler again after it was handled with success,
\* whatever the windows are, as long as two skews fit in one.
THEOREM GateHandlesOnce == Spec => []HandledOnce
<1>1. GateInv => HandledOnce
  BY DEF GateInv
<1>. QED BY <1>1, GateAlways, PTL

\* An answer of 200 is true: the order left SETTLING with the status reported.
THEOREM GateAnswersTrue == Spec => []OkMeansResolved
<1>1. GateInv => OkMeansResolved
  BY DEF GateInv
<1>. QED BY <1>1, GateAlways, PTL

-----------------------------------------------------------------------------
(* Retries *)

\* Every record is that of a handled request with its key, and no two handled
\* requests report the same.
RetryInv ==
  /\ \A k \in Keys : dedupe[k] = NoRecord
                     \/ \E s \in done : s.key = k /\ dedupe[k].digest = Digest(s)
  /\ \A r, s \in done : r.body = s.body => r = s

\* Two requests are not handled with one body: the first one's order has left
\* SETTLING and never comes back.
LEMMA RetryStep ==
  ASSUME GateInv, RetryInv, [Next]_vars
  PROVE  RetryInv'
<1>1. \A k \in Keys : Pruned[k] = NoRecord
                      \/ \E s \in done : s.key = k /\ Pruned[k].digest = Digest(s)
  BY PrunedRecord DEF RetryInv, GateInv
<1>2. ASSUME UNCHANGED done, dedupe' \in {dedupe, Pruned}
      PROVE  RetryInv'
  BY <1>1, <1>2 DEF RetryInv
<1>3. ASSUME NEW h \in Handlers, Handle(h)
      PROVE  RetryInv'
  <2>1. /\ done' = done \union {req[h]} /\ UNCHANGED dedupe
        /\ order[req[h].body.order] = "SETTLING"
    BY <1>3 DEF Handle, memory
  <2>2. ASSUME NEW r \in done
        PROVE  r.body # req[h].body
    <3>1. order[r.body.order] = r.body.status /\ r.body \in Bodies
      BY <2>2, TypeFacts DEF GateInv, TruthInv
    <3>2. r.body.status # "SETTLING"
      BY <3>1, TypeFacts DEF GateInv
    <3>. QED BY <2>1, <3>1, <3>2
  <2>. QED BY <2>1, <2>2 DEF RetryInv
<1>4. ASSUME NEW h \in Handlers, Mark(h)
      PROVE  RetryInv'
  <2>1. /\ dedupe' = [Pruned EXCEPT ![req[h].key] = [digest |-> Digest(req[h]), seenAt |-> now]]
        /\ UNCHANGED done
    BY <1>4 DEF Mark
  <2>2. req[h] \in done
    BY <1>4 DEF Mark, GateInv, ProgressInv
  <2>3. DOMAIN Pruned = Keys
    BY DEF Pruned
  <2>4. ASSUME NEW k \in Keys
        PROVE  dedupe'[k] = NoRecord \/ \E s \in done : s.key = k /\ dedupe'[k].digest = Digest(s)
    <3>1. CASE k = req[h].key
      BY <2>1, <2>2, <2>3, <2>4, <3>1
    <3>2. CASE k # req[h].key
      BY <1>1, <2>1, <2>3, <2>4, <3>2
    <3>. QED BY <3>1, <3>2
  <2>. QED BY <2>1, <2>4 DEF RetryInv
<1>5. CASE Restart
  BY <1>5 DEF Restart, RetryInv
<1>6. CASE UNCHANGED vars
  BY <1>2, <1>6 DEF vars, memory, history
<1>7. ASSUME NEW h \in Handlers, TakeNonce(h) \/ Refuse(h)
      PROVE  RetryInv'
  BY <1>2, <1>7 DEF TakeNonce, Refuse, memory, history
<1>8. ASSUME NEW r \in Requests, AnswerSeen(r) \/ \E h \in Handlers : Begin(h, r)
      PROVE  RetryInv'
  BY <1>2, <1>8 DEF AnswerSeen, Begin, history
<1>9. CASE Tick \/ \E o \in Orders : OrderStep(o)
  BY <1>2, <1>9 DEF Tick, OrderStep, memory, history
<1>. QED BY <1>3, <1>4, <1>5, <1>6, <1>7, <1>8, <1>9 DEF Next

\* What is still accepted and remembered has its record, so that it is neither
\* let through nor refused.
LEMMA RememberedIsSeen ==
  ASSUME GateInv, RetryInv, NEW r \in marked, KeyKeptFor(r), Fresh(r.ts)
  PROVE  Seen(r) = "same"
<1>1. r \in Requests /\ r \in done /\ r.key \in Keys
  BY TypeFacts DEF GateInv
<1>2. Pruned[r.key] # NoRecord
  BY <1>1, PrunedKeeps, TypeFacts, SMT DEF GateInv, Fresh
<1>3. PICK s \in done : s.key = r.key /\ Pruned[r.key].digest = Digest(s)
  BY <1>1, <1>2, PrunedRecord DEF GateInv, RetryInv
<1>4. s = r
  BY <1>1, <1>3 DEF KeyKeptFor, RetryInv
<1>. QED BY <1>2, <1>3, <1>4 DEF Seen

\* Sent again unchanged, a callback that is remembered is answered 200 for as
\* long as its timestamp is accepted, and never let through to the handler, as
\* long as its key stands for no other body.
THEOREM GateExactRetry == Spec => ExactRetrySucceeds
<1>1. Init => RetryInv
  BY DEF Init, RetryInv
<1>2. ASSUME GateInv, RetryInv, Next, NEW r \in marked, KeyKeptFor(r)
      PROVE  /\ \A h \in Handlers : req'[h] = r => req[h] = r
             /\ answer'[1] = r /\ (\A h \in Handlers : req[h] # r) => answer'[2] = "ok"
  <2>1. r \in Requests /\ r # NoRequest /\ NoAnswer[1] # r
    BY <1>2, TypeFacts, GateAssumption DEF GateInv, NoAnswer
  <2>2. req \in [Handlers -> Requests \union {NoRequest}]
    BY <1>2 DEF GateInv, TypeOK
  <2>3. ASSUME NEW q \in Requests, AnswerSeen(q)
        PROVE  UNCHANGED req /\ (answer'[1] = r => answer'[2] = "ok")
    <3>1. /\ UNCHANGED req /\ Fresh(q.ts)
          /\ \/ Seen(q) = "same" /\ answer' = <<q, "ok">>
             \/ Seen(q) = "differs" /\ answer' = <<q, "conflict">>
      BY <2>3 DEF AnswerSeen
    <3>2. q = r => Seen(q) = "same"
      BY <1>2, <3>1, RememberedIsSeen
    <3>. QED BY <3>1, <3>2
  <2>4. ASSUME NEW g \in Handlers, NEW q \in Requests, Begin(g, q)
        PROVE  q # r /\ req' = [req EXCEPT ![g] = q] /\ answer' = NoAnswer
    <3>1. Fresh(q.ts) /\ Seen(q) = "no" /\ req' = [req EXCEPT ![g] = q] /\ answer' = NoAnswer
      BY <2>4 DEF Begin
    <3>. QED BY <1>2, <3>1, RememberedIsSeen
  <2>5. ASSUME NEW g \in Handlers, TakeNonce(g) \/ Handle(g) \/ Refuse(g) \/ Mark(g)
        PROVE  /\ req' \in {req, [req EXCEPT ![g] = NoRequest]}
               /\ answer'[1] \in {req[g], NoAnswer[1]}
    BY <2>5 DEF TakeNonce, Handle, Refuse, Mark, Finish
  <2>6. CASE Tick \/ \E o \in Orders : OrderStep(o)
    BY <2>1, <2>6 DEF Tick, OrderStep
  <2>7. CASE Restart
    BY <2>1, <2>7 DEF Restart
  <2>. QED BY <1>2, <2>1, <2>2, <2>3, <2>4, <2>5, <2>6, <2>7 DEF Next
<1>3. GateInv /\ RetryInv /\ [Next]_vars =>
        [\A r \in marked :
           KeyKeptFor(r) =>
             /\ \A h \in Handlers : req'[h] = r => req[h] = r
             /\ answer'[1] = r /\ (\A h \in Handlers : req[h] # r) => answer'[2] = "ok"]_vars
  BY <1>2
<1>4. GateInv /\ RetryInv /\ [Next]_vars => RetryInv'
  BY RetryStep
<1>. QED BY <1>1, <1>3, <1>4, GateAlways, PTL DEF Spec, ExactRetrySucceeds

=============================================================================
