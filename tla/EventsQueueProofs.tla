------------------------- MODULE EventsQueueProofs -------------------------
(***************************************************************************)
(* For any number of messages, batches and isolates: no message is lost or *)
(* decided twice on its way through the queue, an acked one has reached    *)
(* its sink, and only the sink that owns the ack re-drives.                *)
(***************************************************************************)
EXTENDS EventsQueue, TLAPS

Others == Alerts \cup Payments

Batch == [on : Isolates \cup {None}, log : SUBSET Fingerprints, todo : SUBSET Others,
          cur : Others \cup {None}, at : {"page", "mail"},
          hog : SUBSET Messages, ack : SUBSET Messages, retry : SUBSET Messages]

Held(r) == r.log \cup r.todo \cup ({r.cur} \ {None}) \cup r.ack \cup r.retry

\* A message is in one place of its batch, PostHog is owed messages of the
\* batch only, and a slot without an isolate is empty.
Sound(r) ==
  /\ (r.log \cup r.todo) \cap (r.ack \cup r.retry) = {}
  /\ r.cur \notin r.todo \cup r.ack \cup r.retry
  /\ r.ack \cap r.retry = {}
  /\ r.hog \subseteq Held(r)
  /\ r.at = "mail" => r.cur \in Payments
  /\ r.on = None => r = Slot

Typed ==
  /\ conf \in Confs
  /\ msg \in [Messages -> {"unsent", "lost", "queued", "taken", "acked", "dropped"}]
  /\ tries \in [Messages -> 0..MaxRetries]
  /\ fails \in [Isolates -> Nat] /\ broken \in [Isolates -> Nat]
  /\ open \in [Isolates -> BOOLEAN] /\ blown \in BOOLEAN
  /\ mailed \in SUBSET Payments
  /\ trouble \in SUBSET Messages
  /\ faults \in 0..MaxFaults

Slots == inv \in [Batches -> Batch] /\ \A b \in Batches : Sound(inv[b])

Placed ==
  /\ \A m \in Messages : msg[m] = "taken" <=> \E b \in Batches : m \in Held(inv[b])
  /\ \A b, c \in Batches : b # c => Held(inv[b]) \cap Held(inv[c]) = {}

\* A sink that holds f has no message more often than t says it was handed out,
\* this time not counted while it waits in the queue (p) or its call is to come (W).
Waiting(p) == {m \in Messages : p[m] \in {"unsent", "queued"}}
Within(f, W, t, p) ==
  /\ f \in [Messages -> Nat]
  /\ \A m \in Messages : f[m] <= t[m] + 1 /\ (m \in W \cup Waiting(p) => f[m] <= t[m])

Paging(r) == r.todo \cup ({r.cur} \ {None})
ToWrite == UNION {inv[b].log : b \in Batches}
ToPage == UNION {Paging(inv[b]) : b \in Batches}
ToCapture == UNION {inv[b].hog : b \in Batches}

Counted ==
  /\ Within(rows, ToWrite, tries, msg)
  /\ Within(paged, ToPage, tries, msg)
  /\ Within(seen, ToCapture, tries, msg)

\* The breaker counts no failure that did not happen.
Breaker == \A i \in Isolates : fails[i] <= broken[i] /\ (open[i] => blown)

Delivered(m) ==
  IF m \in Fingerprints THEN rows[m] > 0 \/ "tinybird" \notin conf \/ blown
                        ELSE paged[m] > 0 \/ "logsnag" \notin conf

Acks == \A m \in Messages :
  msg[m] = "acked" \/ (\E b \in Batches : m \in inv[b].ack) => Delivered(m)

Quiet == \A m \in Messages : m \notin trouble =>
  tries[m] = 0 /\ msg[m] # "dropped" /\ \A b \in Batches : m \notin inv[b].retry

IInv == Typed /\ Slots /\ Placed /\ Counted /\ Breaker /\ Acks /\ Quiet

---------------------------------------------------------------------------
(* What the updates of a slot do to it.                                     *)

\* The write to Tinybird decides the fingerprints of the batch one way.
LEMMA WriteKeeps ==
  ASSUME NEW r \in Batch, Sound(r), r.log # {}, NEW q,
         \/ q = [r EXCEPT !.log = {}, !.ack = r.ack \cup r.log]
         \/ q = [r EXCEPT !.log = {}, !.retry = r.retry \cup r.log]
  PROVE  q \in Batch /\ Sound(q) /\ Held(q) = Held(r)
<1>1. r.on # None BY DEF Sound, Slot
<1>2. r.cur \notin r.log /\ r.log \cap r.todo = {} /\ r.log \subseteq Messages
  BY MessagesAssumption DEF Batch, Messages, Others
<1>3. CASE q = [r EXCEPT !.log = {}, !.ack = r.ack \cup r.log]
  <2>1. /\ q.on = r.on /\ q.log = {} /\ q.todo = r.todo /\ q.cur = r.cur /\ q.at = r.at
        /\ q.hog = r.hog /\ q.ack = r.ack \cup r.log /\ q.retry = r.retry /\ q \in Batch
    BY <1>2, <1>3 DEF Batch
  <2>2. Held(q) = Held(r) BY <2>1 DEF Held
  <2> QED BY <1>1, <1>2, <2>1, <2>2 DEF Sound
<1>4. CASE q = [r EXCEPT !.log = {}, !.retry = r.retry \cup r.log]
  <2>1. /\ q.on = r.on /\ q.log = {} /\ q.todo = r.todo /\ q.cur = r.cur /\ q.at = r.at
        /\ q.hog = r.hog /\ q.ack = r.ack /\ q.retry = r.retry \cup r.log /\ q \in Batch
    BY <1>2, <1>4 DEF Batch
  <2>2. Held(q) = Held(r) BY <2>1 DEF Held
  <2> QED BY <1>1, <1>2, <2>1, <2>2 DEF Sound
<1> QED BY <1>3, <1>4

\* The message waits for its answer from LogSnag, or from Resend.
Paged(x, m) == [x EXCEPT !.cur = m, !.at = "page"]
Mailed(x, m) == [x EXCEPT !.cur = m, !.at = "mail"]

\* A slot out of which the loop has just taken m, or in which m is current.
Loose(x, m) ==
  /\ (x.log \cup x.todo) \cap (x.ack \cup x.retry) = {}
  /\ m \notin x.todo \cup x.ack \cup x.retry
  /\ x.cur \in {m, None}
  /\ x.ack \cap x.retry = {}
  /\ x.hog \subseteq Held(x) \cup {m}
  /\ x.on # None

\* The loop over the other messages puts m in one place.
LEMMA LoopKeeps ==
  ASSUME NEW x \in Batch, NEW m \in Others, Loose(x, m), NEW y,
         \/ y = Acked(x, m)
         \/ y = Retried(x, m)
         \/ y = Paged(x, m)
         \/ y = Mailed(x, m) /\ m \in Payments
  PROVE  /\ y \in Batch /\ Sound(y) /\ Held(y) = Held(x) \cup {m}
         /\ y.log = x.log /\ y.todo = x.todo /\ y.cur \in {m, None} /\ y.hog = x.hog
         /\ y.on = x.on
<1>1. m \in Messages /\ m # None /\ None \notin Messages
  BY MessagesAssumption DEF Others, Messages
<1>a. /\ y.log = x.log /\ y.todo = x.todo /\ y.hog = x.hog /\ y.on = x.on /\ y \in Batch
      /\ \/ y.cur = None /\ y.at = "page" /\ y.ack = x.ack \cup {m} /\ y.retry = x.retry
         \/ y.cur = None /\ y.at = "page" /\ y.ack = x.ack /\ y.retry = x.retry \cup {m}
         \/ y.cur = m /\ y.ack = x.ack /\ y.retry = x.retry /\ (y.at = "page" \/ m \in Payments)
  <2>1. CASE y = Acked(x, m) BY <1>1, <2>1 DEF Acked, Batch
  <2>2. CASE y = Retried(x, m) BY <1>1, <2>2 DEF Retried, Batch
  <2>3. CASE y = Paged(x, m) BY <2>3 DEF Paged, Batch
  <2>4. CASE y = Mailed(x, m) /\ m \in Payments BY <2>4 DEF Mailed, Batch
  <2> QED BY <2>1, <2>2, <2>3, <2>4
<1>2. /\ y.log = x.log /\ y.todo = x.todo /\ y.hog = x.hog /\ y.on = x.on /\ y \in Batch
      /\ y.cur \in {m, None}
      /\ y.at = "mail" => y.cur = m /\ m \in Payments
      /\ \/ y.cur = None /\ y.ack = x.ack \cup {m} /\ y.retry = x.retry
         \/ y.cur = None /\ y.ack = x.ack /\ y.retry = x.retry \cup {m}
         \/ y.cur = m /\ y.ack = x.ack /\ y.retry = x.retry
  BY <1>a
<1>3. Held(y) = Held(x) \cup {m} BY <1>1, <1>2 DEF Held, Loose
<1>4. m \notin x.log BY MessagesAssumption DEF Batch, Others
<1>5. None \notin x.todo \cup x.ack \cup x.retry
  BY <1>1 DEF Batch, Others, Messages
<1> QED BY <1>1, <1>2, <1>3, <1>4, <1>5 DEF Sound, Loose

---------------------------------------------------------------------------
(* What the counts of the sinks say after a step.                           *)

\* Nothing is written, and nothing new is owed.
LEMMA WithinStays ==
  ASSUME NEW f, NEW W, NEW V, NEW t, NEW p, NEW s, Within(f, W, t, p),
         V \cup Waiting(s) \subseteq W \cup Waiting(p)
  PROVE  Within(f, V, t, s)
  BY DEF Within

\* What was owed is written.
LEMMA WithinCount ==
  ASSUME NEW f, NEW W, NEW V, NEW t \in [Messages -> Nat], NEW p, Within(f, W, t, p),
         NEW S \in SUBSET W, V \subseteq W, V \cap S = {}, Waiting(p) \cap S = {}
  PROVE  Within(Count(f, S), V, t, p) /\ \A m \in Messages : f[m] <= Count(f, S)[m]
<1>1. Count(f, S) \in [Messages -> Nat] BY DEF Count, Within
<1>2. ASSUME NEW m \in Messages
      PROVE  /\ f[m] <= Count(f, S)[m]
             /\ Count(f, S)[m] <= t[m] + 1
             /\ m \in V \cup Waiting(p) => Count(f, S)[m] <= t[m]
  <2>1. f[m] \in Nat /\ t[m] \in Nat BY DEF Within
  <2>2. CASE m \in S
    <3>1. Count(f, S)[m] = f[m] + 1 BY <2>2 DEF Count
    <3>2. f[m] <= t[m] BY <2>2 DEF Within
    <3>3. m \notin V \cup Waiting(p) BY <2>2
    <3> QED BY <2>1, <3>1, <3>2, <3>3
  <2>3. CASE m \notin S
    <3>1. Count(f, S)[m] = f[m] BY <2>3 DEF Count
    <3> QED BY <2>1, <3>1 DEF Within
  <2> QED BY <2>2, <2>3
<1> QED BY <1>1, <1>2 DEF Within

\* Messages go back to the queue, or are dropped at their last try.
LEMMA WithinRequeue ==
  ASSUME NEW f, NEW W, NEW V, Within(f, W, tries, msg), Typed, V \subseteq W,
         NEW S, NEW A, Requeue(S, A)
  PROVE  Within(f, V, tries', msg')
<1>1. ASSUME NEW m \in Messages
      PROVE  f[m] <= tries'[m] + 1 /\ (m \in V \cup Waiting(msg') => f[m] <= tries'[m])
  <2>1. f[m] \in Nat /\ tries[m] \in Nat /\ f[m] <= tries[m] + 1
    BY BoundsAssumption DEF Within, Typed
  <2>2. m \in W \cup Waiting(msg) => f[m] <= tries[m] BY DEF Within
  <2>3. CASE m \in S /\ tries[m] < MaxRetries
    <3>1. tries'[m] = tries[m] + 1 BY <2>3 DEF Requeue
    <3> QED BY <2>1, <3>1
  <2>4. CASE ~(m \in S /\ tries[m] < MaxRetries)
    <3>1. tries'[m] = tries[m] BY <2>4 DEF Requeue
    <3>2. msg'[m] \in {"dropped", "acked", msg[m]} BY <2>4 DEF Requeue
    <3> QED BY <2>1, <2>2, <3>1, <3>2 DEF Waiting
  <2> QED BY <2>3, <2>4
<1> QED BY <1>1 DEF Within

---------------------------------------------------------------------------
(* The steps of a batch.                                                    *)

\* While a batch is drained its messages move about in it, and no other moves.
LEMMA Drain ==
  ASSUME IInv, NEW b \in Batches, NEW q \in Batch, Sound(q), Held(q) = Held(inv[b]),
         inv' = [inv EXCEPT ![b] = q], msg' = msg
  PROVE  /\ Slots' /\ Placed'
         /\ inv'[b] = q /\ \A c \in Batches \ {b} : inv'[c] = inv[c]
<1>1. inv'[b] = q /\ \A c \in Batches \ {b} : inv'[c] = inv[c] BY DEF IInv, Slots
<1>2. \A c \in Batches : Held(inv'[c]) = Held(inv[c]) BY <1>1
<1>3. Slots' BY <1>1 DEF IInv, Slots
<1>4. Placed' BY <1>2 DEF IInv, Placed
<1> QED BY <1>1, <1>3, <1>4

\* What a batch owes its sinks, no other batch owes and no message waits for.
LEMMA Owed ==
  ASSUME IInv, NEW b \in Batches
  PROVE  /\ inv[b].log \cup Paging(inv[b]) \cup inv[b].hog \subseteq Held(inv[b])
         /\ Held(inv[b]) \subseteq Messages
         /\ Waiting(msg) \cap Held(inv[b]) = {}
         /\ \A c \in Batches \ {b} : Held(inv[c]) \cap Held(inv[b]) = {}
<1>1. inv[b] \in Batch /\ Sound(inv[b]) BY DEF IInv, Slots
<1>2. Held(inv[b]) \subseteq Messages BY <1>1 DEF Held, Batch, Messages, Others
<1>3. inv[b].log \cup Paging(inv[b]) \cup inv[b].hog \subseteq Held(inv[b])
  BY <1>1 DEF Sound, Held, Paging
<1>4. Waiting(msg) \cap Held(inv[b]) = {} BY <1>2 DEF IInv, Placed, Waiting
<1> QED BY <1>2, <1>3, <1>4 DEF IInv, Placed

\* What is owed after a step of b.
LEMMA OwedAfter ==
  ASSUME IInv, NEW b \in Batches, NEW q \in Batch, Sound(q), Held(q) = Held(inv[b]),
         inv' = [inv EXCEPT ![b] = q], msg' = msg
  PROVE  /\ q.log \subseteq inv[b].log =>
              ToWrite' \subseteq ToWrite /\ ToWrite' \cap (inv[b].log \ q.log) = {}
         /\ Paging(q) \subseteq Paging(inv[b]) =>
              ToPage' \subseteq ToPage /\ ToPage' \cap (Paging(inv[b]) \ Paging(q)) = {}
         /\ q.hog \subseteq inv[b].hog =>
              ToCapture' \subseteq ToCapture /\ ToCapture' \cap (inv[b].hog \ q.hog) = {}
<1>1. inv'[b] = q /\ \A c \in Batches \ {b} : inv'[c] = inv[c] BY Drain
<1>2. \A c \in Batches \ {b} :
        /\ inv[c].log \cup Paging(inv[c]) \cup inv[c].hog \subseteq Held(inv[c])
        /\ Held(inv[c]) \cap Held(inv[b]) = {}
  BY Owed
<1>3. inv[b].log \cup Paging(inv[b]) \cup inv[b].hog \subseteq Held(inv[b]) BY Owed
<1>4. ASSUME q.log \subseteq inv[b].log
      PROVE  ToWrite' \subseteq ToWrite /\ ToWrite' \cap (inv[b].log \ q.log) = {}
  BY <1>1, <1>2, <1>3, <1>4 DEF ToWrite
<1>5. ASSUME Paging(q) \subseteq Paging(inv[b])
      PROVE  ToPage' \subseteq ToPage /\ ToPage' \cap (Paging(inv[b]) \ Paging(q)) = {}
  BY <1>1, <1>2, <1>3, <1>5 DEF ToPage
<1>6. ASSUME q.hog \subseteq inv[b].hog
      PROVE  ToCapture' \subseteq ToCapture /\ ToCapture' \cap (inv[b].hog \ q.hog) = {}
  BY <1>1, <1>2, <1>3, <1>6 DEF ToCapture
<1> QED BY <1>4, <1>5, <1>6

\* What was delivered stays so: counts only grow.
LEMMA DeliveredStays ==
  ASSUME NEW m \in Messages, Delivered(m), conf' = conf, blown => blown',
         rows[m] \in Nat, rows[m] <= rows'[m], rows'[m] \in Nat,
         paged[m] \in Nat, paged[m] <= paged'[m], paged'[m] \in Nat
  PROVE  Delivered(m)'
<1>1. (rows[m] > 0 => rows'[m] > 0) /\ (paged[m] > 0 => paged'[m] > 0) OBVIOUS
<1> QED BY <1>1, Zenon DEF Delivered

\* The write to Tinybird, for every outcome.
LEMMA WriteStep ==
  ASSUME IInv, NEW b \in Batches, WriteOk(b) \/ WriteFails(b) \/ WriteAnswerLost(b)
  PROVE  IInv'
<1> DEFINE r == inv[b]
           i == inv[b].on
           q == IF WriteOk(b) THEN [r EXCEPT !.log = {}, !.ack = r.ack \cup r.log]
                              ELSE [r EXCEPT !.log = {}, !.retry = r.retry \cup r.log]
<1>r. r \in Batch /\ Sound(r) /\ r.log # {} BY DEF IInv, Slots, WriteOk, WriteFails, WriteAnswerLost
<1>i. i \in Isolates BY <1>r DEF Sound, Slot, Batch
<1>1. q \in Batch /\ Sound(q) /\ Held(q) = Held(r) BY <1>r, WriteKeeps
<1>2. /\ q.log = {} /\ Paging(q) = Paging(r) /\ q.hog = r.hog
      /\ WriteOk(b) => q.ack = r.ack \cup r.log /\ q.retry = r.retry
      /\ ~WriteOk(b) => q.ack = r.ack /\ q.retry = r.retry \cup r.log
  BY <1>r DEF Batch, Paging
<1>3. inv' = [inv EXCEPT ![b] = q]
  <2>1. inv \in [Batches -> Batch] BY DEF IInv, Slots
  <2>2. CASE WriteOk(b) BY <2>1, <2>2 DEF WriteOk, Batch
  <2>3. CASE ~WriteOk(b) BY <2>1, <2>3 DEF WriteFails, WriteAnswerLost, WriteThrew, Batch
  <2> QED BY <2>2, <2>3
<1>4. msg' = msg /\ tries' = tries /\ conf' = conf /\ mailed' = mailed /\ paged' = paged /\ seen' = seen
  BY DEF WriteOk, WriteFails, WriteAnswerLost, WriteThrew, sinks
<1> HIDE DEF q
<1>5. /\ Slots' /\ Placed'
      /\ inv'[b] = q /\ \A c \in Batches \ {b} : inv'[c] = inv[c]
  BY <1>1, <1>3, <1>4, Drain
<1>6. /\ ToWrite' \subseteq ToWrite /\ ToWrite' \cap r.log = {}
      /\ ToPage' \subseteq ToPage /\ ToCapture' \subseteq ToCapture
  BY <1>1, <1>2, <1>3, <1>4, OwedAfter
<1>7. tries \in [Messages -> Nat] BY BoundsAssumption DEF IInv, Typed
<1>8. r.log \subseteq ToWrite /\ Waiting(msg) \cap r.log = {} /\ r.log \subseteq Fingerprints
  BY Owed, <1>r DEF ToWrite, Batch
<1>9. /\ rows' = Count(rows, r.log) \/ (~WriteOk(b) /\ rows' = rows)
      /\ WriteOk(b) => rows' = Count(rows, r.log)
  BY DEF WriteOk, WriteFails, WriteAnswerLost, sinks
<1>10. Within(rows', ToWrite', tries', msg') /\ \A m \in Messages : rows[m] <= rows'[m]
  <2>1. Within(rows, ToWrite, tries, msg) BY DEF IInv, Counted
  <2>2. CASE rows' = Count(rows, r.log) BY <1>4, <1>6, <1>7, <1>8, <2>1, <2>2, WithinCount
  <2>3. CASE rows' = rows
    <3>1. Within(rows', ToWrite', tries', msg') BY <1>4, <1>6, <2>1, <2>3, WithinStays
    <3>2. rows \in [Messages -> Nat] BY <2>1 DEF Within
    <3> QED BY <2>3, <3>1, <3>2
  <2> QED BY <1>9, <2>2, <2>3
<1>11. Counted'
  <2>1. Within(paged', ToPage', tries', msg') BY <1>4, <1>6, WithinStays DEF IInv, Counted
  <2>2. Within(seen', ToCapture', tries', msg') BY <1>4, <1>6, WithinStays DEF IInv, Counted
  <2> QED BY <1>10, <2>1, <2>2 DEF Counted
<1>12. fails' \in [Isolates -> Nat] /\ broken' \in [Isolates -> Nat]
       /\ open' \in [Isolates -> BOOLEAN] /\ blown' \in BOOLEAN /\ (blown => blown') /\ Breaker'
  <2>0. /\ fails \in [Isolates -> Nat] /\ broken \in [Isolates -> Nat]
        /\ open \in [Isolates -> BOOLEAN] /\ blown \in BOOLEAN /\ Breaker
    BY DEF IInv, Typed
  <2>1. CASE WriteOk(b)
    <3>1. fails' = [fails EXCEPT ![i] = 0] /\ open' = open /\ broken' = broken /\ blown' = blown
      BY <2>1 DEF WriteOk
    <3> QED BY <1>i, <2>0, <3>1 DEF Breaker
  <2>2. CASE ~WriteOk(b)
    <3>1. WriteThrew(b) BY <2>2 DEF WriteFails, WriteAnswerLost
    <3>2. /\ fails' = [fails EXCEPT ![i] = fails[i] + 1]
          /\ broken' = [broken EXCEPT ![i] = broken[i] + 1]
      BY <3>1 DEF WriteThrew
    <3>3. /\ fails' \in [Isolates -> Nat] /\ broken' \in [Isolates -> Nat]
          /\ \A j \in Isolates : fails'[j] <= broken'[j]
      BY <1>i, <2>0, <3>2 DEF Breaker
    <3>4. fails'[i] >= Threshold => broken'[i] >= Threshold
      BY <1>i, <3>3, BoundsAssumption
    <3>5. blown' = (blown \/ broken'[i] >= Threshold)
      BY <3>1, Zenon DEF WriteThrew
    <3>6. open' = [open EXCEPT ![i] = open[i] \/ fails'[i] >= Threshold]
      BY <3>1, Zenon DEF WriteThrew
    <3>7. blown' \in BOOLEAN /\ (blown => blown') /\ open' \in [Isolates -> BOOLEAN]
      BY <2>0, <3>5, <3>6, Zenon
    <3>8. \A j \in Isolates : open'[j] => blown'
      BY <1>i, <2>0, <3>4, <3>5, <3>6, Zenon DEF Breaker
    <3> QED BY <3>3, <3>7, <3>8 DEF Breaker
  <2> QED BY <2>1, <2>2
<1>13. faults' \in 0..MaxFaults
  BY BoundsAssumption DEF IInv, Typed, WriteOk, WriteFails, WriteAnswerLost, Fault
<1>14. trouble' \in SUBSET Messages /\ trouble \subseteq trouble' /\ (~WriteOk(b) => r.log \subseteq trouble')
  <2>1. trouble' = trouble \/ trouble' = trouble \cup r.log
    BY DEF WriteOk, WriteFails, WriteAnswerLost, WriteThrew
  <2>2. ~WriteOk(b) => trouble' = trouble \cup r.log
    BY DEF WriteFails, WriteAnswerLost, WriteThrew
  <2> QED BY <1>8, <2>1, <2>2 DEF IInv, Typed, Messages
<1>15. Typed' BY <1>4, <1>12, <1>13, <1>14 DEF IInv, Typed
<1>16. Acks'
  <2> SUFFICES ASSUME NEW m \in Messages,
                      msg'[m] = "acked" \/ \E c \in Batches : m \in inv'[c].ack
               PROVE  Delivered(m)'
    BY DEF Acks
  <2>1. /\ rows[m] \in Nat /\ rows[m] <= rows'[m] /\ rows'[m] \in Nat
        /\ paged[m] \in Nat /\ paged[m] <= paged'[m] /\ paged'[m] \in Nat
    BY <1>4, <1>10 DEF IInv, Counted, Within
  <2>2. CASE msg[m] = "acked" \/ \E c \in Batches : m \in inv[c].ack
    BY <1>4, <1>12, <2>1, <2>2, DeliveredStays DEF IInv, Acks
  <2>3. CASE ~(msg[m] = "acked" \/ \E c \in Batches : m \in inv[c].ack)
    <3>1. WriteOk(b) /\ m \in r.log BY <1>2, <1>4, <1>5, <2>3
    <3>2. rows'[m] = rows[m] + 1 BY <1>9, <3>1 DEF Count
    <3> QED BY <1>8, <2>1, <3>1, <3>2 DEF Delivered
  <2> QED BY <2>2, <2>3
<1>17. Quiet'
  <2> SUFFICES ASSUME NEW m \in Messages, m \notin trouble'
               PROVE  tries'[m] = 0 /\ msg'[m] # "dropped" /\ \A c \in Batches : m \notin inv'[c].retry
    BY DEF Quiet
  <2>1. m \notin trouble BY <1>14
  <2>2. m \notin q.retry BY <1>2, <1>14, <2>1 DEF IInv, Quiet
  <2> QED BY <1>4, <1>5, <2>1, <2>2 DEF IInv, Quiet
<1> QED BY <1>5, <1>11, <1>12, <1>15, <1>16, <1>17 DEF IInv

Loop(b) ==
  Dispatch(b) \/ Mail(b) \/ MailFails(b) \/ Page(b) \/ PageFails(b) \/ PageAnswerLost(b)

\* What a step of the loop does with the message m of the batch r: acks it, and
\* it has been paged unless nobody is to be; gives it back, and that is noted; or
\* goes on to a sink.
Outcome(r, y, m) ==
  \/ /\ y.ack = r.ack \cup {m} /\ y.retry = r.retry /\ m \notin Paging(y)
     /\ trouble' = trouble
     /\ \/ paged' = paged /\ "logsnag" \notin conf
        \/ paged' = Count(paged, {m})
  \/ /\ y.ack = r.ack /\ y.retry = r.retry \cup {m} /\ m \notin Paging(y)
     /\ trouble' = trouble \cup {m}
     /\ paged' = paged \/ paged' = Count(paged, {m})
  \/ y.ack = r.ack /\ y.retry = r.retry /\ trouble' = trouble /\ paged' = paged

LEMMA LoopMoves ==
  ASSUME IInv, NEW b \in Batches, Loop(b)
  PROVE  \E y \in Batch, m \in Paging(inv[b]) :
           /\ Sound(y) /\ Held(y) = Held(inv[b]) /\ inv' = [inv EXCEPT ![b] = y]
           /\ y.log = inv[b].log /\ y.hog = inv[b].hog /\ Paging(y) \subseteq Paging(inv[b])
           /\ Outcome(inv[b], y, m)
<1> DEFINE r == inv[b]
<1>r. r \in Batch /\ Sound(r) BY DEF IInv, Slots
<1>f. None \notin Messages /\ Paging(r) \subseteq Others /\ Others \subseteq Messages
  BY <1>r, MessagesAssumption DEF Batch, Paging, Messages, Others
<1> HIDE DEF r
<1>1. ASSUME NEW x \in Batch, NEW m \in Others, Loose(x, m), Held(x) \cup {m} = Held(r),
             m \in Paging(r), x.todo \subseteq r.todo, m \notin x.todo,
             x.log = r.log, x.hog = r.hog, x.ack = r.ack, x.retry = r.retry,
             NEW y, inv' = [inv EXCEPT ![b] = y], Outcome(r, y, m),
             \/ y = Acked(x, m)
             \/ y = Retried(x, m)
             \/ y = Paged(x, m)
             \/ y = Mailed(x, m) /\ m \in Payments
      PROVE  /\ y \in Batch /\ Sound(y) /\ Held(y) = Held(r) /\ inv' = [inv EXCEPT ![b] = y]
             /\ y.log = r.log /\ y.hog = r.hog /\ Paging(y) \subseteq Paging(r)
             /\ Outcome(r, y, m)
  <2>1. /\ y \in Batch /\ Sound(y) /\ Held(y) = Held(x) \cup {m}
        /\ y.log = x.log /\ y.todo = x.todo /\ y.cur \in {m, None} /\ y.hog = x.hog
    BY <1>1, LoopKeeps
  <2>2. Paging(y) \subseteq Paging(r) BY <1>1, <2>1 DEF Paging
  <2> QED BY <1>1, <2>1, <2>2
<1>y. ASSUME NEW x \in Batch, NEW m \in Others, m \notin x.todo, x.ack = r.ack, x.retry = r.retry
      PROVE  /\ Acked(x, m).ack = r.ack \cup {m} /\ Acked(x, m).retry = r.retry
             /\ m \notin Paging(Acked(x, m))
             /\ Retried(x, m).ack = r.ack /\ Retried(x, m).retry = r.retry \cup {m}
             /\ m \notin Paging(Retried(x, m))
             /\ Paged(x, m).ack = r.ack /\ Paged(x, m).retry = r.retry
             /\ Mailed(x, m).ack = r.ack /\ Mailed(x, m).retry = r.retry
  BY <1>y DEF Batch, Acked, Retried, Paged, Mailed, Paging
<1>t. ASSUME NEW x \in Batch, NEW m
      PROVE  \/ ToLogSnag(x, m) = Acked(x, m) /\ "logsnag" \notin conf
             \/ ToLogSnag(x, m) = Paged(x, m)
  BY DEF ToLogSnag, Paged
<1>2. CASE Dispatch(b)
  <2>1. PICK m \in r.todo :
          LET z == [r EXCEPT !.todo = r.todo \ {m}]
          IN  inv' = [inv EXCEPT ![b] = IF m \in Payments /\ "resend" \in conf
                                          THEN Mailed(z, m)
                                          ELSE ToLogSnag(z, m)]
    BY <1>2, Zenon DEF Dispatch, Mailed, r
  <2> DEFINE x == [r EXCEPT !.todo = r.todo \ {m}]
             y == IF m \in Payments /\ "resend" \in conf
                    THEN Mailed(x, m) ELSE ToLogSnag(x, m)
  <2>2. /\ x \in Batch /\ m \in Others /\ x.todo = r.todo \ {m} /\ x.cur = None
        /\ x.log = r.log /\ x.hog = r.hog /\ x.ack = r.ack /\ x.retry = r.retry /\ x.on = r.on
    BY <1>r, <1>2 DEF Batch, Dispatch, r
  <2>3. m \in Paging(r) /\ m # None BY <1>f, <2>2 DEF Paging
  <2>4. r.on # None BY <1>r DEF Sound, Slot
  <2> HIDE DEF x
  <2>5. Held(x) \cup {m} = Held(r)
    <3>1. r.cur = None BY <1>2 DEF Dispatch, r
    <3> QED BY <2>2, <2>3, <3>1 DEF Held
  <2>6. Loose(x, m) BY <1>r, <2>2, <2>4, <2>5 DEF Loose, Sound
  <2>7. inv' = [inv EXCEPT ![b] = y] BY <2>1 DEF x
  <2>8. \/ y = Acked(x, m) /\ "logsnag" \notin conf
        \/ y = Paged(x, m)
        \/ y = Mailed(x, m) /\ m \in Payments
    BY <1>t, <2>2
  <2> HIDE DEF y
  <2>9. paged' = paged /\ trouble' = trouble BY <1>2 DEF Dispatch, sinks
  <2>10. Outcome(r, y, m) BY <1>y, <2>2, <2>8, <2>9 DEF Outcome
  <2>11. /\ y \in Batch /\ Sound(y) /\ Held(y) = Held(r) /\ inv' = [inv EXCEPT ![b] = y]
         /\ y.log = r.log /\ y.hog = r.hog /\ Paging(y) \subseteq Paging(r)
         /\ Outcome(r, y, m)
    BY <1>1, <2>2, <2>3, <2>5, <2>6, <2>7, <2>8, <2>10
  <2> QED BY <2>3, <2>11 DEF r
<1>3. CASE ~Dispatch(b)
  <2> DEFINE m == r.cur
  <2>1. m # None
    BY <1>3 DEF Loop, Mail, MailFails, Page, PageFails, PageAnswerLost, At, r
  <2>2. m \in Paging(r) /\ m \in Others /\ m \notin r.todo
    BY <1>r, <2>1, MessagesAssumption DEF Paging, Batch, Sound
  <2>3. Loose(r, m) /\ Held(r) \cup {m} = Held(r)
    BY <1>r, <2>1 DEF Sound, Loose, Held, Slot
  <2>4. \E y : /\ inv' = [inv EXCEPT ![b] = y] /\ Outcome(r, y, m)
               /\ \/ y = Acked(r, m) \/ y = Retried(r, m)
                  \/ y = Paged(r, m)
    <3>1. CASE Mail(b) \/ MailFails(b)
      <4>1. inv' = [inv EXCEPT ![b] = ToLogSnag(r, m)] /\ paged' = paged /\ trouble' = trouble
        BY <3>1 DEF Mail, MailFails, sinks, r
      <4>2. Outcome(r, ToLogSnag(r, m), m)
        BY <1>r, <1>t, <1>y, <2>2, <4>1 DEF Outcome
      <4> QED BY <1>r, <1>t, <4>1, <4>2
    <3>2. CASE Page(b)
      <4>1. inv' = [inv EXCEPT ![b] = Acked(r, m)] /\ paged' = Count(paged, {m}) /\ trouble' = trouble
        BY <3>2 DEF Page, r
      <4>2. Outcome(r, Acked(r, m), m) BY <1>r, <1>y, <2>2, <4>1 DEF Outcome
      <4> QED BY <4>1, <4>2
    <3>3. CASE PageFails(b) \/ PageAnswerLost(b)
      <4>1. /\ inv' = [inv EXCEPT ![b] = Retried(r, m)]
            /\ paged' = Count(paged, {m}) \/ paged' = paged
            /\ trouble' = trouble \cup {m}
        BY <3>3 DEF PageFails, PageAnswerLost, sinks, r
      <4>2. Outcome(r, Retried(r, m), m) BY <1>r, <1>y, <2>2, <4>1 DEF Outcome
      <4> QED BY <4>1, <4>2
    <3> QED BY <1>3, <3>1, <3>2, <3>3 DEF Loop
  <2>5. PICK y : /\ inv' = [inv EXCEPT ![b] = y] /\ Outcome(r, y, m)
                 /\ \/ y = Acked(r, m) \/ y = Retried(r, m)
                    \/ y = Paged(r, m)
    BY <2>4
  <2>6. /\ y \in Batch /\ Sound(y) /\ Held(y) = Held(r) /\ inv' = [inv EXCEPT ![b] = y]
        /\ y.log = r.log /\ y.hog = r.hog /\ Paging(y) \subseteq Paging(r)
        /\ Outcome(r, y, m)
    BY <1>1, <1>r, <2>2, <2>3, <2>5
  <2> QED BY <2>2, <2>6 DEF r
<1> QED BY <1>2, <1>3

\* The loop over the other messages, for every outcome.
LEMMA LoopStep ==
  ASSUME IInv, NEW b \in Batches, Loop(b)
  PROVE  IInv'
<1> DEFINE r == inv[b]
<1>1. PICK y \in Batch, m \in Paging(r) :
        /\ Sound(y) /\ Held(y) = Held(r) /\ inv' = [inv EXCEPT ![b] = y]
        /\ y.log = r.log /\ y.hog = r.hog /\ Paging(y) \subseteq Paging(r)
        /\ Outcome(r, y, m)
  BY LoopMoves
<1>2. /\ msg' = msg /\ tries' = tries /\ conf' = conf /\ rows' = rows /\ seen' = seen
      /\ fails' = fails /\ open' = open /\ broken' = broken /\ blown' = blown
  BY DEF Loop, Dispatch, Mail, MailFails, Page, PageFails, PageAnswerLost, breaker, sinks
<1>3. /\ Slots' /\ Placed'
      /\ inv'[b] = y /\ \A c \in Batches \ {b} : inv'[c] = inv[c]
  BY <1>1, <1>2, Drain
<1>4. /\ ToWrite' \subseteq ToWrite /\ ToPage' \subseteq ToPage /\ ToCapture' \subseteq ToCapture
      /\ m \notin Paging(y) => m \notin ToPage'
  BY <1>1, <1>2, OwedAfter
<1>5. /\ r \in Batch /\ Sound(r) /\ m \in Others /\ m \in Messages
      /\ m \in ToPage /\ m \notin Waiting(msg) /\ m \notin Fingerprints
  BY <1>1, Owed, MessagesAssumption DEF IInv, Slots, Batch, Paging, ToPage, Others, Messages
<1>6. tries \in [Messages -> Nat] BY BoundsAssumption DEF IInv, Typed
<1>7. Within(paged', ToPage', tries', msg') /\ \A n \in Messages : paged[n] <= paged'[n]
  <2>1. Within(paged, ToPage, tries, msg) BY DEF IInv, Counted
  <2>2. CASE paged' = paged
    <3>1. Within(paged', ToPage', tries', msg') BY <1>2, <1>4, <2>1, <2>2, WithinStays
    <3>2. paged \in [Messages -> Nat] BY <2>1 DEF Within
    <3> QED BY <2>2, <3>1, <3>2
  <2>3. CASE paged' # paged
    <3>1. paged' = Count(paged, {m}) /\ m \notin ToPage'
      BY <1>1, <1>4, <2>3 DEF Outcome
    <3>2. {m} \in SUBSET ToPage /\ ToPage' \cap {m} = {} /\ Waiting(msg) \cap {m} = {}
      BY <1>5, <3>1
    <3> QED BY <1>2, <1>4, <1>6, <2>1, <3>1, <3>2, WithinCount
  <2> QED BY <2>2, <2>3
<1>8. Counted'
  <2>1. Within(rows', ToWrite', tries', msg') BY <1>2, <1>4, WithinStays DEF IInv, Counted
  <2>2. Within(seen', ToCapture', tries', msg') BY <1>2, <1>4, WithinStays DEF IInv, Counted
  <2> QED BY <1>7, <2>1, <2>2 DEF Counted
<1>9. Typed'
  <2>1. mailed' \in SUBSET Payments
    <3>1. r.at = "mail" => r.cur \in Payments BY <1>5 DEF Sound
    <3>2. mailed' = mailed \/ (r.at = "mail" /\ mailed' = mailed \cup {r.cur})
      BY DEF Loop, Dispatch, Mail, MailFails, Page, PageFails, PageAnswerLost, At, sinks
    <3> QED BY <3>1, <3>2 DEF IInv, Typed
  <2>2. trouble' \in SUBSET Messages BY <1>1, <1>5 DEF Outcome, IInv, Typed
  <2>3. faults' \in 0..MaxFaults
    <3>1. faults' = faults \/ Fault
      BY DEF Loop, Dispatch, Mail, MailFails, Page, PageFails, PageAnswerLost
    <3> QED BY <3>1, BoundsAssumption DEF IInv, Typed, Fault
  <2> QED BY <1>2, <2>1, <2>2, <2>3 DEF IInv, Typed
<1>10. Acks'
  <2> SUFFICES ASSUME NEW n \in Messages,
                      msg'[n] = "acked" \/ \E c \in Batches : n \in inv'[c].ack
               PROVE  Delivered(n)'
    BY DEF Acks
  <2>1. /\ rows[n] \in Nat /\ rows[n] <= rows'[n] /\ rows'[n] \in Nat
        /\ paged[n] \in Nat /\ paged[n] <= paged'[n] /\ paged'[n] \in Nat
    BY <1>2, <1>7 DEF IInv, Counted, Within
  <2>2. CASE msg[n] = "acked" \/ \E c \in Batches : n \in inv[c].ack
    BY <1>2, <2>1, <2>2, DeliveredStays DEF IInv, Acks
  <2>3. CASE ~(msg[n] = "acked" \/ \E c \in Batches : n \in inv[c].ack)
    <3>1. n \in y.ack /\ n \notin r.ack BY <1>2, <1>3, <2>3
    <3>2. n = m /\ (paged' = Count(paged, {m}) \/ "logsnag" \notin conf)
      BY <1>1, <3>1 DEF Outcome
    <3>3. paged' = Count(paged, {m}) => paged'[m] = paged[m] + 1 BY <1>5 DEF Count
    <3> QED BY <1>2, <1>5, <2>1, <3>2, <3>3 DEF Delivered
  <2> QED BY <2>2, <2>3
<1>11. Quiet'
  <2> SUFFICES ASSUME NEW n \in Messages, n \notin trouble'
               PROVE  tries'[n] = 0 /\ msg'[n] # "dropped" /\ \A c \in Batches : n \notin inv'[c].retry
    BY DEF Quiet
  <2>1. n \notin trouble BY <1>1 DEF Outcome
  <2>2. n \notin y.retry BY <1>1, <2>1 DEF Outcome, IInv, Quiet
  <2> QED BY <1>2, <1>3, <2>1, <2>2 DEF IInv, Quiet
<1>12. Breaker' BY <1>2 DEF IInv, Breaker
<1> QED BY <1>3, <1>8, <1>9, <1>10, <1>11, <1>12 DEF IInv

\* The call to PostHog: counted or not, it decides no message.
LEMMA CaptureStep ==
  ASSUME IInv, NEW b \in Batches, Capture(b) \/ CaptureFails(b)
  PROVE  IInv'
<1> DEFINE r == inv[b]
           q == [r EXCEPT !.hog = {}]
<1>r. r \in Batch /\ Sound(r) BY DEF IInv, Slots
<1>1. /\ q \in Batch /\ q.hog = {} /\ q.log = r.log /\ q.todo = r.todo /\ q.cur = r.cur
      /\ q.at = r.at /\ q.ack = r.ack /\ q.retry = r.retry /\ q.on = r.on
  BY <1>r DEF Batch
<1>2. Held(q) = Held(r) /\ Paging(q) = Paging(r) BY <1>1 DEF Held, Paging
<1>3. inv' = [inv EXCEPT ![b] = q] BY DEF Capture, CaptureFails
<1>0. r.on # None BY <1>r DEF Capture, CaptureFails, Sound, Slot
<1> HIDE DEF q
<1>4. Sound(q) BY <1>r, <1>0, <1>1, <1>2 DEF Sound
<1>5. /\ msg' = msg /\ tries' = tries /\ conf' = conf /\ rows' = rows /\ paged' = paged
      /\ mailed' = mailed /\ trouble' = trouble /\ faults' = faults
      /\ fails' = fails /\ open' = open /\ broken' = broken /\ blown' = blown
      /\ seen' = seen \/ seen' = Count(seen, r.hog)
  BY DEF Capture, CaptureFails, breaker, sinks
<1>6. /\ Slots' /\ Placed'
      /\ inv'[b] = q /\ \A c \in Batches \ {b} : inv'[c] = inv[c]
  BY <1>1, <1>2, <1>3, <1>4, <1>5, Drain
<1>7. /\ ToWrite' \subseteq ToWrite /\ ToPage' \subseteq ToPage
      /\ ToCapture' \subseteq ToCapture /\ ToCapture' \cap r.hog = {}
  BY <1>1, <1>2, <1>3, <1>4, <1>5, OwedAfter
<1>8. Counted'
  <2>1. Within(rows', ToWrite', tries', msg') BY <1>5, <1>7, WithinStays DEF IInv, Counted
  <2>2. Within(paged', ToPage', tries', msg') BY <1>5, <1>7, WithinStays DEF IInv, Counted
  <2>3. Within(seen', ToCapture', tries', msg')
    <3>1. Within(seen, ToCapture, tries, msg) BY DEF IInv, Counted
    <3>2. CASE seen' = seen BY <1>5, <1>7, <3>1, <3>2, WithinStays
    <3>3. CASE seen' = Count(seen, r.hog)
      <4>1. tries \in [Messages -> Nat] BY BoundsAssumption DEF IInv, Typed
      <4>2. r.hog \subseteq ToCapture /\ Waiting(msg) \cap r.hog = {} BY Owed DEF ToCapture
      <4> QED BY <1>5, <1>7, <3>1, <3>3, <4>1, <4>2, WithinCount
    <3> QED BY <1>5, <3>2, <3>3
  <2> QED BY <2>1, <2>2, <2>3 DEF Counted
<1>9. Typed' BY <1>5 DEF IInv, Typed
<1>10. \A c \in Batches : inv'[c].ack = inv[c].ack /\ inv'[c].retry = inv[c].retry
  BY <1>1, <1>6
<1>11. \A m \in Messages : Delivered(m) <=> Delivered(m)' BY <1>5 DEF Delivered
<1>12. Acks' BY <1>5, <1>10, <1>11 DEF IInv, Acks
<1>13. Quiet' BY <1>5, <1>10 DEF IInv, Quiet
<1>14. Breaker' BY <1>5 DEF IInv, Breaker
<1> QED BY <1>6, <1>8, <1>9, <1>12, <1>13, <1>14 DEF IInv

---------------------------------------------------------------------------
(* The producer and the queue.                                              *)

LEMMA EmptySlot ==
  /\ Slot \in Batch /\ Sound(Slot) /\ Held(Slot) = {} /\ Paging(Slot) = {}
  /\ Slot.log = {} /\ Slot.hog = {} /\ Slot.ack = {} /\ Slot.retry = {}
  BY DEF Slot, Batch, Sound, Held, Paging

LEMMA EmitStep ==
  ASSUME IInv, NEW m \in Messages, Emit(m) \/ EmitFails(m)
  PROVE  IInv'
<1>1. /\ msg[m] = "unsent" /\ inv' = inv /\ tries' = tries /\ conf' = conf
      /\ rows' = rows /\ paged' = paged /\ seen' = seen /\ mailed' = mailed
      /\ trouble' = trouble /\ fails' = fails /\ open' = open /\ broken' = broken
      /\ blown' = blown
      /\ msg' = [msg EXCEPT ![m] = "queued"] \/ msg' = [msg EXCEPT ![m] = "lost"]
  BY DEF Emit, EmitFails, breaker, sinks
<1>2. /\ msg' \in [Messages -> {"unsent", "lost", "queued", "taken", "acked", "dropped"}]
      /\ \A n \in Messages : /\ msg'[n] = "taken" <=> msg[n] = "taken"
                             /\ msg'[n] = "acked" <=> msg[n] = "acked"
                             /\ msg'[n] = "dropped" <=> msg[n] = "dropped"
      /\ Waiting(msg') \subseteq Waiting(msg)
  BY <1>1 DEF IInv, Typed, Waiting
<1>3. faults' \in 0..MaxFaults
  BY BoundsAssumption DEF IInv, Typed, Emit, EmitFails, Fault
<1>4. Typed' BY <1>1, <1>2, <1>3 DEF IInv, Typed
<1>5. Slots' BY <1>1 DEF IInv, Slots
<1>6. Placed' BY <1>1, <1>2 DEF IInv, Placed
<1>7. ToWrite' = ToWrite /\ ToPage' = ToPage /\ ToCapture' = ToCapture
  BY <1>1 DEF ToWrite, ToPage, ToCapture
<1>8. Counted' BY <1>1, <1>2, <1>7, WithinStays DEF IInv, Counted
<1>9. Breaker' BY <1>1 DEF IInv, Breaker
<1>10. \A n \in Messages : Delivered(n) <=> Delivered(n)' BY <1>1 DEF Delivered
<1>11. Acks' BY <1>1, <1>2, <1>10 DEF IInv, Acks
<1>12. Quiet' BY <1>1, <1>2 DEF IInv, Quiet
<1> QED BY <1>4, <1>5, <1>6, <1>8, <1>9, <1>11, <1>12 DEF IInv

LEMMA DeliverStep ==
  ASSUME IInv, NEW b \in Batches, NEW i \in Isolates, Deliver(b, i)
  PROVE  IInv'
<1>1. PICK S \in SUBSET {m \in Messages : msg[m] = "queued"} :
        LET fp == S \cap Fingerprints
            write == "tinybird" \in conf /\ ~open[i]
        IN  /\ msg' = [m \in Messages |-> IF m \in S THEN "taken" ELSE msg[m]]
            /\ inv' = [inv EXCEPT ![b] = [Slot EXCEPT
                 !.on = i, !.todo = S \ fp,
                 !.log = IF write THEN fp ELSE {}, !.ack = IF write THEN {} ELSE fp,
                 !.hog = IF "posthog" \in conf THEN S ELSE {}]]
  BY DEF Deliver
<1> DEFINE fp == S \cap Fingerprints
           write == "tinybird" \in conf /\ ~open[i]
           q == [Slot EXCEPT !.on = i, !.todo = S \ fp,
                 !.log = IF write THEN fp ELSE {}, !.ack = IF write THEN {} ELSE fp,
                 !.hog = IF "posthog" \in conf THEN S ELSE {}]
<1>2. /\ q.on = i /\ q.todo = S \ fp /\ q.cur = None /\ q.at = "page" /\ q.retry = {}
      /\ q.log = (IF write THEN fp ELSE {}) /\ q.ack = (IF write THEN {} ELSE fp)
      /\ q.hog = (IF "posthog" \in conf THEN S ELSE {})
  BY DEF Slot
<1>3. S \subseteq Messages /\ None \notin S /\ i # None /\ S \ fp \subseteq Others
  BY MessagesAssumption DEF Messages, Others
<1>4. q \in Batch
  <2>1. fp \in SUBSET Fingerprints /\ fp \in SUBSET Messages /\ S \in SUBSET Messages
        /\ S \ fp \in SUBSET Others
    BY <1>3
  <2>2. /\ (IF write THEN fp ELSE {}) \in SUBSET Fingerprints
        /\ (IF write THEN {} ELSE fp) \in SUBSET Messages
        /\ (IF "posthog" \in conf THEN S ELSE {}) \in SUBSET Messages
    BY <2>1
  <2> QED BY <2>1, <2>2 DEF Slot, Batch
<1>5. inv' = [inv EXCEPT ![b] = q] BY <1>1
<1>a. /\ q.log \subseteq fp /\ q.ack \subseteq fp /\ q.log \cap q.ack = {} /\ q.log \cup q.ack = fp
      /\ q.hog \subseteq S /\ fp \subseteq S /\ fp \subseteq Fingerprints
      /\ q.ack = {} \/ "tinybird" \notin conf \/ open[i]
  BY <1>2
<1> HIDE DEF q, fp, write
<1>6. Held(q) = S BY <1>2, <1>a DEF Held
<1>7. Sound(q) BY <1>2, <1>3, <1>6, <1>a DEF Sound
<1>8. /\ tries' = tries /\ conf' = conf
      /\ rows' = rows /\ paged' = paged /\ seen' = seen /\ mailed' = mailed
      /\ trouble' = trouble /\ fails' = fails /\ open' = open /\ broken' = broken
      /\ blown' = blown /\ faults' = faults
  BY DEF Deliver, breaker, sinks
<1>9. inv[b] = Slot BY DEF Deliver, IInv, Slots, Sound
<1>10. inv'[b] = q /\ \A c \in Batches \ {b} : inv'[c] = inv[c]
  BY <1>5 DEF IInv, Slots
<1>11. Slots' BY <1>4, <1>5, <1>7, <1>10 DEF IInv, Slots
<1>12. /\ msg' \in [Messages -> {"unsent", "lost", "queued", "taken", "acked", "dropped"}]
       /\ \A m \in Messages : msg'[m] = IF m \in S THEN "taken" ELSE msg[m]
       /\ \A m \in S : m \in Messages /\ msg[m] = "queued"
  BY <1>1 DEF IInv, Typed
<1>13. Placed'
  <2>1. \A c \in Batches \ {b} : Held(inv'[c]) = Held(inv[c]) /\ Held(inv[c]) \cap S = {}
    BY <1>10, <1>12 DEF IInv, Placed
  <2>2. Held(inv'[b]) = S /\ Held(inv[b]) = {} BY <1>6, <1>9, <1>10, EmptySlot
  <2>3. \A m \in Messages : msg'[m] = "taken" <=> \E c \in Batches : m \in Held(inv'[c])
    BY <1>12, <2>1, <2>2 DEF IInv, Placed
  <2>4. \A c, d \in Batches : c # d => Held(inv'[c]) \cap Held(inv'[d]) = {}
    BY <2>1, <2>2 DEF IInv, Placed
  <2> QED BY <2>3, <2>4 DEF Placed
<1>14. Typed' BY <1>8, <1>12 DEF IInv, Typed
<1>15. Counted'
  <2>1. S \subseteq Waiting(msg) /\ Waiting(msg') \subseteq Waiting(msg)
    BY <1>12 DEF Waiting
  <2>2. Paging(q) \subseteq S BY <1>2 DEF Paging
  <2>3. ToWrite' \subseteq ToWrite \cup S /\ ToPage' \subseteq ToPage \cup S
        /\ ToCapture' \subseteq ToCapture \cup S
    BY <1>10, <1>a, <2>2 DEF ToWrite, ToPage, ToCapture
  <2>4. Within(rows', ToWrite', tries', msg') BY <1>8, <2>1, <2>3, WithinStays DEF IInv, Counted
  <2>5. Within(paged', ToPage', tries', msg') BY <1>8, <2>1, <2>3, WithinStays DEF IInv, Counted
  <2>6. Within(seen', ToCapture', tries', msg') BY <1>8, <2>1, <2>3, WithinStays DEF IInv, Counted
  <2> QED BY <2>4, <2>5, <2>6 DEF Counted
<1>16. Breaker' BY <1>8 DEF IInv, Breaker
<1>17. Acks'
  <2> SUFFICES ASSUME NEW m \in Messages,
                      msg'[m] = "acked" \/ \E c \in Batches : m \in inv'[c].ack
               PROVE  Delivered(m)'
    BY DEF Acks
  <2>1. Delivered(m)' <=> Delivered(m) BY <1>8 DEF Delivered
  <2>2. CASE msg[m] = "acked" \/ \E c \in Batches : m \in inv[c].ack
    BY <2>1, <2>2 DEF IInv, Acks
  <2>3. CASE ~(msg[m] = "acked" \/ \E c \in Batches : m \in inv[c].ack)
    <3>1. m \in q.ack BY <1>10, <1>12, <2>3
    <3>2. m \in Fingerprints /\ ("tinybird" \notin conf \/ open[i]) BY <1>a, <3>1
    <3>3. open[i] => blown BY DEF IInv, Breaker
    <3> QED BY <2>1, <3>2, <3>3 DEF Delivered
  <2> QED BY <2>2, <2>3
<1>18. Quiet' BY <1>2, <1>8, <1>10, <1>12 DEF IInv, Quiet
<1> QED BY <1>11, <1>13, <1>14, <1>15, <1>16, <1>17, <1>18 DEF IInv

\* Slots are emptied, and the queue hears of all they held.
LEMMA Vacate ==
  ASSUME IInv, NEW M \in SUBSET Batches, NEW S, NEW A, Requeue(S, A),
         S \cup A = UNION {Held(inv[b]) : b \in M},
         inv' = [b \in Batches |-> IF b \in M THEN Slot ELSE inv[b]],
         rows' = rows, paged' = paged, seen' = seen, conf' = conf, blown' = blown,
         \A m \in Messages \cap A : Delivered(m),
         trouble \subseteq trouble', S \subseteq trouble'
  PROVE  /\ Slots' /\ Placed' /\ Counted' /\ Acks' /\ Quiet'
         /\ msg' \in [Messages -> {"unsent", "lost", "queued", "taken", "acked", "dropped"}]
         /\ tries' \in [Messages -> 0..MaxRetries]
<1>1. \A b \in Batches : inv'[b] = IF b \in M THEN Slot ELSE inv[b] OBVIOUS
<1>2. Slots' BY <1>1, EmptySlot DEF IInv, Slots
<1>3. \A m \in Messages :
        /\ msg'[m] = IF m \in S THEN IF tries[m] < MaxRetries THEN "queued" ELSE "dropped"
                     ELSE IF m \in A THEN "acked" ELSE msg[m]
        /\ tries'[m] = IF m \in S /\ tries[m] < MaxRetries THEN tries[m] + 1 ELSE tries[m]
  BY DEF Requeue
<1>4. msg' \in [Messages -> {"unsent", "lost", "queued", "taken", "acked", "dropped"}]
  BY DEF Requeue, IInv, Typed
<1>5. tries' \in [Messages -> 0..MaxRetries]
  BY BoundsAssumption DEF Requeue, IInv, Typed
<1>6. Placed'
  <2>1. \A b \in Batches \ M : Held(inv'[b]) = Held(inv[b]) /\ Held(inv[b]) \cap (S \cup A) = {}
    BY <1>1 DEF IInv, Placed
  <2>2. \A b \in M : Held(inv'[b]) = {} BY <1>1, EmptySlot
  <2>3. \A m \in Messages : msg'[m] = "taken" <=> \E c \in Batches : m \in Held(inv'[c])
    <3>1. \A m \in Messages : msg'[m] = "taken" <=> msg[m] = "taken" /\ m \notin S \cup A
      BY <1>3
    <3> QED BY <2>1, <2>2, <3>1 DEF IInv, Placed
  <2>4. \A c, d \in Batches : c # d => Held(inv'[c]) \cap Held(inv'[d]) = {}
    BY <2>1, <2>2 DEF IInv, Placed
  <2> QED BY <2>3, <2>4 DEF Placed
<1>7. Counted'
  <2>1. ToWrite' \subseteq ToWrite /\ ToPage' \subseteq ToPage /\ ToCapture' \subseteq ToCapture
    BY <1>1, EmptySlot DEF ToWrite, ToPage, ToCapture
  <2>2. Within(rows', ToWrite', tries', msg') BY <2>1, WithinRequeue DEF IInv, Counted
  <2>3. Within(paged', ToPage', tries', msg') BY <2>1, WithinRequeue DEF IInv, Counted
  <2>4. Within(seen', ToCapture', tries', msg') BY <2>1, WithinRequeue DEF IInv, Counted
  <2> QED BY <2>2, <2>3, <2>4 DEF Counted
<1>8. Acks'
  <2>1. \A m \in Messages : Delivered(m)' <=> Delivered(m) BY DEF Delivered
  <2>2. \A m \in Messages : msg'[m] = "acked" => msg[m] = "acked" \/ m \in A BY <1>3
  <2>3. \A b \in Batches : inv'[b].ack \subseteq inv[b].ack BY <1>1, EmptySlot
  <2> QED BY <2>1, <2>2, <2>3 DEF IInv, Acks
<1>9. Quiet'
  <2> SUFFICES ASSUME NEW m \in Messages, m \notin trouble'
               PROVE  tries'[m] = 0 /\ msg'[m] # "dropped" /\ \A b \in Batches : m \notin inv'[b].retry
    BY DEF Quiet
  <2>1. m \notin trouble /\ m \notin S OBVIOUS
  <2>2. tries[m] = 0 /\ msg[m] # "dropped" /\ \A b \in Batches : m \notin inv[b].retry
    BY <2>1 DEF IInv, Quiet
  <2>3. \A b \in Batches : inv'[b].retry \subseteq inv[b].retry BY <1>1, EmptySlot
  <2> QED BY <1>3, <2>1, <2>2, <2>3
<1> QED BY <1>2, <1>4, <1>5, <1>6, <1>7, <1>8, <1>9

LEMMA ReturnStep ==
  ASSUME IInv, NEW b \in Batches, Return(b)
  PROVE  IInv'
<1> DEFINE r == inv[b]
<1>r. r \in Batch /\ Sound(r) BY DEF IInv, Slots
<1>1. /\ Requeue(r.retry, r.ack) /\ conf' = conf /\ trouble' = trouble /\ faults' = faults
      /\ rows' = rows /\ paged' = paged /\ seen' = seen /\ mailed' = mailed
      /\ fails' = fails /\ open' = open /\ broken' = broken /\ blown' = blown
  BY DEF Return, breaker, sinks
<1>2. Held(r) = r.retry \cup r.ack BY DEF Return, Held
<1>3. inv' = [c \in Batches |-> IF c \in {b} THEN Slot ELSE inv[c]]
  BY DEF Return, IInv, Slots
<1>4. \A m \in Messages \cap r.ack : Delivered(m) BY DEF IInv, Acks
<1>5. r.retry \subseteq trouble BY <1>r DEF IInv, Quiet, Batch
<1>6. r.retry \cup r.ack = UNION {Held(inv[c]) : c \in {b}} BY <1>2
<1>7. /\ Slots' /\ Placed' /\ Counted' /\ Acks' /\ Quiet'
      /\ msg' \in [Messages -> {"unsent", "lost", "queued", "taken", "acked", "dropped"}]
      /\ tries' \in [Messages -> 0..MaxRetries]
  BY <1>1, <1>3, <1>4, <1>5, <1>6, Vacate
<1>8. Typed' BY <1>1, <1>7 DEF IInv, Typed
<1>9. Breaker' BY <1>1 DEF IInv, Breaker
<1> QED BY <1>7, <1>8, <1>9 DEF IInv

LEMMA DieStep ==
  ASSUME IInv, NEW i \in Isolates, Die(i)
  PROVE  IInv'
<1> DEFINE M == {b \in Batches : inv[b].on = i}
           lost == UNION {Held(inv[b]) : b \in M}
<1>0. \A b \in Batches : Taken(b) = Held(inv[b]) BY DEF Taken, Held
<1>1. lost = UNION {Taken(b) : b \in M} BY <1>0
<1>2. /\ Requeue(lost, {}) /\ trouble' = trouble \cup lost
      /\ inv' = [b \in Batches |-> IF b \in M THEN Slot ELSE inv[b]]
  BY <1>1 DEF Die
<1>3. /\ conf' = conf /\ rows' = rows /\ paged' = paged /\ seen' = seen /\ mailed' = mailed
      /\ blown' = blown
      /\ fails' = [fails EXCEPT ![i] = 0] /\ open' = [open EXCEPT ![i] = FALSE]
      /\ broken' = [broken EXCEPT ![i] = 0]
  BY DEF Die, sinks
<1>4. lost \subseteq Messages
  <2>1. \A b \in Batches : Held(inv[b]) \subseteq Messages BY Owed
  <2> QED BY <2>1
<1>5. M \in SUBSET Batches OBVIOUS
<1>6. lost \cup {} = UNION {Held(inv[b]) : b \in M} OBVIOUS
<1> HIDE DEF M, lost
<1>7. /\ Slots' /\ Placed' /\ Counted' /\ Acks' /\ Quiet'
      /\ msg' \in [Messages -> {"unsent", "lost", "queued", "taken", "acked", "dropped"}]
      /\ tries' \in [Messages -> 0..MaxRetries]
  BY <1>2, <1>3, <1>5, <1>6, Vacate
<1>8. faults' \in 0..MaxFaults BY BoundsAssumption DEF IInv, Typed, Die, Fault
<1>9. fails' \in [Isolates -> Nat] /\ broken' \in [Isolates -> Nat]
      /\ open' \in [Isolates -> BOOLEAN]
  BY <1>3 DEF IInv, Typed
<1>10. Typed' BY <1>2, <1>3, <1>4, <1>7, <1>8, <1>9 DEF IInv, Typed
<1>11. Breaker'
  <2>1. /\ fails \in [Isolates -> Nat] /\ broken \in [Isolates -> Nat]
        /\ open \in [Isolates -> BOOLEAN] /\ Breaker
    BY DEF IInv, Typed
  <2>2. \A j \in Isolates : fails'[j] <= broken'[j] BY <1>3, <2>1 DEF Breaker
  <2>3. \A j \in Isolates : open'[j] => open[j] BY <1>3, <2>1, Zenon
  <2> QED BY <1>3, <2>1, <2>2, <2>3 DEF Breaker
<1> QED BY <1>7, <1>10, <1>11 DEF IInv

---------------------------------------------------------------------------
(* The theorems.                                                            *)

LEMMA InvInit == Init => IInv
<1> SUFFICES ASSUME Init PROVE IInv OBVIOUS
<1>1. /\ msg = [m \in Messages |-> "unsent"] /\ tries = [m \in Messages |-> 0]
      /\ inv = [b \in Batches |-> Slot] /\ rows = [m \in Messages |-> 0]
      /\ paged = rows /\ seen = rows /\ conf \in Confs
      /\ fails = [i \in Isolates |-> 0] /\ broken = fails
      /\ open = [i \in Isolates |-> FALSE] /\ blown = FALSE
      /\ mailed = {} /\ trouble = {} /\ faults = 0
  BY DEF Init
<1>2. Typed
  <2>1. 0 \in 0..MaxRetries /\ 0 \in 0..MaxFaults BY BoundsAssumption
  <2>2. open \in [Isolates -> BOOLEAN] /\ blown \in BOOLEAN BY <1>1
  <2>3. tries \in [Messages -> 0..MaxRetries] BY <1>1, <2>1
  <2>4. fails \in [Isolates -> Nat] /\ broken \in [Isolates -> Nat] BY <1>1
  <2>5. msg \in [Messages -> {"unsent", "lost", "queued", "taken", "acked", "dropped"}]
    BY <1>1
  <2> QED BY <1>1, <2>1, <2>2, <2>3, <2>4, <2>5 DEF Typed
<1>3. Slots BY <1>1, EmptySlot DEF Slots
<1>4. Placed BY <1>1, EmptySlot DEF Placed
<1>5. Counted BY <1>1 DEF Counted, Within
<1>6. Breaker BY <1>1 DEF Breaker
<1>7. Acks BY <1>1, EmptySlot DEF Acks
<1>8. Quiet BY <1>1, EmptySlot DEF Quiet
<1> QED BY <1>2, <1>3, <1>4, <1>5, <1>6, <1>7, <1>8 DEF IInv

LEMMA InvStep == IInv /\ [Next]_vars => IInv'
<1> SUFFICES ASSUME IInv, [Next]_vars PROVE IInv' OBVIOUS
<1>1. CASE UNCHANGED vars
  <2>1. UNCHANGED <<conf, msg, tries, inv, fails, open, broken, blown,
                    rows, paged, mailed, seen, trouble, faults>>
    BY <1>1 DEF vars, breaker, sinks
  <2> QED BY <2>1 DEF IInv, Typed, Slots, Placed, Counted, Within, Waiting, ToWrite, ToPage,
                      ToCapture, Breaker, Acks, Delivered, Quiet
<1>2. ASSUME NEW m \in Messages, Emit(m) \/ EmitFails(m) PROVE IInv' BY <1>2, EmitStep
<1>3. ASSUME NEW b \in Batches, Handle(b) PROVE IInv'
  BY <1>3, WriteStep, LoopStep, CaptureStep, ReturnStep DEF Handle, Loop
<1>4. ASSUME NEW b \in Batches, NEW i \in Isolates, Deliver(b, i) PROVE IInv'
  BY <1>4, DeliverStep
<1>5. ASSUME NEW i \in Isolates, Die(i) PROVE IInv' BY <1>5, DieStep
<1> QED BY <1>1, <1>2, <1>3, <1>4, <1>5 DEF Next

LEMMA Invariance == Spec => []IInv
  BY InvInit, InvStep, PTL DEF Spec

\* The state of the queue, of the worker and of the sinks is well typed; a sink
\* has no message more often than the queue may hand it out.
THEOREM Types == Spec => []TypeOK
<1>1. IInv => TypeOK
  <2> SUFFICES ASSUME IInv PROVE TypeOK OBVIOUS
  <2>1. ASSUME NEW f, NEW W, Within(f, W, tries, msg) PROVE f \in [Messages -> 0..MaxRetries + 1]
    <3>1. f \in [Messages -> Nat] /\ \A m \in Messages : f[m] <= tries[m] + 1
      BY <2>1 DEF Within
    <3>2. \A m \in Messages : tries[m] \in 0..MaxRetries BY DEF IInv, Typed
    <3>3. \A m \in Messages : f[m] \in 0..MaxRetries + 1 BY <3>1, <3>2, BoundsAssumption
    <3> QED BY <3>1, <3>3
  <2>2. /\ rows \in [Messages -> 0..MaxRetries + 1]
        /\ paged \in [Messages -> 0..MaxRetries + 1]
        /\ seen \in [Messages -> 0..MaxRetries + 1]
    BY <2>1 DEF IInv, Counted
  <2>3. inv \in [Batches -> Batch] BY DEF IInv, Slots
  <2> QED BY <2>2, <2>3 DEF IInv, Typed, TypeOK, Batch, Others
<1> QED BY <1>1, Invariance, PTL

\* A batch decides each of its messages once and loses none: what the queue has
\* handed out is in exactly one batch, on its way to an ack or a retry.
THEOREM Accounted == Spec => []EveryMessageIsAccountedFor
<1>1. IInv => EveryMessageIsAccountedFor
  <2> SUFFICES ASSUME IInv PROVE EveryMessageIsAccountedFor OBVIOUS
  <2>1. \A b \in Batches : Taken(b) = Held(inv[b]) BY DEF Taken, Held
  <2>2. \A b \in Batches : inv[b].ack \cap inv[b].retry = {} BY DEF IInv, Slots, Sound
  <2> QED BY <2>1, <2>2 DEF IInv, Placed, EveryMessageIsAccountedFor
<1> QED BY <1>1, Invariance, PTL

\* An acked message has reached the sink that owns its ack, unless the sink has no
\* credentials or the breaker of some isolate has had the failures to open.
THEOREM AckedIsDelivered == Spec => []AckedMeansDelivered
<1>1. IInv => AckedMeansDelivered BY DEF IInv, Acks, Delivered, AckedMeansDelivered
<1> QED BY <1>1, Invariance, PTL

\* No sink is called twice for a message, and none is dropped, unless the sink that
\* owns the ack failed or the isolate died: PostHog and Resend re-drive nothing.
THEOREM OwnersRedrive == Spec => []OnlyTheOwningSinkRedrives
<1>1. IInv => OnlyTheOwningSinkRedrives
  <2> SUFFICES ASSUME IInv, NEW m \in Messages, m \notin trouble
               PROVE  /\ tries[m] = 0 /\ msg[m] # "dropped"
                      /\ rows[m] <= 1 /\ paged[m] <= 1 /\ seen[m] <= 1
    BY DEF OnlyTheOwningSinkRedrives
  <2>1. tries[m] = 0 /\ msg[m] # "dropped" BY DEF IInv, Quiet
  <2>2. rows[m] <= tries[m] + 1 /\ paged[m] <= tries[m] + 1 /\ seen[m] <= tries[m] + 1
    BY DEF IInv, Counted, Within
  <2> QED BY <2>1, <2>2
<1> QED BY <1>1, Invariance, PTL
=============================================================================
