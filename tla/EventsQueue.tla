---------------------------- MODULE EventsQueue ----------------------------
(***************************************************************************)
(* Product events: emitted by the API, held by a Cloudflare queue, drained *)
(* in batches by the events worker into its sinks.  Fingerprints of        *)
(* queries (ask.completed) go to Tinybird, a batch in one call, behind a   *)
(* breaker each isolate keeps; the others go one by one to LogSnag, failed *)
(* payments with an email to the customer first; everything goes to        *)
(* PostHog as well.  The three drains of a batch run side by side.         *)
(*                                                                         *)
(* The queue is external: it hands out batches, applies the acks and       *)
(* retries of a batch when its handler returns, and hands the whole batch  *)
(* out again when the isolate dies.                                        *)
(*                                                                         *)
(* An operator that no other uses, standing before the one it varies, is   *)
(* that one with a plausible bug in it.                                    *)
(***************************************************************************)
EXTENDS Integers, FiniteSets

CONSTANTS
  Fingerprints,   \* ask.completed messages
  Alerts,         \* lifecycle and demand messages
  Payments,       \* billing.payment_failed messages
  Batches,        \* slots for batches being drained
  Isolates,       \* isolates of the worker
  Confs,          \* the combinations of configured sinks
  Threshold,      \* failed batches that open the breaker
  MaxBatch,
  MaxRetries,
  MaxFaults,      \* bound on lost answers, failed sends and dead isolates
  None

Sinks == {"tinybird", "logsnag", "resend", "posthog"}
Messages == Fingerprints \cup Alerts \cup Payments

ASSUME MessagesAssumption ==
  /\ Fingerprints \cap (Alerts \cup Payments) = {} /\ Alerts \cap Payments = {}
  /\ None \notin Messages \cup Isolates
ASSUME ConfsAssumption == Confs \subseteq SUBSET Sinks
ASSUME BoundsAssumption ==
  /\ Threshold \in Nat \ {0} /\ MaxBatch \in Nat \ {0}
  /\ MaxRetries \in Nat /\ MaxFaults \in Nat

VARIABLES
  conf,     \* the sinks that have their credentials
  msg,      \* where each message is
  tries,    \* how often it was handed out again
  inv,      \* the batches being drained
  fails,    \* consecutiveFailures of each isolate
  open,     \* breakerOpen of each isolate
  rows,     \* how often Tinybird holds each message
  paged,    \* how often LogSnag was paged with it
  mailed,   \* the messages whose email Resend has taken
  seen,     \* how often PostHog was sent it
  trouble,  \* history: messages whose own ack-owning sink call went wrong
  broken,   \* history: how many writes to Tinybird each isolate has seen fail
  blown,    \* history: some isolate has seen Threshold of them fail
  faults

sinks == <<rows, paged, mailed, seen>>
breaker == <<fails, open, broken, blown>>
vars == <<conf, msg, tries, inv, breaker, sinks, trouble, faults>>

\* A batch: its isolate, the fingerprints being written, the messages still to
\* dispatch, the one that is, at which sink, and what is owed to PostHog.
Slot == [on |-> None, log |-> {}, todo |-> {}, cur |-> None, at |-> "page",
         hog |-> {}, ack |-> {}, retry |-> {}]

Fault == faults < MaxFaults /\ faults' = faults + 1

Init ==
  /\ conf \in Confs
  /\ msg = [m \in Messages |-> "unsent"]
  /\ tries = [m \in Messages |-> 0]
  /\ inv = [b \in Batches |-> Slot]
  /\ fails = [i \in Isolates |-> 0] /\ broken = fails
  /\ open = [i \in Isolates |-> FALSE] /\ blown = FALSE
  /\ rows = [m \in Messages |-> 0] /\ paged = rows /\ seen = rows
  /\ mailed = {} /\ trouble = {}
  /\ faults = 0

---------------------------------------------------------------------------
(* The producer and the queue.                                              *)

Emit(m) ==
  /\ msg[m] = "unsent"
  /\ msg' = [msg EXCEPT ![m] = "queued"]
  /\ UNCHANGED <<conf, tries, inv, breaker, sinks, trouble, faults>>
\* send() rejects: emit() swallows it.
EmitFails(m) ==
  /\ Fault
  /\ msg[m] = "unsent"
  /\ msg' = [msg EXCEPT ![m] = "lost"]
  /\ UNCHANGED <<conf, tries, inv, breaker, sinks, trouble>>

\* The handler starts: up to its first await it splits the batch and, without a
\* token or with the breaker open, acks the fingerprints and forgets them.
Deliver(b, i) ==
  /\ inv[b].on = None
  /\ \E S \in SUBSET {m \in Messages : msg[m] = "queued"} :
       LET fp == S \cap Fingerprints
           write == "tinybird" \in conf /\ ~open[i]
       IN  /\ S # {} /\ Cardinality(S) <= MaxBatch
           /\ msg' = [m \in Messages |-> IF m \in S THEN "taken" ELSE msg[m]]
           /\ inv' = [inv EXCEPT ![b] = [Slot EXCEPT
                !.on = i, !.todo = S \ fp,
                !.log = IF write THEN fp ELSE {}, !.ack = IF write THEN {} ELSE fp,
                !.hog = IF "posthog" \in conf THEN S ELSE {}]]
  /\ UNCHANGED <<conf, tries, breaker, sinks, trouble, faults>>

\* max_retries, and no dead-letter queue.
RequeueUncounted(S, acked) ==
  /\ msg' = [m \in Messages |-> IF m \in S THEN "queued" ELSE IF m \in acked THEN "acked" ELSE msg[m]]
  /\ UNCHANGED tries
Requeue(S, acked) ==
  /\ msg' = [m \in Messages |->
       IF m \in S THEN IF tries[m] < MaxRetries THEN "queued" ELSE "dropped"
       ELSE IF m \in acked THEN "acked" ELSE msg[m]]
  /\ tries' = [m \in Messages |-> IF m \in S /\ tries[m] < MaxRetries THEN tries[m] + 1 ELSE tries[m]]

Return(b) ==
  /\ inv[b].on # None
  /\ inv[b].log = {} /\ inv[b].todo = {} /\ inv[b].cur = None /\ inv[b].hog = {}
  /\ Requeue(inv[b].retry, inv[b].ack)
  /\ inv' = [inv EXCEPT ![b] = Slot]
  /\ UNCHANGED <<conf, breaker, sinks, trouble, faults>>

Taken(b) == inv[b].log \cup inv[b].todo \cup ({inv[b].cur} \ {None}) \cup inv[b].ack \cup inv[b].retry

\* The isolate dies with all its batches, their acks, and its breaker.
Die(i) ==
  /\ Fault
  /\ LET mine == {b \in Batches : inv[b].on = i}
         lost == UNION {Taken(b) : b \in mine}
     IN  /\ mine # {}
         /\ Requeue(lost, {})
         /\ inv' = [b \in Batches |-> IF b \in mine THEN Slot ELSE inv[b]]
         /\ trouble' = trouble \cup lost
  /\ fails' = [fails EXCEPT ![i] = 0]
  /\ open' = [open EXCEPT ![i] = FALSE]
  /\ broken' = [broken EXCEPT ![i] = 0]
  /\ UNCHANGED <<conf, blown, sinks>>

---------------------------------------------------------------------------
(* drainQueryLog: one call to Tinybird for the fingerprints of the batch,   *)
(* and all of them acked or all retried.                                    *)

Count(f, S) == [m \in Messages |-> IF m \in S THEN f[m] + 1 ELSE f[m]]

WriteOk(b) ==
  /\ inv[b].log # {}
  /\ rows' = Count(rows, inv[b].log)
  /\ fails' = [fails EXCEPT ![inv[b].on] = 0]
  /\ inv' = [inv EXCEPT ![b].log = {}, ![b].ack = @ \cup inv[b].log]
  /\ UNCHANGED <<conf, msg, tries, open, broken, blown, paged, mailed, seen, trouble, faults>>

WriteThrewAndAcks(b) ==
  LET i == inv[b].on
  IN  /\ fails' = [fails EXCEPT ![i] = @ + 1]
      /\ broken' = [broken EXCEPT ![i] = @ + 1]
      /\ blown' = (blown \/ broken'[i] >= Threshold)
      /\ open' = [open EXCEPT ![i] = @ \/ fails'[i] >= Threshold]
      /\ trouble' = trouble \cup inv[b].log
      /\ inv' = [inv EXCEPT ![b].log = {}, ![b].ack = @ \cup inv[b].log]
WriteThrew(b) ==
  LET i == inv[b].on
  IN  /\ fails' = [fails EXCEPT ![i] = @ + 1]
      /\ broken' = [broken EXCEPT ![i] = @ + 1]
      /\ blown' = (blown \/ broken'[i] >= Threshold)
      /\ open' = [open EXCEPT ![i] = @ \/ fails'[i] >= Threshold]
      /\ trouble' = trouble \cup inv[b].log
      /\ inv' = [inv EXCEPT ![b].log = {}, ![b].retry = @ \cup inv[b].log]

WriteFails(b) ==
  /\ inv[b].log # {}
  /\ WriteThrew(b)
  /\ UNCHANGED <<conf, msg, tries, sinks, faults>>
WriteAnswerLost(b) ==
  /\ Fault
  /\ inv[b].log # {}
  /\ rows' = Count(rows, inv[b].log)
  /\ WriteThrew(b)
  /\ UNCHANGED <<conf, msg, tries, paged, mailed, seen>>

---------------------------------------------------------------------------
(* drainToSinks: one message after the other.                               *)

Acked(r, m) == [r EXCEPT !.cur = None, !.at = "page", !.ack = @ \cup {m}]
Retried(r, m) == [r EXCEPT !.cur = None, !.at = "page", !.retry = @ \cup {m}]

\* Without LogSnag the message is acked once the email has had its turn.
ToLogSnag(r, m) ==
  IF "logsnag" \in conf THEN [r EXCEPT !.cur = m, !.at = "page"] ELSE Acked(r, m)

Dispatch(b) ==
  /\ inv[b].cur = None
  /\ \E m \in inv[b].todo :
       LET r == [inv[b] EXCEPT !.todo = @ \ {m}]
       IN  inv' = [inv EXCEPT ![b] = IF m \in Payments /\ "resend" \in conf
                                       THEN [r EXCEPT !.cur = m, !.at = "mail"]
                                       ELSE ToLogSnag(r, m)]
  /\ UNCHANGED <<conf, msg, tries, breaker, sinks, trouble, faults>>

At(b, sink) == inv[b].cur # None /\ inv[b].at = sink

\* maybeSendDunningEmail never throws; Resend takes one per idempotency key.
Mail(b) ==
  /\ At(b, "mail")
  /\ mailed' = mailed \cup {inv[b].cur}
  /\ inv' = [inv EXCEPT ![b] = ToLogSnag(@, inv[b].cur)]
  /\ UNCHANGED <<conf, msg, tries, breaker, rows, paged, seen, trouble, faults>>
MailFailsAndThrows(b) ==
  /\ At(b, "mail")
  /\ inv' = [inv EXCEPT ![b] = Retried(@, inv[b].cur)]
  /\ UNCHANGED <<conf, msg, tries, breaker, sinks, trouble, faults>>
MailFails(b) ==
  /\ At(b, "mail")
  /\ inv' = [inv EXCEPT ![b] = ToLogSnag(@, inv[b].cur)]
  /\ UNCHANGED <<conf, msg, tries, breaker, sinks, trouble, faults>>

Page(b) ==
  /\ At(b, "page")
  /\ paged' = Count(paged, {inv[b].cur})
  /\ inv' = [inv EXCEPT ![b] = Acked(@, inv[b].cur)]
  /\ UNCHANGED <<conf, msg, tries, breaker, rows, mailed, seen, trouble, faults>>
PageFails(b) ==
  /\ At(b, "page")
  /\ trouble' = trouble \cup {inv[b].cur}
  /\ inv' = [inv EXCEPT ![b] = Retried(@, inv[b].cur)]
  /\ UNCHANGED <<conf, msg, tries, breaker, sinks, faults>>
PageAnswerLost(b) ==
  /\ Fault
  /\ At(b, "page")
  /\ paged' = Count(paged, {inv[b].cur})
  /\ trouble' = trouble \cup {inv[b].cur}
  /\ inv' = [inv EXCEPT ![b] = Retried(@, inv[b].cur)]
  /\ UNCHANGED <<conf, msg, tries, breaker, rows, mailed, seen>>

---------------------------------------------------------------------------
(* drainToPostHog: one call, whose failure nobody hears of.                 *)

CaptureFailsAndRetries(b) ==
  /\ inv[b].hog # {}
  /\ inv' = [inv EXCEPT ![b].hog = {}, ![b].retry = @ \cup inv[b].hog]
  /\ UNCHANGED <<conf, msg, tries, breaker, sinks, trouble, faults>>
Capture(b) ==
  /\ inv[b].hog # {}
  /\ seen' = Count(seen, inv[b].hog)
  /\ inv' = [inv EXCEPT ![b].hog = {}]
  /\ UNCHANGED <<conf, msg, tries, breaker, rows, paged, mailed, trouble, faults>>
CaptureFails(b) ==
  /\ inv[b].hog # {}
  /\ inv' = [inv EXCEPT ![b].hog = {}]
  /\ UNCHANGED <<conf, msg, tries, breaker, sinks, trouble, faults>>

Handle(b) ==
  \/ WriteOk(b) \/ WriteFails(b) \/ WriteAnswerLost(b)
  \/ Dispatch(b) \/ Mail(b) \/ MailFails(b) \/ Page(b) \/ PageFails(b) \/ PageAnswerLost(b)
  \/ Capture(b) \/ CaptureFails(b)
  \/ Return(b)

Next ==
  \/ \E m \in Messages : Emit(m) \/ EmitFails(m)
  \/ \E b \in Batches : Handle(b) \/ \E i \in Isolates : Deliver(b, i)
  \/ \E i \in Isolates : Die(i)

Spec == Init /\ [][Next]_vars

---------------------------------------------------------------------------
(* Properties                                                               *)

TypeOK ==
  /\ conf \in Confs
  /\ msg \in [Messages -> {"unsent", "lost", "queued", "taken", "acked", "dropped"}]
  /\ tries \in [Messages -> 0..MaxRetries]
  /\ inv \in [Batches -> [on : Isolates \cup {None}, log : SUBSET Fingerprints,
                          todo : SUBSET (Alerts \cup Payments),
                          cur : Alerts \cup Payments \cup {None}, at : {"page", "mail"},
                          hog : SUBSET Messages, ack : SUBSET Messages, retry : SUBSET Messages]]
  /\ fails \in [Isolates -> Nat] /\ broken \in [Isolates -> Nat]
  /\ open \in [Isolates -> BOOLEAN] /\ blown \in BOOLEAN
  /\ rows \in [Messages -> 0..MaxRetries + 1]
  /\ paged \in [Messages -> 0..MaxRetries + 1]
  /\ seen \in [Messages -> 0..MaxRetries + 1]
  /\ mailed \in SUBSET Payments
  /\ trouble \in SUBSET Messages
  /\ faults \in 0..MaxFaults

\* A batch decides each of its messages once, and never loses one: what is taken
\* is in exactly one batch and, when its drains are through, acked or retried.
EveryMessageIsAccountedFor ==
  /\ \A m \in Messages : msg[m] = "taken" <=> \E b \in Batches : m \in Taken(b)
  /\ \A b, c \in Batches : b # c => Taken(b) \cap Taken(c) = {}
  /\ \A b \in Batches : inv[b].ack \cap inv[b].retry = {}

\* An acked message has reached the sink that owns its ack, unless that sink is
\* not configured or an isolate has seen Threshold writes to Tinybird fail.
AckedMeansDelivered ==
  \A m \in Messages : msg[m] = "acked" =>
    IF m \in Fingerprints THEN rows[m] > 0 \/ "tinybird" \notin conf \/ blown
                          ELSE paged[m] > 0 \/ "logsnag" \notin conf

\* Nothing is handed out again, and so no sink is called twice for a message,
\* unless the sink that owns its ack failed or the isolate died: an outage of
\* PostHog or Resend re-drives nothing.
OnlyTheOwningSinkRedrives ==
  \A m \in Messages : m \notin trouble =>
    tries[m] = 0 /\ msg[m] # "dropped" /\ rows[m] <= 1 /\ paged[m] <= 1 /\ seen[m] <= 1

\* query-log.ts: "the breaker resets on the first successful write": an open breaker
\* has seen no write succeed since the failures that opened it.
BreakerResetsOnSuccess ==
  \A i \in Isolates : open[i] => fails[i] > 0
=============================================================================
