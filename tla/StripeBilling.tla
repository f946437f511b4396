--------------------------- MODULE StripeBilling ---------------------------
(***************************************************************************)
(* The subscription of one user as three parties see it: Stripe, which     *)
(* owns it and sends webhooks in no promised order and more than once; the *)
(* webhook handler (stripe/webhook.ts), several invocations of which run   *)
(* at a time, each a sequence of D1 statements; and the checkout route,    *)
(* which reads the D1 row those invocations write before it lets the user  *)
(* start another subscription.                                             *)
(*                                                                         *)
(* An event is its position in `sent`.  A Stripe customer is named after   *)
(* the subscription whose checkout minted it.  Price, period end and       *)
(* cancel_at_period_end travel with `status` in one UPDATE and stay with   *)
(* it.  Every subscription comes from the checkout route, so its metadata  *)
(* carries the user.                                                       *)
(*                                                                         *)
(* An operator that no other uses, standing before the one it varies, is   *)
(* that one with a plausible bug in it.                                    *)
(***************************************************************************)
EXTENDS Integers, Sequences, FiniteSets

CONSTANTS
  Subs,          \* subscriptions, in the order their checkouts are opened: 1..n
  Invocations,   \* webhook invocations that can run at a time
  MaxEvents,     \* bound on events Stripe sends
  MaxFaults      \* bound on failed statements, dead isolates and lost messages

ASSUME SubsAssumption == Subs \subseteq Nat \ {0} /\ IsFiniteSet(Subs)
ASSUME BoundsAssumption == MaxEvents \in Nat \ {0} /\ MaxFaults \in Nat

VARIABLES
  session,   \* Stripe: the checkout session of each subscription
  sub,       \* Stripe: the subscription, status and customer
  sent,      \* Stripe: the events so far
  row,       \* D1: the user's row of `customers`
  inbox,     \* D1: stripe_events, by event
  inv,       \* the webhook invocations
  queued,    \* messages put on the events queue, by event
  applied,   \* history: events whose handler has decided what the row gets
  ordered,   \* history: subscription events were applied as they were sent
  doubled,   \* history: a checkout opened beside one the server could not see
  faults     \* faults so far

stripe == <<session, sub, sent>>
d1 == <<row, inbox>>
history == <<applied, ordered, doubled>>
vars == <<stripe, d1, inv, queued, history, faults>>

NoRow == [cust |-> 0, sub |-> 0, status |-> "none", converted |-> 0]
Idle == [pc |-> "idle", ev |-> 0]
SubscriptionKinds == {"created", "updated", "deleted"}
Terminal == {"none", "canceled", "incomplete_expired"}
Live == {s \in Subs : sub[s].status \notin Terminal}
Fault == faults < MaxFaults /\ faults' = faults + 1

Init ==
  /\ session = [s \in Subs |-> "none"]
  /\ sub = [s \in Subs |-> [status |-> "none", cust |-> 0]]
  /\ sent = <<>>
  /\ row = NoRow
  /\ inbox = [e \in 1..MaxEvents |-> "absent"]
  /\ inv = [i \in Invocations |-> Idle]
  /\ queued = [e \in 1..MaxEvents |-> 0]
  /\ applied = {} /\ ordered = TRUE /\ doubled = FALSE
  /\ faults = 0

---------------------------------------------------------------------------
(* The checkout route.  Between its read of the row and the moment the user *)
(* pays nothing happens at Stripe that anyone sees, so opening is one step. *)

CHECKOUT_REOPEN_STATUSES == {"canceled", "incomplete_expired"}
OnlyActiveBlocks(r) == r.status \in {"active", "trialing"}
blocksNewCheckout(r) == r # NoRow /\ r.status \notin CHECKOUT_REOPEN_STATUSES

\* Is a checkout under way that no event has told D1 of?
Unseen ==
  \E t \in Subs : \/ session[t] = "open"
                  \/ /\ session[t] = "paid"
                     /\ \A e \in applied : sent[e].kind # "created" \/ sent[e].sub # t

\* SK-STRIPE-014: a row that survives the guard lends its Stripe customer.
CustomerFor(s) == IF row = NoRow THEN s ELSE row.cust

OpenCheckout(s) ==
  /\ session[s] = "none" /\ \A t \in Subs : t < s => session[t] # "none"
  /\ ~blocksNewCheckout(row)
  /\ session' = [session EXCEPT ![s] = "open"]
  /\ sub' = [sub EXCEPT ![s].cust = CustomerFor(s)]
  /\ doubled' = (doubled \/ Unseen)
  /\ UNCHANGED <<sent, d1, inv, queued, applied, ordered, faults>>

---------------------------------------------------------------------------
(* Stripe (external): sessions end, subscriptions live, events are sent.    *)

Event(kind, s, status) == [kind |-> kind, sub |-> s, status |-> status]

Send(events) ==
  /\ Len(sent) + Len(events) <= MaxEvents
  /\ sent' = sent \o events

ExpireSession(s) ==
  /\ session[s] = "open"
  /\ session' = [session EXCEPT ![s] = "expired"]
  /\ UNCHANGED <<sub, sent, d1, inv, queued, history, faults>>

Pay(s) ==
  /\ session[s] = "open"
  /\ session' = [session EXCEPT ![s] = "paid"]
  /\ \E status \in {"incomplete", "active"} :
       /\ sub' = [sub EXCEPT ![s].status = status]
       /\ Send(<<Event("created", s, status), Event("checkout", s, status)>>)
  /\ UNCHANGED <<d1, inv, queued, history, faults>>

Moves == {<<"incomplete", "active">>, <<"incomplete", "incomplete_expired">>,
          <<"active", "past_due">>, <<"past_due", "active">>}

Update(s) ==
  /\ \E m \in Moves :
       /\ sub[s].status = m[1]
       /\ sub' = [sub EXCEPT ![s].status = m[2]]
       /\ Send(<<Event("updated", s, m[2])>> \o
               (IF m[2] = "past_due" THEN <<Event("payment_failed", s, m[2])>> ELSE <<>>))
  /\ UNCHANGED <<session, d1, inv, queued, history, faults>>

Cancel(s) ==
  /\ sub[s].status \in {"active", "past_due"}
  /\ sub' = [sub EXCEPT ![s].status = "canceled"]
  /\ Send(<<Event("deleted", s, "canceled")>>)
  /\ UNCHANGED <<session, d1, inv, queued, history, faults>>

---------------------------------------------------------------------------
(* processWebhook.                                                          *)

ev(i) == sent[inv[i].ev]
Goto(i, l) == inv' = [inv EXCEPT ![i].pc = l]
Answer(i) == inv' = [inv EXCEPT ![i] = Idle]

\* What happens to the row is decided: note it, and whether it was in order.
Apply(i) ==
  /\ applied' = applied \cup {inv[i].ev}
  /\ ordered' = (ordered /\ (ev(i).kind \in SubscriptionKinds =>
                   \A e \in 1..(inv[i].ev - 1) : sent[e].kind \in SubscriptionKinds => e \in applied))
  /\ UNCHANGED doubled

\* A verified event arrives, and INSERT INTO stripe_events ... ON CONFLICT DO NOTHING
\* RETURNING tells whether for the first time.  One that was seen before is answered
\* 200 and touches nothing, whatever became of it; an insert that fails answers 500
\* and leaves no trace: Stripe delivers again.
Dispatch(i, e) ==
  inv' = [inv EXCEPT ![i] = [pc |-> IF sent[e].kind = "checkout" THEN "link" ELSE "lookup", ev |-> e]]

ReceiveAlways(i) ==
  /\ inv[i].pc = "idle"
  /\ \E e \in 1..Len(sent) :
       /\ inbox' = [inbox EXCEPT ![e] = IF @ = "absent" THEN "recorded" ELSE @]
       /\ Dispatch(i, e)
  /\ UNCHANGED <<stripe, row, queued, history, faults>>
Receive(i) ==
  /\ inv[i].pc = "idle"
  /\ \E e \in 1..Len(sent) :
       /\ inbox[e] = "absent"
       /\ inbox' = [inbox EXCEPT ![e] = "recorded"]
       /\ Dispatch(i, e)
  /\ UNCHANGED <<stripe, row, queued, history, faults>>

\* lookupUserByCustomer, and what each handler does when it finds nobody.
Found(i) == row # NoRow /\ row.cust = sub[ev(i).sub].cust

LookupFinds(i) ==
  /\ inv[i].pc = "lookup" /\ Found(i)
  /\ Goto(i, CASE ev(i).kind \in {"created", "updated"} -> "sync"
               [] ev(i).kind = "deleted" -> "cancel"
               [] ev(i).kind = "payment_failed" -> "emit")
  /\ IF ev(i).kind = "payment_failed" THEN Apply(i) ELSE UNCHANGED history
  /\ UNCHANGED <<stripe, d1, queued, faults>>

LookupMisses(i) ==
  /\ inv[i].pc = "lookup" /\ ~Found(i)
  /\ IF ev(i).kind = "created"
       THEN Goto(i, "link") /\ UNCHANGED history
       ELSE Goto(i, "mark") /\ Apply(i)
  /\ UNCHANGED <<stripe, d1, queued, faults>>

\* upsertCustomerLink: a row that exists keeps its status.
Linked(i, status, converted) ==
  [cust |-> sub[ev(i).sub].cust, sub |-> ev(i).sub, status |-> status, converted |-> converted]

AfterLink(i) ==
  /\ IF ev(i).kind = "checkout" THEN Goto(i, "mark") /\ Apply(i)
                                ELSE Goto(i, "sync") /\ UNCHANGED history
  /\ UNCHANGED <<stripe, inbox, queued, faults>>

LinkFromScratch(i) ==
  /\ inv[i].pc = "link"
  /\ row' = Linked(i, "incomplete", row.converted)
  /\ AfterLink(i)
Link(i) ==
  /\ inv[i].pc = "link"
  /\ row' = Linked(i, IF row = NoRow THEN "incomplete" ELSE row.status, row.converted)
  /\ AfterLink(i)

\* syncSubscriptionFields: the event's snapshot, and converted_at the first time.
AfterSync(i) ==
  /\ Goto(i, IF ev(i).kind = "created" THEN "emit" ELSE "mark")
  /\ Apply(i)
  /\ UNCHANGED <<stripe, inbox, queued, faults>>

Sync(i) ==
  /\ inv[i].pc = "sync"
  /\ row' = [row EXCEPT !.sub = ev(i).sub, !.status = ev(i).status,
                        !.converted = IF ev(i).status = "active" /\ @ = 0 THEN inv[i].ev ELSE @]
  /\ AfterSync(i)

\* handleSubscriptionDeleted: whichever subscription the row is on.
MarkCanceled(i) ==
  /\ inv[i].pc = "cancel"
  /\ row' = [row EXCEPT !.status = "canceled"]
  /\ Goto(i, "emit") /\ Apply(i)
  /\ UNCHANGED <<stripe, inbox, queued, faults>>

\* emit() swallows the failure of queue.send.
Emit(i) ==
  /\ inv[i].pc = "emit"
  /\ Goto(i, "mark")
  /\ queued' = [queued EXCEPT ![inv[i].ev] = @ + 1]
  /\ UNCHANGED <<stripe, d1, history, faults>>

EmitFails(i) ==
  /\ Fault
  /\ inv[i].pc = "emit"
  /\ Goto(i, "mark")
  /\ UNCHANGED <<stripe, d1, queued, history>>

Mark(i) ==
  /\ inv[i].pc = "mark"
  /\ inbox' = [inbox EXCEPT ![inv[i].ev] = "processed"]
  /\ Answer(i)
  /\ UNCHANGED <<stripe, row, queued, history, faults>>

\* A statement after the insert fails, or the isolate dies: 200 or no answer, and
\* processed_at stays NULL.
Break(i) ==
  /\ Fault
  /\ inv[i].pc # "idle"
  /\ Answer(i)
  /\ UNCHANGED <<stripe, d1, queued, history>>

---------------------------------------------------------------------------
StripeStep(s) == OpenCheckout(s) \/ ExpireSession(s) \/ Pay(s) \/ Update(s) \/ Cancel(s)

Webhook(i) ==
  \/ Receive(i) \/ LookupFinds(i) \/ LookupMisses(i) \/ Link(i) \/ Sync(i)
  \/ MarkCanceled(i) \/ Emit(i) \/ EmitFails(i) \/ Mark(i) \/ Break(i)

Next == (\E s \in Subs : StripeStep(s)) \/ (\E i \in Invocations : Webhook(i))

Spec == Init /\ [][Next]_vars

---------------------------------------------------------------------------
Statuses == {"none", "incomplete", "active", "past_due", "canceled", "incomplete_expired"}
Customers == Subs \cup {0}

TypeOK ==
  /\ session \in [Subs -> {"none", "open", "expired", "paid"}]
  /\ sub \in [Subs -> [status : Statuses, cust : Customers]]
  /\ Len(sent) <= MaxEvents
  /\ \A e \in 1..Len(sent) :
       sent[e] \in [kind : SubscriptionKinds \cup {"checkout", "payment_failed"},
                    sub : Subs, status : Statuses]
  /\ row \in [cust : Customers, sub : Customers, status : Statuses, converted : 0..MaxEvents]
  /\ inbox \in [1..MaxEvents -> {"absent", "recorded", "processed"}]
  /\ inv \in [Invocations -> [pc : {"idle", "lookup", "link", "sync", "cancel", "emit", "mark"},
                              ev : 0..Len(sent)]]
  /\ queued \in [1..MaxEvents -> 0..1]
  /\ applied \subseteq 1..Len(sent)
  /\ ordered \in BOOLEAN /\ doubled \in BOOLEAN
  /\ faults \in 0..MaxFaults

\* All that was sent has been handled, and nothing failed on the way.
Settled == faults = 0 /\ applied = 1..Len(sent) /\ \A i \in Invocations : inv[i].pc = "idle"

Latest == CHOOSE s \in Subs : sub[s].status # "none" /\ \A t \in Subs : sub[t].status # "none" => t <= s

\* However often an event is delivered, and however many invocations hold it at
\* once, its handler acts for one of them: one message on the queue, and no mark
\* of success before the handler has run.  And each event recorded but never
\* handled, which no later delivery revives, is one that a handler failed on
\* (SK-STRIPE-002).
EventsActOnce ==
  /\ \A e \in 1..Len(sent) : queued[e] <= 1 /\ (inbox[e] = "processed" => e \in applied)
  /\ \A i, j \in Invocations :
       i # j /\ inv[i].pc # "idle" /\ inv[j].pc # "idle" => inv[i].ev # inv[j].ev
  /\ Cardinality({e \in 1..Len(sent) : inbox[e] = "recorded" /\ \A i \in Invocations : inv[i].ev # e})
       <= faults

\* When all is handled, a live subscription has its Stripe customer in the row, so
\* that its next event finds the user, in whatever order the events came and after
\* a cancellation and a second checkout too.  If subscription events came as they
\* were sent, the row says Stripe's status, wherever among them or after them
\* checkout.session.completed arrived, and converted_at is that of the first
\* paying one (SK-STRIPE-012, SK-STRIPE-014, SK-GTM-009).
SettledEventsConverge ==
  Settled /\ ~doubled =>
    /\ \A s \in Live : row.cust = sub[s].cust
    /\ ordered =>
         LET Paying == {e \in 1..Len(sent) : /\ sent[e].kind \in {"created", "updated"}
                                             /\ sent[e].status = "active"}
         IN  /\ sent # <<>> => row.status = sub[Latest].status
             /\ IF Paying = {} THEN row.converted = 0
                ELSE row.converted \in Paying /\ \A e \in Paying : row.converted <= e

\* Two subscriptions are live at once only if a checkout was opened beside one
\* that no event had told the server of (SK-STRIPE-010).
ParallelNeedsAnUnseenCheckout ==
  faults = 0 /\ ordered /\ ~doubled => Cardinality(Live) <= 1

\* SK-STRIPE-012: "the webhook pipeline is order-independent"; and so, when all is
\* handled, the row says how the latest subscription is, in whatever order its
\* events came.
StatusInAnyOrder ==
  Settled /\ ~doubled /\ sent # <<>> => row.status = sub[Latest].status
===========================================================================
