--------------------------- MODULE PremiumMeter ---------------------------
(***************************************************************************)
(* The hosted-premium meter of apps/api/src/billing/premium for ONE        *)
(* customer: the lane decision made before an LLM dispatch, the allowance  *)
(* settled after it, and the overage report that runs in waitUntil once    *)
(* the response has shipped.  Every D1 statement, every Stripe call is a   *)
(* step of its own, so concurrent /v1/ask requests interleave wherever the *)
(* code awaits; an isolate may be evicted between any two of them.         *)
(*                                                                         *)
(* A query's price is abstracted to `rate` cents for each allowance slot   *)
(* it consumes, so costCents * (overageSlots / slots) is rate * overage.   *)
(*                                                                         *)
(* Beside an operator stands, now and then, a faulty variant of it (another *)
(* cap test, an unkeyed create ...): no action uses one.  A property is     *)
(* worth its name only if TLC refutes it with the variant in place, and     *)
(* PROJECT.json pairs them.                                                 *)
(***************************************************************************)
EXTENDS Integers, FiniteSets, Functions

CONSTANTS
  Dispatches,    \* ids of the premium-eligible /v1/ask requests
  Tiers,         \* paid plans the customer may be on
  Subscriptions, \* Stripe subscriptions the customer may have
  NoSubscription,
  Allowance,     \* INCLUDED_ALLOWANCE: slots included in a period, by tier
  MaxPeriod,     \* bound on the billing periods
  MaxSlots,      \* bound on the slots of one query
  Rates,         \* prices of a slot, in cents
  CapCents,      \* DEFAULT_CAP_USD_CENTS
  MaxInFlight,   \* bound on requests in flight at once
  MaxFaults      \* bound on the D1 and Stripe calls that fail, isolates that die

ASSUME DispatchesAssumption == IsFiniteSet(Dispatches)
ASSUME TiersAssumption == Tiers # {} /\ Allowance \in [Tiers -> Nat]
ASSUME SubscriptionsAssumption == NoSubscription \notin Subscriptions
ASSUME BoundsAssumption ==
  /\ MaxPeriod \in Nat \ {0}
  /\ MaxSlots \in Nat \ {0}
  /\ MaxInFlight \in Nat \ {0}
ASSUME PriceAssumption == Rates \subseteq Nat \ {0} /\ CapCents \in Nat
ASSUME FaultsAssumption == MaxFaults \in Nat

VARIABLES
  boundary,   \* customers.current_period_end, as last read
  period,     \* premium_allowance_period, by period_start
  ledger,     \* premium_meter_events, by dispatch
  meter,      \* Stripe's billing meter: cents accepted, by event identifier
  items,      \* metered overage items: their subscription and idempotency key
  req,        \* the requests
  handedOut,  \* history: overage slots settlements have returned, by period
  faults      \* faults so far

vars == <<boundary, period, ledger, meter, items, req, handedOut, faults>>

Periods == 1..MaxPeriod
Policies == {"meter", "fallback"}
NoRow == [open |-> FALSE, total |-> 0, consumed |-> 0, spent |-> 0]
NoEvent == [status |-> "none", period |-> 1, cents |-> 0]
\* The idempotency key of the create: subscription and price, nothing of the
\* request.
ItemKeyPerDispatch(d) == d
ItemKey(d) == "subscription:price"
ItemKeys == {ItemKey(d) : d \in Dispatches}

Max0(n) == IF n > 0 THEN n ELSE 0

InFlight == {d \in Dispatches : req[d].pc \notin {"idle", "done", "dead"}}
Fault == faults < MaxFaults /\ faults' = faults + 1
Goto(d, l) == req' = [req EXCEPT ![d].pc = l]

Init ==
  /\ boundary = 1
  /\ period = [p \in Periods |-> NoRow]
  /\ ledger = [d \in Dispatches |-> NoEvent]
  /\ meter = [d \in Dispatches |-> 0]
  /\ items = {}
  /\ req = [d \in Dispatches |->
              [pc |-> "idle", tier |-> CHOOSE t \in Tiers : TRUE, period |-> 1, policy |-> "meter",
               remaining |-> 0, reason |-> "none", slots |-> 0, rate |-> 0, over |-> 0,
               sub |-> NoSubscription]]
  /\ handedOut = [p \in Periods |-> 0]
  /\ faults = 0

---------------------------------------------------------------------------
(* Before the dispatch: three D1 reads, then the lane.                     *)

\* resolvePremiumEligibility over the customers JOIN user row.  Nothing else
\* reads that row, so what the Stripe webhook and the dashboard have done to
\* it since the last request is chosen here: any plan, any overflow policy,
\* and a period boundary that only ever advances.
ReadCustomer(d) ==
  /\ req[d].pc = "idle"
  /\ Cardinality(InFlight) < MaxInFlight
  /\ \E tier \in Tiers, policy \in Policies, p \in boundary..MaxPeriod :
       /\ boundary' = p
       /\ req' = [req EXCEPT ![d].pc = "allowance", ![d].tier = tier,
                             ![d].period = p, ![d].policy = policy]
  /\ UNCHANGED <<period, ledger, meter, items, handedOut, faults>>

\* A caller that is not 'active' runs on the free chain: no state of the
\* meter is read or written again.
Ineligible(d) ==
  /\ req[d].pc = "idle"
  /\ Cardinality(InFlight) < MaxInFlight
  /\ Goto(d, "done")
  /\ UNCHANGED <<boundary, period, ledger, meter, items, handedOut, faults>>

\* readAllowance: the total is the tier's constant, not the row's column.
Remaining(d) == Max0(Allowance[req[d].tier] - period[req[d].period].consumed)

ReadAllowance(d) ==
  /\ req[d].pc = "allowance"
  /\ req' = [req EXCEPT ![d].pc = "cap", ![d].remaining = Remaining(d)]
  /\ UNCHANGED <<boundary, period, ledger, meter, items, handedOut, faults>>

CapPassed(d) == period[req[d].period].spent > CapCents
CapExceeded(d) == period[req[d].period].spent >= CapCents

\* resolvePreDispatchLane
LaneReason(d) ==
  CASE CapExceeded(d)                -> "cap"
    [] ~CapExceeded(d) /\ req[d].remaining > 0 -> "allowance"
    [] ~CapExceeded(d) /\ req[d].remaining = 0 ->
         IF req[d].policy = "fallback" THEN "fallback" ELSE "meter"

DecideLane(d) ==
  /\ req[d].pc = "cap"
  /\ req' = [req EXCEPT ![d].reason = LaneReason(d),
                        ![d].pc = IF LaneReason(d) \in {"allowance", "meter"}
                                    THEN "dispatch" ELSE "done"]
  /\ UNCHANGED <<boundary, period, ledger, meter, items, handedOut, faults>>

\* The LLM call.  No billable tokens (a plan-cache hit, a fall-back to the
\* free chain, an ask that failed) settles nothing.
DispatchUnbilled(d) ==
  /\ req[d].pc = "dispatch"
  /\ Goto(d, "done")
  /\ UNCHANGED <<boundary, period, ledger, meter, items, handedOut, faults>>

Dispatch(d) ==
  /\ req[d].pc = "dispatch"
  /\ \E s \in 1..MaxSlots, c \in Rates :
       req' = [req EXCEPT ![d].pc = "settle", ![d].slots = s, ![d].rate = c]
  /\ UNCHANGED <<boundary, period, ledger, meter, items, handedOut, faults>>

---------------------------------------------------------------------------
(* settlePremiumQuery: one atomic D1 batch.                                *)

\* The INSERT ... ON CONFLICT DO NOTHING of the batch: the row keeps the
\* total of the tier that opened the period.
OpenRow(d) ==
  LET row == period[req[d].period]
  IN  IF row.open THEN row
                  ELSE [NoRow EXCEPT !.open = TRUE, !.total = Allowance[req[d].tier]]

SettledRow(d) == [OpenRow(d) EXCEPT !.consumed = @ + req[d].slots]

ExcessSinceOpened(d) == Max0(SettledRow(d).consumed - SettledRow(d).total)
ExcessUnclamped(d) == SettledRow(d).consumed - SettledRow(d).total
OverageSlots(d) ==
  Max0(SettledRow(d).consumed - SettledRow(d).total)
    - Max0(OpenRow(d).consumed - OpenRow(d).total)

Settle(d) ==
  /\ req[d].pc = "settle"
  /\ period' = [period EXCEPT ![req[d].period] = SettledRow(d)]
  /\ req' = [req EXCEPT ![d].over = OverageSlots(d),
                        ![d].pc = IF OverageSlots(d) > 0 THEN "ledger" ELSE "done"]
  /\ handedOut' = [handedOut EXCEPT ![req[d].period] = @ + OverageSlots(d)]
  /\ UNCHANGED <<boundary, ledger, meter, items, faults>>

\* The batch is refused, or commits and its answer is lost: either way the
\* catch returns null and the query is not metered.
SettleFails(d) ==
  /\ Fault
  /\ req[d].pc = "settle"
  /\ \/ UNCHANGED period
     \/ period' = [period EXCEPT ![req[d].period] = SettledRow(d)]
  /\ Goto(d, "done")
  /\ UNCHANGED <<boundary, ledger, meter, items, handedOut>>

---------------------------------------------------------------------------
(* reportPremiumOverage, in waitUntil.                                     *)

Cents(d) == req[d].rate * req[d].over

\* recordOverageLedger, first statement: INSERT ... ON CONFLICT DO NOTHING.
\* Only a first insert goes on.
InsertLedger(d) ==
  /\ req[d].pc = "ledger"
  /\ IF ledger[d].status = "none"
       THEN /\ ledger' = [ledger EXCEPT ![d] = [status |-> "pending",
                                                period |-> req[d].period,
                                                cents |-> Cents(d)]]
            /\ Goto(d, "spent")
       ELSE UNCHANGED ledger /\ Goto(d, "done")
  /\ UNCHANGED <<boundary, period, meter, items, handedOut, faults>>

\* recordOverageLedger, second statement.
BumpSpentByWholeQuery(d) ==
  /\ req[d].pc = "spent"
  /\ period' = [period EXCEPT ![req[d].period].spent = @ + req[d].rate * req[d].slots]
  /\ Goto(d, "item")
  /\ UNCHANGED <<boundary, ledger, meter, items, handedOut, faults>>
BumpSpent(d) ==
  /\ req[d].pc = "spent"
  /\ period' = [period EXCEPT ![req[d].period].spent = @ + ledger[d].cents]
  /\ Goto(d, "item")
  /\ UNCHANGED <<boundary, ledger, meter, items, handedOut, faults>>

\* ensurePremiumOverageItem returns before it asks Stripe when the deployment has
\* no overage price, which premiumConfigured does not require, or the customers
\* row names no subscription: nothing is attached and the event ships.
SkipItem(d) ==
  /\ req[d].pc = "item"
  /\ Goto(d, "report")
  /\ UNCHANGED <<boundary, period, ledger, meter, items, handedOut, faults>>

\* The subscription the row names now, which the webhook may have changed since
\* the last report, then ensureOverageItem: retrieve, then create.
RetrieveItem(d) ==
  /\ req[d].pc = "item"
  /\ \E s \in Subscriptions :
       req' = [req EXCEPT ![d].sub = s,
                          ![d].pc = IF \E i \in items : i.sub = s THEN "report" ELSE "create"]
  /\ UNCHANGED <<boundary, period, ledger, meter, items, handedOut, faults>>

\* The create carries an idempotency key, the same for every request: Stripe
\* answers a second one with the first one's item.
CreateItem(d) ==
  /\ req[d].pc = "create"
  /\ items' = items \cup {[sub |-> req[d].sub, key |-> ItemKey(d)]}
  /\ Goto(d, "report")
  /\ UNCHANGED <<boundary, period, ledger, meter, handedOut, faults>>

\* ensurePremiumOverageItem swallows every failure; the event still ships.
AttachFails(d) ==
  /\ Fault
  /\ req[d].pc \in {"item", "create"}
  /\ Goto(d, "report")
  /\ UNCHANGED <<boundary, period, ledger, meter, items, handedOut>>

\* reportMeterEvent: Stripe accepts the event once for each identifier.
Accept(d) == [meter EXCEPT ![d] = IF @ = 0 THEN ledger[d].cents ELSE @]

ReportEvent(d) ==
  /\ req[d].pc = "report"
  /\ meter' = Accept(d)
  /\ Goto(d, "mark")
  /\ UNCHANGED <<boundary, period, ledger, items, handedOut, faults>>

\* Stripe refuses the event, or takes it and the answer is lost.
ReportFailureSwallowed(d) ==
  /\ Fault
  /\ req[d].pc = "report"
  /\ meter' \in {meter, Accept(d)}
  /\ Goto(d, "mark")
  /\ UNCHANGED <<boundary, period, ledger, items, handedOut>>
ReportFails(d) ==
  /\ Fault
  /\ req[d].pc = "report"
  /\ meter' \in {meter, Accept(d)}
  /\ Goto(d, "error")
  /\ UNCHANGED <<boundary, period, ledger, items, handedOut>>

MarkReported(d) ==
  /\ req[d].pc = "mark"
  /\ ledger' = [ledger EXCEPT ![d].status = "reported"]
  /\ Goto(d, "done")
  /\ UNCHANGED <<boundary, period, meter, items, handedOut, faults>>

\* The UPDATE to 'reported' is inside the try: its failure marks the row
\* 'error' although Stripe has the event.
MarkFails(d) ==
  /\ Fault
  /\ req[d].pc = "mark"
  /\ Goto(d, "error")
  /\ UNCHANGED <<boundary, period, ledger, meter, items, handedOut>>

MarkError(d) ==
  /\ req[d].pc = "error"
  /\ ledger' = [ledger EXCEPT ![d].status = "error"]
  /\ Goto(d, "done")
  /\ UNCHANGED <<boundary, period, meter, items, handedOut, faults>>

\* A D1 statement no handler catches fails, or the isolate is evicted.
Die(d) ==
  /\ Fault
  /\ d \in InFlight
  /\ Goto(d, "dead")
  /\ UNCHANGED <<boundary, period, ledger, meter, items, handedOut>>

---------------------------------------------------------------------------
(* reconcilePremiumMeter reads: the rows never confirmed to Stripe, and     *)
(* computeDrift, the reported rows against Stripe's own sum.                *)

Rows(statuses) == {d \in Dispatches : ledger[d].status \in statuses}
Charges == [d \in Dispatches |-> ledger[d].cents]
LedgerCents(D) == SumFunctionOnSet(Charges, D)
StripeCents == SumFunctionOnSet(meter, Dispatches)

StuckCents == LedgerCents(Rows({"pending", "error"}))
Drift == LedgerCents(Rows({"reported"})) - StripeCents

---------------------------------------------------------------------------
Step(d) ==
  \/ ReadCustomer(d) \/ Ineligible(d) \/ ReadAllowance(d) \/ DecideLane(d)
  \/ DispatchUnbilled(d) \/ Dispatch(d)
  \/ Settle(d) \/ InsertLedger(d) \/ BumpSpent(d)
  \/ SkipItem(d) \/ RetrieveItem(d) \/ CreateItem(d) \/ ReportEvent(d)
  \/ MarkReported(d) \/ MarkError(d)

Fail(d) ==
  SettleFails(d) \/ AttachFails(d) \/ ReportFails(d) \/ MarkFails(d) \/ Die(d)

Next == \E d \in Dispatches : Step(d) \/ Fail(d)

Spec == Init /\ [][Next]_vars

---------------------------------------------------------------------------
Pcs == {"idle", "allowance", "cap", "dispatch", "settle", "ledger", "spent",
        "item", "create", "report", "mark", "error", "done", "dead"}

PeriodRow == [open : BOOLEAN, total : Nat, consumed : Nat, spent : Nat]
MeterEvent == [status : {"none", "pending", "reported", "error"},
               period : Periods, cents : Nat]
Request == [pc : Pcs, tier : Tiers, period : Periods, policy : Policies,
            remaining : Nat, reason : {"none", "allowance", "meter", "cap", "fallback"},
            slots : Nat, rate : Nat, over : Nat,
            sub : Subscriptions \cup {NoSubscription}]

TypeOK ==
  /\ boundary \in Periods
  /\ period \in [Periods -> PeriodRow]
  /\ ledger \in [Dispatches -> MeterEvent]
  /\ meter \in [Dispatches -> Nat]
  /\ items \subseteq [sub : Subscriptions \cup {NoSubscription}, key : ItemKeys]
  /\ req \in [Dispatches -> Request]
  /\ handedOut \in [Periods -> Nat]
  /\ faults \in 0..MaxFaults

\* However concurrent settlements interleave, the overage slots they hand out
\* in a period are the slots consumed past the row's total: none is counted
\* twice, and none is lost unless a settlement itself failed (consumeAllowance).
OverageExact ==
  \A p \in Periods :
    LET past == Max0(period[p].consumed - period[p].total)
    IN  handedOut[p] <= past /\ (faults = 0 => handedOut[p] = past)

\* Stripe never holds a charge the internal ledger does not hold for the same
\* number of cents, and a row says 'reported' only of a charge Stripe holds
\* (dispatch-after-insert, recordOverageLedger before reportMeterEvent).
LedgerAheadOfStripe ==
  \A d \in Dispatches :
    /\ meter[d] > 0 => ledger[d].status # "none" /\ meter[d] = ledger[d].cents
    /\ ledger[d].status = "reported" => meter[d] = ledger[d].cents

\* The spend cap is read long before it is written, so a period can end past
\* it, but by no more than one most expensive query for each request in flight.
CapOvershootBounded ==
  faults = 0 => \A p \in Periods, c \in Rates :
    (\A k \in Rates : k <= c) =>
      LedgerCents({d \in Rows({"pending", "reported"}) : ledger[d].period = p})
        < Max0(CapCents) + MaxInFlight * MaxSlots * c

\* The spend the cap is checked against never runs ahead of the ledger, and racing
\* first overages attach one metered item to a subscription, for a second one on the
\* same meter would bill the overage twice.  When no call has failed, the subscription
\* a report found for its charge has that item, so that the charge reaches an invoice
\* (a report that found no price or no subscription attaches nothing); and when nothing
\* is in flight either, spend and ledger agree, no row is stuck and reconciliation finds
\* no drift (recordOverageLedger, ensureOverageItem, reconcilePremiumMeter).
BooksBalance ==
  LET Due(p) == LedgerCents({d \in Rows({"pending", "reported", "error"}) : ledger[d].period = p})
  IN  /\ \A p \in Periods : period[p].spent <= Due(p)
      /\ \A s \in Subscriptions : Cardinality({i \in items : i.sub = s}) <= 1
      /\ faults = 0 => \A d \in Dispatches :
           meter[d] > 0 /\ req[d].sub # NoSubscription => \E i \in items : i.sub = req[d].sub
      /\ faults = 0 /\ InFlight = {} =>
           /\ \A p \in Periods : period[p].spent = Due(p)
           /\ StuckCents = 0 /\ Drift = 0

===========================================================================
