----------------------------- MODULE LlmRouter -----------------------------
(***************************************************************************)
(* Calls of language models.  One router per isolate walks the free chain  *)
(* of providers behind a breaker per provider that all requests share;     *)
(* some operations race the first two providers that are up, the second    *)
(* with a delay.  A paying ask has a premium router of its own, with one   *)
(* provider and no race, and falls back to the free router when it fails.  *)
(*                                                                         *)
(* JavaScript runs one thing at a time: a step here is what runs between   *)
(* two awaits.  Time is abstracted: an attempt ends when it ends, at the   *)
(* latest by its timeout, and the window of an open breaker ends at any    *)
(* moment.  No caller passes an abort signal and every provider of a chain *)
(* is registered, so those branches are left out.                          *)
(*                                                                         *)
(* An operator that no other uses, standing before the one it varies, is   *)
(* that one with a plausible bug in it.                                    *)
(***************************************************************************)
EXTENDS Integers, Sequences, FiniteSets, FiniteSetsExt

CONSTANTS
  FreeChain,   \* the providers of the free chain, in the order of their use
  Requests,    \* asks; each names its own premium provider too
  Paying,      \* those on the premium lane
  Threshold,   \* failureThreshold
  MaxOps       \* bound on the operations of each ask

Free == {FreeChain[i] : i \in 1..Len(FreeChain)}
Providers == Free \cup Requests

ASSUME ChainAssumption ==
  /\ FreeChain \in Seq(Free) /\ Len(FreeChain) > 0
  /\ \A i, j \in 1..Len(FreeChain) : FreeChain[i] = FreeChain[j] => i = j
  /\ Free \cap Requests = {} /\ Paying \subseteq Requests
ASSUME BoundsAssumption == Threshold \in Nat \ {0} /\ MaxOps \in [Requests -> Nat \ {0}]

VARIABLES
  breaker,  \* breakerState by provider: failures in a row (up to Threshold),
            \* open, and whether a 401 or 403 opened it
  req,      \* the asks
  calls,    \* history: calls of each provider in the current operation
  billed,   \* history: usage reports of the premium provider in it
  shut,     \* history: the providers that were parked at some step of it
  denied,   \* history: the asks whose premium credentials were refused
  bar,      \* history: the providers told to wait (429) or refused (401, 403)
            \* whose window is not over
  late,     \* history: the asks that had the provider in hand when it was barred
  lapsed,   \* history: the providers whose bar the result of such an ask has ended
  tripped   \* history: the providers whose breaker the abort of a lost race opened

hist == <<calls, billed, shut, denied, bar, lapsed, late, tripped>>
vars == <<breaker, req, hist>>

\* How an attempt ends: ok; network, 5xx or an error in the body; timeout, 4xx or
\* unknown; a 200 that is not the JSON asked for; 429; 401 or 403.
Outcomes == {"ok", "network", "timeout", "parse", "rate_limited", "auth_denied"}
\* TAIL_RETRY_REASONS.
TransientOrParse(why) == why \in {"network", "parse"}
Transient(why) == why = "network"
\* What the real providers make of the abort of a lost race: fetch rejects with
\* an AbortError, or with the reason of the abort, or the body does.  None of it
\* is an error that classifyError would call hedge_lost.
Aborted == {"network", "timeout", "parse"}

Closed == [n |-> 0, open |-> FALSE, denied |-> FALSE]
Idle == [pc |-> "idle", lane |-> "free",
         at |-> 0, second |-> 0, ra |-> "none", rb |-> "none", ops |-> 0]

Init ==
  /\ breaker = [p \in Providers |-> Closed]
  /\ req = [r \in Requests |-> Idle]
  /\ calls = [r \in Requests |-> [p \in Free \cup {r} |-> 0]]
  /\ billed = [r \in Requests |-> 0]
  /\ shut = [r \in Requests |-> {}]
  /\ denied = {} /\ bar = {} /\ lapsed = {} /\ tripped = {}
  /\ late = [p \in Providers |-> {}]

Chain(r, q) == IF q.lane = "premium" THEN <<r>> ELSE FreeChain

\* The ask has a call of p out, or will make one without looking at its breaker
\* again: the second of a pair, the retry of the last in the chain.
InHand(r, p) ==
  LET q == req[r]
  IN  \/ q.pc \in {"call", "backoff", "again", "head", "race"} /\ p = Chain(r, q)[q.at]
      \/ q.pc \in {"head", "race"} /\ p = FreeChain[q.second]

---------------------------------------------------------------------------
(* updateBreakerFromResult.                                                 *)

More(n) == IF n < Threshold THEN n + 1 ELSE n

UpdatedNameless(s, why) ==
  CASE why = "ok" -> Closed
    [] why = "parse" -> s
    [] why \in {"rate_limited", "auth_denied"} -> [n |-> More(s.n), open |-> TRUE, denied |-> FALSE]
    [] OTHER -> [n |-> More(s.n), open |-> More(s.n) >= Threshold, denied |-> FALSE]
Updated(s, why) ==
  CASE why = "ok" -> Closed
    [] why = "parse" -> s
    [] why = "rate_limited" -> [n |-> More(s.n), open |-> TRUE, denied |-> FALSE]
    [] why = "auth_denied" -> [n |-> More(s.n), open |-> TRUE, denied |-> TRUE]
    [] OTHER -> [n |-> More(s.n), open |-> More(s.n) >= Threshold, denied |-> FALSE]

\* The results of one or two calls of an ask, whose premium provider is r.
Landed(r, why, lost) ==
  /\ breaker' = [p \in Providers |->
       IF p \in DOMAIN why THEN Updated(breaker[p], why[p]) ELSE breaker[p]]
  /\ LET barring == {p \in DOMAIN why : why[p] \in {"rate_limited", "auth_denied"}}
     IN  /\ bar' = bar \cup barring
         /\ late' = [p \in Providers |->
              IF p \in barring THEN {x \in Requests \ {r} : InHand(x, p)} ELSE late[p] \ {r}]
         /\ lapsed' = (lapsed \cup {p \in bar \cap DOMAIN why : r \in late[p] /\ ~breaker'[p].open})
                        \ barring
         /\ denied' = IF r \in barring /\ why[r] = "auth_denied" THEN denied \cup {r} ELSE denied
         /\ tripped' = {p \in Free : breaker'[p].open /\ (breaker[p].open => p \in tripped)
                                      /\ (breaker[p].open \/ p \in lost)}

\* The window of a breaker is over: it is asked again, and on probation.  That of a
\* refused premium provider (30 minutes) outlasts the ask that the router is for.
Expire(p) ==
  /\ breaker[p].open \/ p \in bar
  /\ breaker' = [breaker EXCEPT ![p] = [@ EXCEPT !.open = FALSE, !.denied = FALSE]]
  /\ bar' = bar \ {p} /\ lapsed' = lapsed \ {p} /\ late' = [late EXCEPT ![p] = {}]
  /\ tripped' = tripped \ {p}
  /\ UNCHANGED <<req, calls, billed, shut, denied>>

---------------------------------------------------------------------------
(* dispatch.                                                                *)

Up(r, q, brk) == {i \in 1..Len(Chain(r, q)) : ~brk[Chain(r, q)[i]].open}

\* The end of a chain: the fallback router for a premium failure, unless it is
\* the credentials that were refused.
Exhausted(r, q, brk) ==
  [q EXCEPT !.pc = IF q.lane = "premium" /\ ~brk[r].denied THEN "fallback" ELSE "lost",
            !.at = 0, !.second = 0, !.ra = "none", !.rb = "none"]

\* The next provider from place i on whose breaker is closed.
Advance(r, q, i, brk) ==
  LET js == {j \in Up(r, q, brk) : j >= i}
  IN  IF js = {} THEN Exhausted(r, q, brk)
      ELSE [q EXCEPT !.pc = "call", !.at = Min(js), !.second = 0, !.ra = "none", !.rb = "none"]

EnterPairingBlindly(r, q, brk, hedged) ==
  LET up == Up(r, q, brk)
  IN  IF hedged /\ q.lane = "free" /\ up # {} /\ Min(up) < Len(FreeChain)
        THEN [q EXCEPT !.pc = "head", !.at = Min(up), !.second = Min(up) + 1]
        ELSE Advance(r, q, 1, brk)
Enter(r, q, brk, hedged) ==
  LET up == Up(r, q, brk)
  IN  IF hedged /\ q.lane = "free" /\ Cardinality(up) >= 2
        THEN [q EXCEPT !.pc = "head", !.at = Min(up), !.second = Min(up \ {Min(up)})]
        ELSE Advance(r, q, 1, brk)

Parked(q, brk) == {p \in Free : q.lane = "free" /\ brk[p].open}

\* Between operations.
Between(q, l) == [Idle EXCEPT !.pc = l, !.ops = q.ops]
Served(q) == Between(q, "ready")
NoCalls(r) == [p \in Free \cup {r} |-> 0]
Called(c, p) == [c EXCEPT ![p] = @ + 1]

\* The ask's state becomes q, a call or the end of the operation.
Become(r, q) ==
  /\ req' = [req EXCEPT ![r] = q]
  /\ calls' = [calls EXCEPT ![r] =
       CASE q.pc \in {"call", "head"} -> Called(@, Chain(r, q)[q.at])
         [] q.pc = "ready" -> NoCalls(r)
         [] OTHER -> @]
  /\ shut' = [shut EXCEPT ![r] = IF q.pc = "ready" THEN {} ELSE @ \cup Parked(q, breaker')]

Arrive(r) ==
  /\ req[r].pc = "idle"
  /\ req' = [req EXCEPT ![r].pc = "ready"]
  /\ UNCHANGED <<breaker, hist>>

\* route, plan, summarize and the rest: the next operation of the ask.
Dispatch(r) ==
  LET q == req[r]
  IN  /\ q.pc = "ready" /\ q.ops < MaxOps[r]
      /\ billed' = [billed EXCEPT ![r] = 0]
      /\ UNCHANGED <<breaker, denied, bar, lapsed, late, tripped>>
      /\ \E hedged \in BOOLEAN :
           Become(r, Enter(r, [q EXCEPT !.ops = @ + 1,
                                        !.lane = IF r \in Paying THEN "premium" ELSE "free"],
                           breaker, hedged))

\* withFallbackRouter: the same operation, on the free router.
Fallback(r) ==
  /\ req[r].pc = "fallback"
  /\ UNCHANGED <<breaker, billed, denied, bar, lapsed, late, tripped>>
  /\ \E hedged \in BOOLEAN :
       Become(r, Enter(r, [req[r] EXCEPT !.lane = "free"], breaker, hedged))

\* onUsage: a 200 with content reports its usage, before the content is parsed.
Bill(r, why) ==
  \E used \in BOOLEAN :
    /\ used => req[r].lane = "premium" /\ why \in {"ok", "parse"}
    /\ billed' = [billed EXCEPT ![r] = IF used THEN @ + 1 ELSE @]

\* The verdict on the provider at the ask's place in the chain.
SettleInPlace(r, why) ==
  LET q == req[r]  p == Chain(r, q)[q.at]
  IN  /\ Landed(r, [x \in {p} |-> why], {})
      /\ Become(r, IF why = "ok" THEN Served(q) ELSE Advance(r, q, q.at, breaker'))
Settle(r, why) ==
  LET q == req[r]  p == Chain(r, q)[q.at]
  IN  /\ Landed(r, [x \in {p} |-> why], {})
      /\ Become(r, IF why = "ok" THEN Served(q) ELSE Advance(r, q, q.at + 1, breaker'))

Answer(r) ==
  /\ req[r].pc = "call"
  /\ \E why \in Outcomes :
       /\ Bill(r, why)
       /\ IF req[r].at = Len(Chain(r, req[r])) /\ Transient(why)
            THEN /\ req' = [req EXCEPT ![r].pc = "backoff"]
                 /\ UNCHANGED <<breaker, calls, shut, denied, bar, lapsed, late, tripped>>
            ELSE Settle(r, why)

Retry(r) ==
  /\ req[r].pc = "backoff"
  /\ req' = [req EXCEPT ![r].pc = "again"]
  /\ calls' = [calls EXCEPT ![r] = Called(@, Chain(r, req[r])[req[r].at])]
  /\ UNCHANGED <<breaker, billed, shut, denied, bar, lapsed, late, tripped>>

AnswerAgainAndAgain(r) ==
  /\ req[r].pc = "again"
  /\ \E why \in Outcomes :
       /\ Bill(r, why)
       /\ IF Transient(why)
            THEN /\ req' = [req EXCEPT ![r].pc = "backoff"]
                 /\ UNCHANGED <<breaker, calls, shut, denied, bar, lapsed, late, tripped>>
            ELSE Settle(r, why)
AnswerAgain(r) ==
  /\ req[r].pc = "again"
  /\ \E why \in Outcomes : Bill(r, why) /\ Settle(r, why)

---------------------------------------------------------------------------
(* raceHedgedPair.                                                          *)

\* The first provider answers within the head start.
HeadAnswerSkipsThePair(r) ==
  /\ req[r].pc = "head"
  /\ \E why \in Outcomes :
       LET q == req[r]  p == FreeChain[q.at]
       IN  /\ Landed(r, [x \in {p} |-> why], {})
           /\ Become(r, IF why = "ok" THEN Served(q) ELSE Advance(r, q, q.second + 1, breaker'))
  /\ UNCHANGED billed
HeadAnswer(r) ==
  /\ req[r].pc = "head"
  /\ \E why \in Outcomes : Settle(r, why)
  /\ UNCHANGED billed

Hedge(r) ==
  /\ req[r].pc = "head"
  /\ req' = [req EXCEPT ![r].pc = "race"]
  /\ calls' = [calls EXCEPT ![r] = Called(@, FreeChain[req[r].second])]
  /\ UNCHANGED <<breaker, billed, shut, denied, bar, lapsed, late, tripped>>

\* One leg ends and the other is still out; an answer aborts the other.
FirstLeg(r) ==
  /\ req[r].pc = "race" /\ req[r].ra = "none" /\ req[r].rb = "none"
  /\ \E why \in Outcomes :
       req' \in {[req EXCEPT ![r].ra = why], [req EXCEPT ![r].rb = why]}
  /\ UNCHANGED <<breaker, hist>>

\* Both legs are in: both breakers, and the answer or the rest of the chain.
SecondLeg(r) ==
  LET q == req[r]
      a == FreeChain[q.at]  b == FreeChain[q.second]
      first == IF q.ra # "none" THEN q.ra ELSE q.rb
      other == IF q.ra # "none" THEN b ELSE a
  IN  /\ q.pc = "race" /\ first # "none"
      /\ \E why \in Outcomes :
           LET w == [x \in {a, b} |-> IF x = other THEN why ELSE first]
           IN  /\ first = "ok" => why \in Aborted \cup {"ok"}
               /\ Landed(r, w, IF first = "ok" /\ why \in Aborted THEN {other} ELSE {})
               /\ Become(r, IF "ok" \in {first, why} THEN Served(q)
                            ELSE Advance(r, q, q.second + 1, breaker'))
      /\ UNCHANGED billed

---------------------------------------------------------------------------
\* An operation has failed: the ask may end (Finish) or go on (a stage is retried,
\* a summary left out).
Fail(r) ==
  /\ req[r].pc = "lost"
  /\ UNCHANGED <<breaker, billed, denied, bar, lapsed, late, tripped>>
  /\ Become(r, Between(req[r], "ready"))

\* The ask is over, and its premium router with it.
Finish(r) ==
  /\ req[r].pc = "ready" /\ req[r].ops > 0
  /\ req' = [req EXCEPT ![r] = [Idle EXCEPT !.pc = "ended"]]
  /\ breaker' = [breaker EXCEPT ![r] = Closed]
  /\ billed' = [billed EXCEPT ![r] = 0]
  /\ denied' = denied \ {r} /\ bar' = bar \ {r} /\ lapsed' = lapsed \ {r}
  /\ late' = [late EXCEPT ![r] = {}]
  /\ UNCHANGED <<calls, shut, tripped>>

Step(r) ==
  \/ Dispatch(r) \/ Fallback(r) \/ Answer(r) \/ Retry(r) \/ AnswerAgain(r)
  \/ HeadAnswer(r) \/ Hedge(r) \/ FirstLeg(r) \/ SecondLeg(r) \/ Fail(r) \/ Finish(r)

Next ==
  \/ \E r \in Requests : Arrive(r) \/ Step(r)
  \/ \E p \in Providers \ denied : Expire(p)

Spec == Init /\ [][Next]_vars

---------------------------------------------------------------------------
(* Properties                                                               *)

TypeOK ==
  /\ breaker \in [Providers -> [n : 0..Threshold, open : BOOLEAN, denied : BOOLEAN]]
  /\ req \in [Requests -> [pc : {"idle", "ready", "call", "backoff", "again", "head", "race",
                                 "fallback", "lost", "ended"},
                           lane : {"free", "premium"},
                           at : 0..Len(FreeChain), second : 0..Len(FreeChain),
                           ra : Outcomes \cup {"none"}, rb : Outcomes \cup {"none"},
                           ops : Nat]]
  /\ \A r \in Requests : req[r].ops <= MaxOps[r]
  /\ \A r \in Requests : calls[r] \in [Free \cup {r} -> 0..2] /\ shut[r] \subseteq Free
  /\ billed \in [Requests -> 0..2]
  /\ denied \subseteq Requests
  /\ bar \subseteq Providers /\ lapsed \subseteq bar
  /\ late \in [Providers -> SUBSET Requests]
  /\ tripped \subseteq Free

\* An operation is lost only when every provider of the free chain was called for
\* it or was parked in the meantime, or premium credentials were refused.
LostMeansExhausted ==
  \A r \in Requests : req[r].pc = "lost" =>
    IF req[r].lane = "premium" THEN r \in denied
    ELSE \A p \in Free : calls[r][p] > 0 \/ p \in shut[r]

\* However races, retries and fallbacks combine, one operation calls a provider
\* once, the last of its chain at most twice, and a retry never has the premium
\* usage of one operation reported twice.
RetriesCostOnce ==
  \A r \in Requests :
    /\ \A p \in Free \cup {r} :
         calls[r][p] <= IF p = FreeChain[Len(FreeChain)] \/ p = r THEN 2 ELSE 1
    /\ billed[r] <= 1

\* Once its premium credentials are refused, no later operation of the ask is
\* served by the free chain as if premium were only out of order.
RefusalIsLoud ==
  \A r \in denied : req[r].lane = "premium" \/ req[r].pc \in {"ready", "ended"}

\* A provider that said 429, 401 or 403 stays parked for its window, and no ask
\* takes it up, by walk, pair, retry or fall-back.  Only an ask that had it in hand
\* when it said so can end this, by a result that closes the breaker.
BarsHold ==
  \A p \in bar \ lapsed :
    /\ breaker[p].open
    /\ \A r \in Requests : InHand(r, p) => r \in late[p]

\* router.ts: a 429 is to "open the breaker immediately (no 3-strike wait) for the
\* server's `Retry-After` window".
BarsHoldForTheirWindow == \A p \in bar : breaker[p].open

\* types.ts: hedge_lost is "kept distinct from `timeout` so the circuit breaker
\* doesn't trip the loser on a successful hedge".
LosersAreNotTripped == tripped = {}
=============================================================================
