-------------------------- MODULE LlmRouterProofs --------------------------
(***************************************************************************)
(* For any chain, any asks and any threshold: an operation fails only when *)
(* every provider was called or parked, calls each a bounded number of     *)
(* times and reports premium usage once; refused credentials are never     *)
(* passed over in silence; and a provider that said wait is left alone.    *)
(***************************************************************************)
EXTENDS LlmRouter, FiniteSetTheorems, TLAPS

End == Len(FreeChain)
Pcs == {"idle", "ready", "call", "backoff", "again", "head", "race", "fallback", "lost", "ended"}
Asking == {"call", "backoff", "again"}
Racing == {"head", "race"}
Reply == Outcomes \cup {"none"}

Breakers == [n : 0..Threshold, open : BOOLEAN, denied : BOOLEAN]
Asks == [pc : Pcs, lane : {"free", "premium"}, at : 0..End, second : 0..End,
         ra : Reply, rb : Reply, ops : Nat]

Typed ==
  /\ breaker \in [Providers -> Breakers]
  /\ req \in [Requests -> Asks]
  /\ \A r \in Requests : req[r].ops <= MaxOps[r]
  /\ DOMAIN calls = Requests /\ \A r \in Requests : calls[r] \in [Free \cup {r} -> 0..2]
  /\ shut \in [Requests -> SUBSET Free]
  /\ billed \in [Requests -> 0..1]
  /\ denied \subseteq Requests
  /\ bar \subseteq Providers /\ lapsed \subseteq bar
  /\ tripped \subseteq Free

\* Where an operation is in its chain: one place, or the two of a race of the free chain.
Placed(r, q) ==
  /\ q.pc \in Asking => q.at \in 1..Len(Chain(r, q))
  /\ q.pc \in {"backoff", "again"} => q.at = Len(Chain(r, q))
  /\ q.pc \in Racing => q.lane = "free" /\ q.at \in 1..End /\ q.second \in 1..End /\ q.at < q.second
  /\ q.pc \notin {"race"} => q.ra = "none" /\ q.rb = "none"
  /\ q.pc = "race" => q.ra = "none" \/ q.rb = "none"
  /\ q.pc = "fallback" => q.lane = "premium"
  /\ q.lane = "premium" => r \in Paying /\ q.pc \in Asking \cup {"fallback", "lost"}

\* How far down the free chain it is.
Reached(q) == IF q.lane = "premium" THEN 0
              ELSE CASE q.pc \in Asking \cup {"head"} -> q.at
                     [] q.pc = "race" -> q.second
                     [] q.pc = "lost" -> End
                     [] OTHER -> 0

\* What was called and what was found parked, down to there.
Walked(r, q, c, sh) ==
  /\ \A i \in 1..End : IF i <= Reached(q) THEN c[FreeChain[i]] > 0 \/ FreeChain[i] \in sh
                                        ELSE c[FreeChain[i]] = 0
  /\ q.pc = "head" => \A i \in 1..End : q.at < i /\ i < q.second => FreeChain[i] \in sh
  /\ \A i \in 1..End : i < End => c[FreeChain[i]] <= 1
  /\ q.pc \in {"call", "backoff"} => c[Chain(r, q)[q.at]] = 1
  /\ q.pc \in {"idle", "ready", "ended"} => c[r] = 0

\* Premium usage is reported at most once, at the end of the premium part of an operation.
Billing(r) == req[r].lane = "premium" /\ req[r].pc \in Asking => billed[r] = 0

\* Refused credentials keep the ask's own breaker open, and the ask out of the free chain.
Refused(r) ==
  /\ breaker[r].denied <=> r \in denied
  /\ r \in denied => /\ breaker[r].open /\ r \in Paying
                     /\ req[r].pc = "ready" \/ (req[r].pc = "lost" /\ req[r].lane = "premium")
  /\ req[r].pc = "lost" /\ req[r].lane = "premium" => r \in denied

IInv ==
  /\ Typed
  /\ \A r \in Requests : /\ Placed(r, req[r]) /\ Walked(r, req[r], calls[r], shut[r])
                         /\ Billing(r) /\ Refused(r)

---------------------------------------------------------------------------
(* Chains.                                                                  *)

LEMMA ChainFacts ==
  /\ End \in Nat /\ End > 0
  /\ \A i \in 1..End : FreeChain[i] \in Free
  /\ \A p \in Free : \E i \in 1..End : p = FreeChain[i]
  /\ \A i, j \in 1..End : FreeChain[i] = FreeChain[j] => i = j
  /\ \A r \in Requests : r \notin Free
  /\ Free \subseteq Providers /\ Requests \subseteq Providers
BY ChainAssumption DEF End, Free, Providers

\* A premium chain is the ask's own provider.
LEMMA ChainIs ==
  ASSUME NEW r \in Requests, NEW q
  PROVE  /\ q.lane = "premium" => Len(Chain(r, q)) = 1 /\ Chain(r, q)[1] = r
         /\ q.lane # "premium" => Len(Chain(r, q)) = End /\ Chain(r, q) = FreeChain
         /\ Len(Chain(r, q)) \in Nat
         /\ \A j \in 1..Len(Chain(r, q)) : Chain(r, q)[j] \in Providers \cap (Free \cup {r})
<1>1. CASE q.lane = "premium"
  <2>1. Chain(r, q) = <<r>> BY <1>1 DEF Chain
  <2>2. Len(<<r>>) = 1 /\ <<r>>[1] = r OBVIOUS
  <2> QED BY <1>1, <2>1, <2>2, ChainFacts
<1>2. CASE q.lane # "premium" BY <1>2, ChainFacts DEF Chain, End
<1> QED BY <1>1, <1>2

\* A set of numbers has its least in it.
LEMMA MinIs ==
  ASSUME NEW S \in SUBSET Nat, S # {}
  PROVE  Min(S) \in S /\ \A k \in S : Min(S) <= k
<1> DEFINE R == OpToRel(<, Nat)
<1>1. \A j, k \in Nat : <<j, k>> \in R <=> j < k BY DEF OpToRel
<1>2. IsWellFoundedOn(R, Nat) BY NatLessThanWellFounded
<1> HIDE DEF R
<1>3. PICK m \in S : \A k \in S : ~(<<k, m>> \in R) BY <1>2, WFMin
<1>4. ASSUME NEW k \in S PROVE m <= k
  <2>1. m \in Nat /\ k \in Nat /\ ~(k < m) BY <1>1, <1>3
  <2> QED BY <2>1
<1> QED BY <1>3, <1>4 DEF Min

\* The ask goes on from place k on: to a call, a race, the free router, or no further.
Onto(r, q, k, brk, a) ==
  /\ a \in Asks /\ a.lane = q.lane /\ a.ops = q.ops /\ a.ra = "none" /\ a.rb = "none"
  /\ \/ /\ a.pc = "call" /\ a.at \in k..Len(Chain(r, q)) /\ ~brk[Chain(r, q)[a.at]].open
        /\ \A j \in k..(a.at - 1) : brk[Chain(r, q)[j]].open
     \/ /\ a.pc = "fallback" /\ q.lane = "premium" /\ ~brk[r].denied
     \/ /\ a.pc = "lost" /\ (q.lane = "premium" => brk[r].denied)
        /\ \A j \in k..Len(Chain(r, q)) : brk[Chain(r, q)[j]].open
     \/ /\ a.pc = "head" /\ q.lane = "free"
        /\ a.at \in k..End /\ a.second \in k..End /\ a.at < a.second
        /\ ~brk[FreeChain[a.at]].open /\ ~brk[FreeChain[a.second]].open
        /\ \A j \in k..(a.second - 1) : j # a.at => brk[FreeChain[j]].open

LEMMA AdvanceIs ==
  ASSUME NEW r \in Requests, NEW q \in Asks, NEW k \in Nat \ {0}, NEW brk
  PROVE  Onto(r, q, k, brk, Advance(r, q, k, brk))
<1> DEFINE ch == Chain(r, q)
           js == {j \in Up(r, q, brk) : j >= k}
           a == Advance(r, q, k, brk)
<1>1. /\ js \in SUBSET Nat
      /\ \A j \in k..Len(ch) : j \notin js => brk[ch[j]].open
      /\ \A j \in js : j \in k..Len(ch) /\ ~brk[ch[j]].open
  BY ChainIs DEF Up
<1>2. Len(ch) <= End /\ Len(ch) \in Nat /\ End \in Nat
  BY ChainIs, ChainFacts DEF Asks
<1>3. CASE js = {}
  <2>1. a = [q EXCEPT !.pc = IF q.lane = "premium" /\ ~brk[r].denied THEN "fallback" ELSE "lost",
                      !.at = 0, !.second = 0, !.ra = "none", !.rb = "none"]
    BY <1>3 DEF Advance, Exhausted
  <2>2. 0 \in 0..End /\ "none" \in Reply /\ {"fallback", "lost"} \subseteq Pcs
    BY <1>2 DEF Reply, Pcs
  <2>3. a \in Asks /\ a.lane = q.lane /\ a.ops = q.ops /\ a.ra = "none" /\ a.rb = "none"
        /\ a.pc = IF q.lane = "premium" /\ ~brk[r].denied THEN "fallback" ELSE "lost"
    BY <2>1, <2>2 DEF Asks
  <2> HIDE DEF a
  <2> QED BY <1>1, <1>3, <2>3 DEF Onto, a
<1>4. CASE js # {}
  <2>1. a = [q EXCEPT !.pc = "call", !.at = Min(js), !.second = 0, !.ra = "none", !.rb = "none"]
    BY <1>4 DEF Advance
  <2>2. Min(js) \in js /\ \A j \in js : Min(js) <= j BY <1>1, <1>4, MinIs
  <2> DEFINE m == Min(js)
  <2>0. m \in js BY <2>2
  <2> HIDE DEF js, m, ch
  <2>3. m \in k..Len(ch) /\ ~brk[ch[m]].open BY <1>1, <2>0
  <2>4. \A j \in k..(m - 1) : brk[ch[j]].open
    <3>1. ASSUME NEW j \in k..(m - 1) PROVE j \in k..Len(ch) /\ ~(m <= j) BY <1>2, <2>3
    <3> QED BY <1>1, <2>2, <3>1 DEF m, ch
  <2>5. m \in 0..End /\ 0 \in 0..End /\ "none" \in Reply /\ "call" \in Pcs
    BY <1>2, <2>3 DEF Reply, Pcs
  <2>6. a \in Asks /\ a.lane = q.lane /\ a.ops = q.ops /\ a.ra = "none" /\ a.rb = "none"
        /\ a.pc = "call" /\ a.at = m
    BY <2>1, <2>5 DEF Asks, m
  <2> HIDE DEF a
  <2> QED BY <2>3, <2>4, <2>6 DEF Onto, a, ch
<1> QED BY <1>3, <1>4

LEMMA EnterIs ==
  ASSUME NEW r \in Requests, NEW q \in Asks, q.ra = "none", q.rb = "none", NEW brk,
         NEW hedged \in BOOLEAN
  PROVE  Onto(r, q, 1, brk, Enter(r, q, brk, hedged))
<1> DEFINE up == Up(r, q, brk)
           a == Enter(r, q, brk, hedged)
<1>1. CASE ~(hedged /\ q.lane = "free" /\ Cardinality(up) >= 2)
  <2>1. a = Advance(r, q, 1, brk) BY <1>1 DEF Enter
  <2> QED BY <2>1, AdvanceIs
<1>2. CASE hedged /\ q.lane = "free" /\ Cardinality(up) >= 2
  <2>1. a = [q EXCEPT !.pc = "head", !.at = Min(up), !.second = Min(up \ {Min(up)})]
    BY <1>2 DEF Enter
  <2>2. Chain(r, q) = FreeChain /\ Len(Chain(r, q)) = End /\ End \in Nat
    BY <1>2, ChainIs, ChainFacts
  <2>3. up \in SUBSET Nat /\ up \subseteq 1..End
        /\ \A j \in 1..End : j \notin up <=> brk[FreeChain[j]].open
    BY <2>2 DEF Up
  <2> HIDE DEF up
  <2>4. up # {}
    <3>1. Cardinality({}) = 0 BY FS_EmptySet
    <3> QED BY <1>2, <3>1
  <2> DEFINE m == Min(up)  s == Min(up \ {m})
  <2>5. m \in up /\ \A j \in up : m <= j BY <2>3, <2>4, MinIs
  <2>6. up \ {m} # {}
    <3> SUFFICES ASSUME up \ {m} = {} PROVE FALSE OBVIOUS
    <3>1. up = {m} BY <2>5
    <3>2. Cardinality(up) = 1 BY <3>1, FS_Singleton
    <3> QED BY <1>2, <3>2
  <2>7. s \in up \ {m} /\ \A j \in up \ {m} : s <= j
    <3>1. up \ {m} \in SUBSET Nat BY <2>3
    <3> QED BY <2>6, <3>1, MinIs
  <2>8. a = [q EXCEPT !.pc = "head", !.at = m, !.second = s] BY <2>1
  <2> HIDE DEF m, s
  <2>9. /\ m \in 1..End /\ s \in 1..End /\ m < s
        /\ ~brk[FreeChain[m]].open /\ ~brk[FreeChain[s]].open
    BY <2>2, <2>3, <2>5, <2>7
  <2>10. \A j \in 1..(s - 1) : j # m => brk[FreeChain[j]].open
    <3> SUFFICES ASSUME NEW j \in 1..(s - 1), j # m PROVE brk[FreeChain[j]].open OBVIOUS
    <3>1. j \in 1..End /\ ~(s <= j) BY <2>2, <2>9
    <3> QED BY <2>3, <2>7, <3>1
  <2>11. m \in 0..End /\ s \in 0..End /\ "head" \in Pcs BY <2>2, <2>9 DEF Pcs
  <2>12. a \in Asks /\ a.lane = q.lane /\ a.ops = q.ops /\ a.ra = "none" /\ a.rb = "none"
         /\ a.pc = "head" /\ a.at = m /\ a.second = s
    BY <2>8, <2>11 DEF Asks
  <2> HIDE DEF a
  <2> QED BY <1>2, <2>9, <2>10, <2>12 DEF Onto, a
<1> QED BY <1>1, <1>2

---------------------------------------------------------------------------
(* Breakers.                                                                *)

LEMMA UpdatedIs ==
  ASSUME NEW s \in Breakers, NEW why \in Outcomes
  PROVE  /\ Updated(s, why) \in Breakers
         /\ why \in {"rate_limited", "auth_denied"} => Updated(s, why).open
         /\ why = "auth_denied" => Updated(s, why).denied
         /\ why # "auth_denied" /\ ~s.denied => ~Updated(s, why).denied
<1>1. Threshold \in Nat /\ Threshold > 0 BY BoundsAssumption
<1>2. s.n \in 0..Threshold BY DEF Breakers
<1>3. More(s.n) \in 0..Threshold BY <1>1, <1>2 DEF More
<1>4. Closed \in Breakers /\ ~Closed.denied BY <1>1 DEF Closed, Breakers
<1>5. (More(s.n) >= Threshold) \in BOOLEAN OBVIOUS
<1> DEFINE m == More(s.n)
<1> HIDE DEF m
<1>6. \A o, d \in BOOLEAN : /\ [n |-> m, open |-> o, denied |-> d] \in Breakers
                            /\ [n |-> m, open |-> o, denied |-> d].open = o
                            /\ [n |-> m, open |-> o, denied |-> d].denied = d
  BY <1>3 DEF Breakers, m
<1>7. CASE why = "ok"
  <2>1. Updated(s, why) = Closed BY <1>7 DEF Updated
  <2> QED BY <1>4, <1>7, <2>1
<1>8. CASE why = "parse"
  <2>1. Updated(s, why) = s BY <1>8 DEF Updated
  <2> QED BY <1>8, <2>1
<1>9. CASE why = "rate_limited"
  <2>1. Updated(s, why) = [n |-> m, open |-> TRUE, denied |-> FALSE] BY <1>9 DEF Updated, m
  <2> QED BY <1>6, <1>9, <2>1
<1>10. CASE why = "auth_denied"
  <2>1. Updated(s, why) = [n |-> m, open |-> TRUE, denied |-> TRUE] BY <1>10 DEF Updated, m
  <2> QED BY <1>6, <1>10, <2>1
<1>11. CASE why \in {"network", "timeout"}
  <2>1. Updated(s, why) = [n |-> m, open |-> m >= Threshold, denied |-> FALSE]
    BY <1>11 DEF Updated, m
  <2> QED BY <1>5, <1>6, <1>11, <2>1 DEF m
<1> QED BY <1>7, <1>8, <1>9, <1>10, <1>11 DEF Outcomes

\* Verdicts reach the breakers of the providers they are about, and bars open theirs.
LEMMA LandedIs ==
  ASSUME Typed, NEW r \in Requests, r \notin denied, ~breaker[r].denied,
         NEW why, NEW lost, DOMAIN why \subseteq Free \cup {r},
         \A p \in DOMAIN why : why[p] \in Outcomes, Landed(r, why, lost)
  PROVE  /\ breaker' \in [Providers -> Breakers]
         /\ denied' \subseteq Requests /\ bar' \subseteq Providers /\ lapsed' \subseteq bar'
         /\ tripped' \subseteq Free
         /\ \A s \in Requests \ {r} : breaker'[s] = breaker[s] /\ (s \in denied' <=> s \in denied)
         /\ breaker'[r].denied <=> r \in denied'
         /\ r \in denied' => breaker'[r].open
         /\ r \notin DOMAIN why => r \notin denied'
<1> DEFINE barring == {p \in DOMAIN why : why[p] \in {"rate_limited", "auth_denied"}}
<1>1. /\ breaker' = [p \in Providers |->
             IF p \in DOMAIN why THEN Updated(breaker[p], why[p]) ELSE breaker[p]]
      /\ bar' = bar \cup barring
      /\ lapsed' \subseteq lapsed \cup bar
      /\ denied' = IF r \in barring /\ why[r] = "auth_denied" THEN denied \cup {r} ELSE denied
      /\ tripped' \subseteq Free
  BY DEF Landed
<1>2. DOMAIN why \subseteq Providers /\ barring \subseteq DOMAIN why BY ChainFacts
<1>3. \A p \in Providers : breaker[p] \in Breakers BY DEF Typed
<1>4. \A p \in DOMAIN why :
        /\ Updated(breaker[p], why[p]) \in Breakers
        /\ why[p] \in {"rate_limited", "auth_denied"} => Updated(breaker[p], why[p]).open
        /\ why[p] = "auth_denied" => Updated(breaker[p], why[p]).denied
        /\ why[p] # "auth_denied" /\ ~breaker[p].denied => ~Updated(breaker[p], why[p]).denied
  BY <1>2, <1>3, UpdatedIs
<1>5. \A p \in Providers :
        breaker'[p] = IF p \in DOMAIN why THEN Updated(breaker[p], why[p]) ELSE breaker[p]
  BY <1>1
<1>6. breaker' \in [Providers -> Breakers] BY <1>1, <1>3, <1>4
<1>7. bar' \subseteq Providers /\ lapsed' \subseteq bar' /\ denied' \subseteq Requests
  BY <1>1, <1>2 DEF Typed
<1>9. \A s \in Requests \ {r} : breaker'[s] = breaker[s] /\ (s \in denied' <=> s \in denied)
  <2>1. \A s \in Requests \ {r} : s \in Providers /\ s \notin DOMAIN why BY ChainFacts
  <2> QED BY <1>1, <1>5, <2>1
<1>10. r \in Providers BY ChainFacts
<1>11. r \in denied' <=> r \in DOMAIN why /\ why[r] = "auth_denied" BY <1>1
<1>12. r \notin DOMAIN why => ~breaker'[r].denied /\ r \notin denied' BY <1>5, <1>10, <1>11
<1>13. r \in DOMAIN why =>
         /\ r \in denied' => breaker'[r].denied /\ breaker'[r].open
         /\ r \notin denied' => ~breaker'[r].denied
  BY <1>4, <1>5, <1>10, <1>11
<1> QED BY <1>1, <1>6, <1>7, <1>9, <1>12, <1>13

---------------------------------------------------------------------------
(* How an ask goes on.                                                      *)

\* Before place k: the places above were called or parked, those from k on were not.
Walk(r, lane, k, c, sh) ==
  /\ \A i \in 1..End : IF lane = "free" /\ i < k THEN c[FreeChain[i]] > 0 \/ FreeChain[i] \in sh
                                                 ELSE c[FreeChain[i]] = 0
  /\ \A i \in 1..End : i < End => c[FreeChain[i]] <= 1
  /\ lane = "premium" => r \in Paying /\ (k = 1 => c[r] = 0)

\* What a step that leaves the other asks alone has to say of this one's.
Turned(r, a) ==
  /\ req' = [req EXCEPT ![r] = a] /\ a \in Asks
  /\ DOMAIN calls' = Requests /\ \A s \in Requests \ {r} : calls'[s] = calls[s]
  /\ calls'[r] \in [Free \cup {r} -> 0..2]
  /\ shut' \in [Requests -> SUBSET Free] /\ \A s \in Requests \ {r} : shut'[s] = shut[s]
  /\ Placed(r, a) /\ Walked(r, a, calls'[r], shut'[r])

LEMMA OntoKeeps ==
  ASSUME Typed, NEW r \in Requests, NEW q \in Asks, NEW k \in 1..(Len(Chain(r, q)) + 1),
         Walk(r, q.lane, k, calls[r], shut[r]),
         NEW a, Onto(r, q, k, breaker', a), Become(r, a)
  PROVE  Turned(r, a)
<1> DEFINE c == calls[r]  d == calls'[r]  sh == shut[r]
<1>1. /\ req' = [req EXCEPT ![r] = a]
      /\ calls' = [calls EXCEPT ![r] =
           CASE a.pc \in {"call", "head"} -> Called(c, Chain(r, a)[a.at])
             [] a.pc = "ready" -> NoCalls(r)
             [] OTHER -> c]
      /\ shut' = [shut EXCEPT ![r] = IF a.pc = "ready" THEN {} ELSE sh \cup Parked(a, breaker')]
  BY DEF Become
<1>2. /\ a \in Asks /\ a.lane = q.lane /\ a.ra = "none" /\ a.rb = "none"
      /\ a.pc \in {"call", "fallback", "lost", "head"}
  BY DEF Onto
<1>3. Chain(r, a) = Chain(r, q) /\ q.lane \in {"free", "premium"} BY <1>2 DEF Chain, Asks
<1>4. /\ End \in Nat /\ End > 0 /\ Len(Chain(r, q)) \in Nat /\ r \notin Free
      /\ q.lane = "free" => Chain(r, q) = FreeChain /\ Len(Chain(r, q)) = End
      /\ q.lane = "premium" => Chain(r, q)[1] = r /\ Len(Chain(r, q)) = 1
  <2>1. q.lane # "premium" => Len(Chain(r, q)) = End /\ Chain(r, q) = FreeChain BY ChainIs
  <2> QED BY <2>1, ChainIs, ChainFacts
<1>5. c \in [Free \cup {r} -> 0..2] /\ sh \subseteq Free BY DEF Typed
<1>6. Parked(a, breaker') \subseteq Free BY DEF Parked
<1>7. /\ DOMAIN calls' = Requests /\ \A s \in Requests \ {r} : calls'[s] = calls[s]
      /\ d = IF a.pc \in {"call", "head"} THEN Called(c, Chain(r, q)[a.at]) ELSE c
  BY <1>1, <1>2, <1>3 DEF Typed
<1>8. /\ shut' \in [Requests -> SUBSET Free] /\ \A s \in Requests \ {r} : shut'[s] = shut[s]
      /\ shut'[r] = sh \cup Parked(a, breaker')
  BY <1>1, <1>2, <1>6 DEF Typed
<1>p. \A i \in 1..End : q.lane = "free" /\ breaker'[FreeChain[i]].open => FreeChain[i] \in shut'[r]
  BY <1>2, <1>8, ChainFacts DEF Parked
<1>w. \A i \in 1..End : FreeChain[i] \in sh => FreeChain[i] \in shut'[r] BY <1>8
<1>9. CASE a.pc \in {"call", "head"}
  <2> DEFINE m == a.at  p == Chain(r, q)[m]
  <2>1. m \in k..Len(Chain(r, q)) /\ m \in 1..Len(Chain(r, q))
    <3>1. m \in k..Len(Chain(r, q)) BY <1>4, <1>9 DEF Onto
    <3> QED BY <1>4, <3>1
  <2>2. p \in Free \cup {r} BY <2>1, ChainIs
  <2>3. c[p] = 0
    <3>1. CASE q.lane = "free"
      <4>1. m \in 1..End /\ ~(m < k) BY <1>4, <2>1, <3>1
      <4> QED BY <1>4, <3>1, <4>1 DEF Walk
    <3>2. CASE q.lane = "premium"
      <4>1. m = 1 /\ k = 1
        <5>1. m \in k..1 BY <1>4, <2>1, <3>2
        <5> HIDE DEF m
        <5> QED BY <1>4, <5>1
      <4> QED BY <1>4, <3>2, <4>1 DEF Walk
    <3> QED BY <1>3, <3>1, <3>2
  <2> HIDE DEF c, d, m, p
  <2>4. d = [c EXCEPT ![p] = 1] BY <1>7, <1>9, <2>3 DEF m, p, Called
  <2>5. d \in [Free \cup {r} -> 0..2] /\ d[p] = 1
        /\ \A x \in Free \cup {r} : x # p => d[x] = c[x]
    BY <1>5, <2>2, <2>4
  <2>6. Placed(r, a)
    <3>1. a.pc = "head" => /\ a.lane = "free" /\ a.at \in 1..End /\ a.second \in 1..End
                           /\ a.at < a.second
      BY <1>2, <1>4 DEF Onto
    <3>2. a.lane = "premium" => r \in Paying BY <1>2 DEF Walk
    <3>3. a.lane = "premium" => a.pc = "call" BY <1>9, <3>1
    <3> QED BY <1>2, <1>3, <1>9, <2>1, <3>1, <3>2, <3>3 DEF Placed, m, Asking, Racing
  <2>7. Walked(r, a, d, shut'[r])
    <3>1. CASE q.lane = "free"
      <4>1. Reached(a) = m /\ m \in 1..End /\ p = FreeChain[m] /\ k <= m
        BY <1>2, <1>4, <1>9, <2>1, <3>1 DEF Reached, Asking, m, p
      <4>2. \A i \in 1..End : /\ FreeChain[i] \in Free \cup {r}
                              /\ i = m \/ d[FreeChain[i]] = c[FreeChain[i]]
        BY <2>5, <4>1, ChainFacts
      <4>3. \A j \in k..(m - 1) : breaker'[FreeChain[j]].open
        <5>1. CASE a.pc = "call" BY <1>4, <3>1, <5>1 DEF Onto, m
        <5>2. CASE a.pc = "head"
          <6>1. \A j \in k..(m - 1) : j \in k..(a.second - 1) /\ j # m
            <7>1. a.second \in k..End /\ m < a.second BY <5>2 DEF Onto, m
            <7> QED BY <1>4, <4>1, <7>1
          <6> QED BY <5>2, <6>1 DEF Onto, m
        <5> QED BY <1>9, <5>1, <5>2
      <4>4. ASSUME NEW i \in 1..End
            PROVE  /\ IF i <= m THEN d[FreeChain[i]] > 0 \/ FreeChain[i] \in shut'[r]
                                ELSE d[FreeChain[i]] = 0
                   /\ i < End => d[FreeChain[i]] <= 1
        <5>1. CASE i = m BY <2>5, <4>1, <5>1
        <5>2. CASE i < k
          <6>1. i <= m /\ i # m BY <4>1, <5>2
          <6> QED BY <1>w, <3>1, <4>2, <5>2, <6>1 DEF Walk, c
        <5>3. CASE k <= i /\ i < m
          <6>1. i \in k..(m - 1) /\ i <= m /\ i # m /\ ~(i < k) BY <4>1, <5>3
          <6>2. d[FreeChain[i]] = 0 BY <4>2, <6>1 DEF Walk, c
          <6> QED BY <1>p, <3>1, <4>3, <6>1, <6>2
        <5>4. CASE m < i
          <6>1. ~(i <= m) /\ ~(i < k) /\ i # m BY <4>1, <5>4
          <6>2. d[FreeChain[i]] = 0 BY <4>2, <6>1 DEF Walk, c
          <6> QED BY <6>1, <6>2
        <5> QED BY <4>1, <5>1, <5>2, <5>3, <5>4
      <4>5. a.pc = "head" => \A i \in 1..End : m < i /\ i < a.second => FreeChain[i] \in shut'[r]
        <5> SUFFICES ASSUME a.pc = "head", NEW i \in 1..End, m < i, i < a.second
                     PROVE  FreeChain[i] \in shut'[r]
          OBVIOUS
        <5>1. i \in k..(a.second - 1) /\ i # a.at
          <6>1. a.second \in k..End BY DEF Onto
          <6> QED BY <1>4, <4>1, <6>1 DEF m
        <5>2. breaker'[FreeChain[i]].open BY <5>1 DEF Onto
        <5> QED BY <1>p, <3>1, <5>2
      <4>6. d[Chain(r, a)[a.at]] = 1 BY <1>3, <2>5 DEF m, p
      <4> QED BY <1>9, <4>1, <4>4, <4>5, <4>6 DEF Walked, m
    <3>2. CASE q.lane = "premium"
      <4>1. Reached(a) = 0 /\ a.pc = "call" /\ p = r
        <5>1. a.pc = "call" BY <1>9, <3>2 DEF Onto
        <5>2. m = 1
          <6>1. m \in 1..1 BY <1>4, <2>1, <3>2
          <6> QED BY <6>1
        <5> QED BY <1>2, <1>4, <3>2, <5>1, <5>2 DEF Reached, p
      <4>2. \A i \in 1..End : d[FreeChain[i]] = c[FreeChain[i]]
        BY <1>4, <2>5, <4>1, ChainFacts
      <4>3. \A i \in 1..End : ~(i <= 0) /\ d[FreeChain[i]] = 0 BY <3>2, <4>2 DEF Walk, c
      <4>4. d[Chain(r, a)[a.at]] = 1 BY <1>3, <2>5 DEF m, p
      <4> QED BY <4>1, <4>3, <4>4 DEF Walked
    <3> QED BY <1>3, <3>1, <3>2
  <2> QED BY <1>1, <1>2, <1>7, <1>8, <2>5, <2>6, <2>7 DEF Turned, d
<1>10. CASE a.pc \in {"fallback", "lost"}
  <2>1. d = c /\ d \in [Free \cup {r} -> 0..2] BY <1>5, <1>7, <1>10
  <2>2. Placed(r, a)
    <3>1. a.lane = "premium" => r \in Paying BY <1>2 DEF Walk
    <3>2. a.pc = "fallback" => a.lane = "premium" BY <1>2 DEF Onto
    <3> QED BY <1>2, <1>10, <3>1, <3>2 DEF Placed, Asking, Racing
  <2> HIDE DEF c, d
  <2>3. Walked(r, a, d, shut'[r])
    <3>1. CASE q.lane = "free"
      <4>1. a.pc = "lost" /\ Reached(a) = End
        BY <1>2, <1>10, <3>1 DEF Onto, Reached, Asking
      <4>2. \A j \in k..End : breaker'[FreeChain[j]].open BY <1>4, <3>1, <4>1 DEF Onto
      <4>3. ASSUME NEW i \in 1..End PROVE d[FreeChain[i]] > 0 \/ FreeChain[i] \in shut'[r]
        <5>1. CASE i < k BY <1>w, <2>1, <3>1, <5>1 DEF Walk, c
        <5>2. CASE ~(i < k)
          <6>1. i \in k..End BY <1>4, <5>2
          <6> QED BY <1>p, <3>1, <4>2, <6>1
        <5> QED BY <5>1, <5>2
      <4>4. \A i \in 1..End : i < End => d[FreeChain[i]] <= 1 BY <2>1 DEF Walk, c
      <4>5. \A i \in 1..End : i <= End BY <1>4
      <4> QED BY <4>1, <4>3, <4>4, <4>5 DEF Walked
    <3>2. CASE q.lane = "premium"
      <4>1. Reached(a) = 0 BY <1>2, <3>2 DEF Reached
      <4>2. \A i \in 1..End : ~(i <= 0) /\ d[FreeChain[i]] = 0 BY <2>1, <3>2 DEF Walk, c
      <4> QED BY <1>10, <4>1, <4>2 DEF Walked
    <3> QED BY <1>3, <3>1, <3>2
  <2> QED BY <1>1, <1>2, <1>7, <1>8, <2>1, <2>2, <2>3 DEF Turned, d
<1> QED BY <1>2, <1>9, <1>10

\* Between operations nothing is called yet, and nothing was found parked.
LEMMA BetweenKeeps ==
  ASSUME Typed, NEW r \in Requests, Become(r, Between(req[r], "ready"))
  PROVE  Turned(r, Between(req[r], "ready"))
<1> DEFINE a == Between(req[r], "ready")
<1>1. End \in Nat /\ req[r] \in Asks BY ChainFacts DEF Typed
<1>2. a \in Asks /\ a.pc = "ready" /\ a.lane = "free" /\ a.ra = "none" /\ a.rb = "none"
  <2>1. 0 \in 0..End /\ req[r].ops \in Nat BY <1>1 DEF Asks
  <2>2. Idle \in Asks /\ Idle.lane = "free" /\ Idle.ra = "none" /\ Idle.rb = "none"
    BY <2>1 DEF Idle, Asks, Pcs, Reply
  <2>3. a = [Idle EXCEPT !.pc = "ready", !.ops = req[r].ops] BY DEF Between
  <2> HIDE DEF a
  <2> QED BY <2>1, <2>2, <2>3 DEF Asks, Pcs
<1>3. /\ req' = [req EXCEPT ![r] = a]
      /\ calls' = [calls EXCEPT ![r] = NoCalls(r)] /\ shut' = [shut EXCEPT ![r] = {}]
  BY <1>2 DEF Become
<1> HIDE DEF a
<1>4. /\ DOMAIN calls' = Requests /\ \A s \in Requests \ {r} : calls'[s] = calls[s]
      /\ calls'[r] = NoCalls(r)
  BY <1>3 DEF Typed
<1>5. /\ shut' \in [Requests -> SUBSET Free] /\ \A s \in Requests \ {r} : shut'[s] = shut[s]
  BY <1>3 DEF Typed
<1>6. NoCalls(r) \in [Free \cup {r} -> 0..2] /\ \A p \in Free \cup {r} : NoCalls(r)[p] = 0
  BY DEF NoCalls
<1>7. Placed(r, a) BY <1>2 DEF Placed, Asking, Racing
<1>8. Walked(r, a, NoCalls(r), shut'[r])
  <2>1. Reached(a) = 0 BY <1>2 DEF Reached, Asking
  <2>2. \A i \in 1..End : ~(i <= 0) /\ NoCalls(r)[FreeChain[i]] = 0 BY <1>1, <1>6, ChainFacts
  <2> QED BY <1>2, <1>6, <2>1, <2>2 DEF Walked
<1> QED BY <1>2, <1>3, <1>4, <1>5, <1>6, <1>7, <1>8 DEF Turned, a

\* A step of an ask disturbs no other.
LEMMA AskKeeps ==
  ASSUME IInv, NEW r \in Requests, NEW a, Turned(r, a), a.ops <= MaxOps[r],
         breaker' \in [Providers -> Breakers],
         \A s \in Requests \ {r} : breaker'[s] = breaker[s] /\ (s \in denied' <=> s \in denied),
         NEW b \in 0..1, billed' = [billed EXCEPT ![r] = b],
         denied' \subseteq Requests, bar' \subseteq Providers, lapsed' \subseteq bar',
         tripped' \subseteq Free,
         a.lane = "premium" /\ a.pc \in Asking => b = 0,
         breaker'[r].denied <=> r \in denied',
         r \in denied' => /\ breaker'[r].open /\ r \in Paying
                          /\ a.pc = "ready" \/ (a.pc = "lost" /\ a.lane = "premium"),
         a.pc = "lost" /\ a.lane = "premium" => r \in denied'
  PROVE  IInv'
<1>1. /\ req'[r] = a /\ \A s \in Requests \ {r} : req'[s] = req[s]
      /\ req' \in [Requests -> Asks]
      /\ DOMAIN calls' = Requests /\ \A s \in Requests \ {r} : calls'[s] = calls[s]
      /\ calls'[r] \in [Free \cup {r} -> 0..2]
      /\ shut' \in [Requests -> SUBSET Free] /\ \A s \in Requests \ {r} : shut'[s] = shut[s]
      /\ Placed(r, a) /\ Walked(r, a, calls'[r], shut'[r])
  BY DEF Turned, IInv, Typed
<1>2. /\ billed' \in [Requests -> 0..1] /\ billed'[r] = b
      /\ \A s \in Requests \ {r} : billed'[s] = billed[s]
  BY DEF IInv, Typed
<1>3. Typed'
  <2>1. \A s \in Requests : req'[s].ops <= MaxOps[s] BY <1>1 DEF IInv, Typed
  <2>2. \A s \in Requests : calls'[s] \in [Free \cup {s} -> 0..2]
    BY <1>1 DEF IInv, Typed
  <2> QED BY <1>1, <1>2, <2>1, <2>2 DEF Typed
<1>4. ASSUME NEW s \in Requests
      PROVE  /\ Placed(s, req'[s]) /\ Walked(s, req'[s], calls'[s], shut'[s])
             /\ Billing(s)' /\ Refused(s)'
  <2>1. CASE s = r BY <1>1, <1>2, <2>1 DEF Billing, Refused
  <2>2. CASE s # r
    <3>1. /\ req'[s] = req[s] /\ calls'[s] = calls[s] /\ shut'[s] = shut[s]
          /\ billed'[s] = billed[s] /\ breaker'[s] = breaker[s] /\ (s \in denied' <=> s \in denied)
      BY <1>1, <1>2, <2>2
    <3>2. /\ Placed(s, req[s]) /\ Walked(s, req[s], calls[s], shut[s])
          /\ Billing(s) /\ Refused(s)
      BY DEF IInv
    <3> QED BY <3>1, <3>2 DEF Billing, Refused
  <2> QED BY <2>1, <2>2
<1> QED BY <1>3, <1>4 DEF IInv

\* A step that calls no premium provider and settles nothing.
LEMMA QuietKeeps ==
  ASSUME IInv, NEW r \in Requests, NEW a, Turned(r, a), a.ops <= MaxOps[r],
         UNCHANGED <<breaker, denied, bar, lapsed, late, tripped>>,
         NEW b \in 0..1, billed' = [billed EXCEPT ![r] = b],
         a.lane = "premium" /\ a.pc \in Asking => b = 0,
         r \in denied => a.pc = "ready" \/ (a.pc = "lost" /\ a.lane = "premium"),
         a.pc = "lost" /\ a.lane = "premium" => r \in denied
  PROVE  IInv'
<1>1. Typed /\ Refused(r) BY DEF IInv
<1>2. /\ breaker' \in [Providers -> Breakers]
      /\ denied' \subseteq Requests /\ bar' \subseteq Providers /\ lapsed' \subseteq bar'
      /\ tripped' \subseteq Free
      /\ \A s \in Requests \ {r} : breaker'[s] = breaker[s] /\ (s \in denied' <=> s \in denied)
  BY <1>1 DEF Typed
<1>3. /\ breaker'[r].denied <=> r \in denied'
      /\ r \in denied' => breaker'[r].open /\ r \in Paying
  BY <1>1 DEF Refused
<1> QED BY <1>2, <1>3, AskKeeps

---------------------------------------------------------------------------
(* The steps.                                                               *)

LEMMA DispatchKeeps ==
  ASSUME IInv, NEW r \in Requests, Dispatch(r)
  PROVE  IInv'
<1> DEFINE q0 == [req[r] EXCEPT !.ops = @ + 1, !.lane = IF r \in Paying THEN "premium" ELSE "free"]
<1>1. /\ req[r].pc = "ready" /\ req[r].ops < MaxOps[r]
      /\ billed' = [billed EXCEPT ![r] = 0]
      /\ UNCHANGED <<breaker, denied, bar, lapsed, late, tripped>>
  BY DEF Dispatch
<1>2. PICK hedged \in BOOLEAN : Become(r, Enter(r, q0, breaker, hedged)) BY DEF Dispatch
<1> DEFINE a == Enter(r, q0, breaker, hedged)
<1>t. Typed /\ Refused(r) /\ Placed(r, req[r]) /\ Walked(r, req[r], calls[r], shut[r]) BY DEF IInv
<1>3. req[r] \in Asks /\ MaxOps[r] \in Nat BY <1>t, BoundsAssumption DEF Typed
<1>4. /\ q0 \in Asks /\ q0.ops = req[r].ops + 1 /\ q0.ops <= MaxOps[r]
      /\ q0.lane = IF r \in Paying THEN "premium" ELSE "free"
      /\ q0.ra = "none" /\ q0.rb = "none"
  <2>1. req[r].ops \in Nat BY <1>3 DEF Asks
  <2>2. req[r].ra = "none" /\ req[r].rb = "none" BY <1>1, <1>t DEF Placed
  <2> DEFINE lane == IF r \in Paying THEN "premium" ELSE "free"
  <2>l. lane \in {"free", "premium"} OBVIOUS
  <2>3. q0 \in Asks /\ q0.ops = req[r].ops + 1 /\ q0.ra = "none" /\ q0.rb = "none"
        /\ q0.lane = lane
    <3>1. q0 = [req[r] EXCEPT !.ops = req[r].ops + 1, !.lane = lane] OBVIOUS
    <3>2. req[r].ops + 1 \in Nat BY <2>1
    <3> HIDE DEF q0, lane
    <3> QED BY <1>3, <2>2, <2>l, <3>1, <3>2 DEF Asks
  <2>4. req[r].ops + 1 <= MaxOps[r] BY <1>1, <1>3, <2>1
  <2> HIDE DEF q0
  <2> QED BY <2>3, <2>4
<1> HIDE DEF q0
<1>5. Onto(r, q0, 1, breaker, a) BY <1>4, EnterIs
<1> HIDE DEF a
<1>6. Onto(r, q0, 1, breaker', a) BY <1>1, <1>5
<1>7. Walk(r, q0.lane, 1, calls[r], shut[r])
  <2>1. Reached(req[r]) = 0 BY <1>1 DEF Reached, Asking
  <2>2. \A i \in 1..End : calls[r][FreeChain[i]] = 0 /\ ~(i < 1)
    <3>1. \A i \in 1..End : ~(i <= 0) /\ ~(i < 1) BY ChainFacts
    <3> QED BY <1>t, <2>1, <3>1 DEF Walked
  <2>3. calls[r][r] = 0 BY <1>1, <1>t DEF Walked
  <2> QED BY <1>4, <2>2, <2>3 DEF Walk
<1>8. 1 \in 1..(Len(Chain(r, q0)) + 1) BY ChainIs
<1>9. Turned(r, a) BY <1>2, <1>4, <1>6, <1>7, <1>8, <1>t, OntoKeeps DEF a
<1>10. a.ops <= MaxOps[r] /\ a.lane = q0.lane /\ a.pc \in {"call", "fallback", "lost", "head"}
  BY <1>4, <1>5 DEF Onto
<1>11. a.pc = "lost" /\ a.lane = "premium" => r \in denied
  BY <1>5, <1>10, <1>t DEF Onto, Refused
<1>12. r \in denied => a.pc = "lost" /\ a.lane = "premium"
  <2> SUFFICES ASSUME r \in denied PROVE a.pc = "lost" /\ a.lane = "premium" OBVIOUS
  <2>1. breaker[r].open /\ breaker[r].denied /\ a.lane = "premium" BY <1>4, <1>10, <1>t DEF Refused
  <2>2. a.pc # "call"
    <3> SUFFICES ASSUME a.pc = "call" PROVE FALSE OBVIOUS
    <3>1. a.at \in 1..Len(Chain(r, q0)) /\ ~breaker[Chain(r, q0)[a.at]].open BY <1>5 DEF Onto
    <3>0. q0.lane = "premium" BY <1>10, <2>1
    <3>2. Len(Chain(r, q0)) = 1 /\ Chain(r, q0)[1] = r BY <3>0, ChainIs
    <3>3. a.at \in 1..1 BY <3>1, <3>2
    <3>4. a.at = 1 BY <3>3
    <3> QED BY <2>1, <3>1, <3>2, <3>4
  <2> QED BY <1>5, <1>10, <2>1, <2>2 DEF Onto
<1>13. 0 \in 0..1 OBVIOUS
<1> QED BY <1>1, <1>9, <1>10, <1>11, <1>12, <1>13, QuietKeeps

LEMMA FallbackKeeps ==
  ASSUME IInv, NEW r \in Requests, Fallback(r)
  PROVE  IInv'
<1> DEFINE q0 == [req[r] EXCEPT !.lane = "free"]
<1>1. /\ req[r].pc = "fallback" /\ UNCHANGED <<breaker, billed, denied, bar, lapsed, late, tripped>>
  BY DEF Fallback
<1>2. PICK hedged \in BOOLEAN : Become(r, Enter(r, q0, breaker, hedged)) BY DEF Fallback
<1> DEFINE a == Enter(r, q0, breaker, hedged)
<1>t. Typed /\ Refused(r) /\ Placed(r, req[r]) /\ Walked(r, req[r], calls[r], shut[r]) BY DEF IInv
<1>3. req[r] \in Asks /\ req[r].ops <= MaxOps[r] BY <1>t DEF Typed
<1>4. /\ q0 \in Asks /\ q0.ops = req[r].ops /\ q0.lane = "free"
      /\ q0.ra = "none" /\ q0.rb = "none"
  <2>1. req[r].ra = "none" /\ req[r].rb = "none" BY <1>1, <1>t DEF Placed
  <2> QED BY <1>3, <2>1 DEF Asks
<1> HIDE DEF q0
<1>5. Onto(r, q0, 1, breaker, a) BY <1>4, EnterIs
<1> HIDE DEF a
<1>6. Onto(r, q0, 1, breaker', a) BY <1>1, <1>5
<1>7. Walk(r, q0.lane, 1, calls[r], shut[r])
  <2>1. Reached(req[r]) = 0 BY <1>1, <1>t DEF Reached, Placed
  <2>2. \A i \in 1..End : calls[r][FreeChain[i]] = 0 /\ ~(i < 1)
    <3>1. \A i \in 1..End : ~(i <= 0) /\ ~(i < 1) BY ChainFacts
    <3> QED BY <1>t, <2>1, <3>1 DEF Walked
  <2> QED BY <1>4, <2>2 DEF Walk
<1>8. 1 \in 1..(Len(Chain(r, q0)) + 1) BY ChainIs
<1>9. Turned(r, a) BY <1>2, <1>4, <1>6, <1>7, <1>8, <1>t, OntoKeeps DEF a
<1>10. a.ops <= MaxOps[r] /\ a.lane = "free" BY <1>3, <1>4, <1>5 DEF Onto
<1>11. r \notin denied BY <1>1, <1>t DEF Refused
<1>12. billed[r] \in 0..1 /\ billed' = [billed EXCEPT ![r] = billed[r]] BY <1>1, <1>t DEF Typed
<1> QED BY <1>1, <1>9, <1>10, <1>11, <1>12, QuietKeeps

LEMMA FailKeeps ==
  ASSUME IInv, NEW r \in Requests, Fail(r)
  PROVE  IInv'
<1> DEFINE a == Between(req[r], "ready")
<1>1. /\ Become(r, a) /\ UNCHANGED <<breaker, billed, denied, bar, lapsed, late, tripped>>
  BY DEF Fail
<1>2. Typed /\ req[r] \in Asks /\ req[r].ops <= MaxOps[r] BY DEF IInv, Typed
<1>3. Turned(r, a) BY <1>1, <1>2, BetweenKeeps
<1>4. a.pc = "ready" /\ a.ops = req[r].ops BY DEF Between, Idle
<1>5. billed[r] \in 0..1 /\ billed' = [billed EXCEPT ![r] = billed[r]] BY <1>1, <1>2 DEF Typed
<1> HIDE DEF a
<1>6. a.pc \notin Asking BY <1>4 DEF Asking
<1> QED BY <1>1, <1>2, <1>3, <1>4, <1>5, <1>6, QuietKeeps

\* The verdicts of an ask's calls are in: it is served, or goes on after the last place.
LEMMA LandKeeps ==
  ASSUME IInv, NEW r \in Requests, req[r].pc \in {"call", "again", "head", "race"},
         NEW why, NEW lost, DOMAIN why \subseteq Free \cup {r},
         \A p \in DOMAIN why : why[p] \in Outcomes,
         r \in DOMAIN why => req[r].lane = "premium",
         Landed(r, why, lost),
         NEW k, k = (IF req[r].pc = "race" THEN req[r].second ELSE req[r].at) + 1,
         NEW a, a = Served(req[r]) \/ a = Advance(r, req[r], k, breaker'), Become(r, a),
         NEW b \in 0..1, billed' = [billed EXCEPT ![r] = b]
  PROVE  IInv'
<1> DEFINE q == req[r]
<1>t. /\ Typed /\ Refused(r)
      /\ Placed(r, q) /\ Walked(r, q, calls[r], shut[r])
  BY DEF IInv
<1>1. q \in Asks /\ q.ops <= MaxOps[r] BY <1>t DEF Typed
<1>2. r \notin denied /\ ~breaker[r].denied BY <1>t DEF Refused
<1>3. /\ breaker' \in [Providers -> Breakers]
      /\ denied' \subseteq Requests /\ bar' \subseteq Providers /\ lapsed' \subseteq bar'
      /\ tripped' \subseteq Free
      /\ \A s \in Requests \ {r} : breaker'[s] = breaker[s] /\ (s \in denied' <=> s \in denied)
      /\ breaker'[r].denied <=> r \in denied'
      /\ r \in denied' => breaker'[r].open
      /\ r \notin DOMAIN why => r \notin denied'
  BY <1>2, <1>t, LandedIs
<1>4. r \in denied' => r \in Paying /\ q.lane = "premium" BY <1>3, <1>t DEF Placed
<1> HIDE DEF q
<1>5. CASE a = Served(q)
  <2>1. a = Between(req[r], "ready") BY <1>5 DEF Served, q
  <2>2. Turned(r, a) BY <1>t, <2>1, BetweenKeeps
  <2>3. a.pc = "ready" /\ a.ops = req[r].ops BY <2>1 DEF Between, Idle
  <2>4. a.ops <= MaxOps[r] /\ a.pc \notin Asking BY <1>1, <2>3 DEF Asking, q
  <2> QED BY <1>3, <1>4, <2>2, <2>3, <2>4, AskKeeps
<1>6. CASE a = Advance(r, q, k, breaker')
  <2> DEFINE m == IF q.pc = "race" THEN q.second ELSE q.at
  <2>1. m \in 1..Len(Chain(r, q))
    <3>1. q.pc \in {"call", "again"} => q.at \in 1..Len(Chain(r, q)) BY <1>t DEF Placed, Asking
    <3>2. q.pc \in Racing => q.at \in 1..End /\ q.second \in 1..End /\ q.lane = "free"
      BY <1>t DEF Placed
    <3>3. q.lane = "free" => Len(Chain(r, q)) = End
      <4>1. q.lane # "premium" => Len(Chain(r, q)) = End BY ChainIs
      <4> QED BY <4>1
    <3> QED BY <3>1, <3>2, <3>3 DEF Racing, q
  <2>2. k = m + 1 BY DEF q
  <2>l. Len(Chain(r, q)) \in Nat BY ChainIs
  <2> DEFINE L == Len(Chain(r, q))
  <2>m. q.lane = "free" => m = Reached(q) BY DEF Reached, Asking, q
  <2>p. q.lane = "premium" => Reached(q) = 0 BY DEF Reached
  <2> HIDE DEF m, L
  <2>3. k \in Nat \ {0} /\ k \in 1..(L + 1) /\ k # 1 BY <2>1, <2>2, <2>l DEF L
  <2>4. Walk(r, q.lane, k, calls[r], shut[r])
    <3>1. \A i \in 1..End : i < k <=> i <= m
      <4>1. m \in Nat BY <2>1, <2>l
      <4> QED BY <2>2, <4>1
    <3>2. q.lane \in {"free", "premium"} BY <1>1 DEF Asks
    <3>3. CASE q.lane = "free" BY <1>t, <2>m, <3>1, <3>3 DEF Walk, Walked
    <3>4. CASE q.lane = "premium"
      <4>1. \A i \in 1..End : calls[r][FreeChain[i]] = 0
        <5>1. \A i \in 1..End : ~(i <= 0) OBVIOUS
        <5> QED BY <1>t, <2>p, <3>4, <5>1 DEF Walked
      <4>2. r \in Paying BY <1>t, <3>4 DEF Placed
      <4> QED BY <1>t, <2>3, <3>4, <4>1, <4>2 DEF Walk
    <3> QED BY <3>2, <3>3, <3>4
  <2>5. Onto(r, q, k, breaker', a) BY <1>1, <1>6, <2>3, AdvanceIs
  <2>6. Turned(r, a) BY <1>1, <1>t, <2>3, <2>4, <2>5, OntoKeeps DEF L
  <2>7. a.lane = q.lane /\ a.ops = q.ops BY <2>5 DEF Onto
  <2>8. q.lane = "premium" => a.pc \in {"fallback", "lost"}
    <3> SUFFICES ASSUME q.lane = "premium", a.pc = "call" PROVE FALSE BY <2>5 DEF Onto
    <3>1. L = 1 BY ChainIs DEF L
    <3>2. a.at \in k..L BY <2>5 DEF Onto, L
    <3> QED BY <2>3, <3>1, <3>2
  <2>9. r \in denied' => a.pc = "lost" /\ a.lane = "premium"
    BY <1>3, <1>4, <2>5, <2>7, <2>8 DEF Onto
  <2>10. a.pc = "lost" /\ a.lane = "premium" => r \in denied'
    BY <1>3, <2>5, <2>7 DEF Onto
  <2>11. a.lane = "premium" /\ a.pc \in Asking => b = 0 BY <2>7, <2>8 DEF Asking
  <2> QED BY <1>1, <1>3, <1>4, <2>6, <2>7, <2>9, <2>10, <2>11, AskKeeps
<1> QED BY <1>5, <1>6 DEF q

LEMMA SettleKeeps ==
  ASSUME IInv, NEW r \in Requests, req[r].pc \in {"call", "again", "head"},
         NEW why \in Outcomes, Settle(r, why),
         NEW b \in 0..1, billed' = [billed EXCEPT ![r] = b]
  PROVE  IInv'
<1> DEFINE q == req[r]  p == Chain(r, q)[q.at]  w == [x \in {p} |-> why]
           a == IF why = "ok" THEN Served(q) ELSE Advance(r, q, q.at + 1, breaker')
<1>1. Landed(r, w, {}) /\ Become(r, a) BY DEF Settle
<1>t. Placed(r, q) BY DEF IInv
<1>2. q.lane # "premium" => Len(Chain(r, q)) = End /\ Chain(r, q) = FreeChain BY ChainIs
<1>3. q.at \in 1..Len(Chain(r, q))
  <2>1. CASE q.pc \in Asking BY <1>t, <2>1 DEF Placed
  <2>2. CASE q.pc = "head" BY <1>2, <1>t, <2>2 DEF Placed, Racing
  <2> QED BY <2>1, <2>2 DEF Asking
<1>4. p \in Free \cup {r} BY <1>3, ChainIs
<1>5. r = p => q.lane = "premium"
  <2> SUFFICES ASSUME q.lane # "premium" PROVE r # p OBVIOUS
  <2>1. p \in Free BY <1>2, <1>3, ChainFacts
  <2> QED BY <2>1, ChainFacts
<1>6. DOMAIN w = {p} /\ \A x \in DOMAIN w : w[x] \in Outcomes OBVIOUS
<1>7. a = Served(q) \/ a = Advance(r, q, q.at + 1, breaker') OBVIOUS
<1> HIDE DEF p, w, a
<1>8. DOMAIN w \subseteq Free \cup {r} /\ (r \in DOMAIN w => q.lane = "premium")
  BY <1>4, <1>5, <1>6
<1>9. q.at + 1 = (IF req[r].pc = "race" THEN req[r].second ELSE req[r].at) + 1 OBVIOUS
<1> QED BY <1>1, <1>6, <1>7, <1>8, <1>9, LandKeeps

\* The calls of an ask's operation come to d.
Counted(r, d) ==
  /\ DOMAIN calls' = Requests /\ calls'[r] = d
  /\ \A s \in Requests \ {r} : calls'[s] = calls[s]

\* An ask that stays in its place; what was called is only counted.
LEMMA StaysKeeps ==
  ASSUME IInv, NEW r \in Requests, NEW a \in Asks, req' = [req EXCEPT ![r] = a],
         a.lane = req[r].lane, a.ops = req[r].ops, a.pc \in {"backoff", "again", "race"},
         req[r].pc \in {"call", "backoff", "head", "race"},
         UNCHANGED <<breaker, shut, denied, bar, lapsed, late, tripped>>,
         NEW b \in 0..1, billed' = [billed EXCEPT ![r] = b],
         a.lane = "premium" => b = 0,
         NEW d \in [Free \cup {r} -> 0..2], Counted(r, d),
         Placed(r, a), Walked(r, a, d, shut[r])
  PROVE  IInv'
<1>t. Typed /\ Refused(r) BY DEF IInv
<1>1. /\ DOMAIN calls' = Requests /\ \A s \in Requests \ {r} : calls'[s] = calls[s]
      /\ calls'[r] = d
  BY DEF Counted
<1>2. shut' \in [Requests -> SUBSET Free] /\ shut' = shut BY <1>t DEF Typed
<1>3. Turned(r, a) BY <1>1, <1>2 DEF Turned
<1>4. a.ops <= MaxOps[r] BY <1>t DEF Typed
<1>5. r \notin denied BY <1>t DEF Refused
<1> QED BY <1>3, <1>4, <1>5, QuietKeeps

\* A reply that is reported is reported once.
LEMMA BillIs ==
  ASSUME IInv, NEW r \in Requests, req[r].pc \in Asking, NEW why, Bill(r, why)
  PROVE  \E b \in 0..1 : /\ billed' = [billed EXCEPT ![r] = b]
                         /\ why = "network" => b = billed[r]
<1>1. PICK used \in BOOLEAN :
        /\ used => req[r].lane = "premium" /\ why \in {"ok", "parse"}
        /\ billed' = [billed EXCEPT ![r] = IF used THEN billed[r] + 1 ELSE billed[r]]
  BY DEF Bill
<1>2. billed[r] \in 0..1 BY DEF IInv, Typed
<1>3. req[r].lane = "premium" => billed[r] = 0 BY DEF IInv, Billing
<1> DEFINE b == IF used THEN billed[r] + 1 ELSE billed[r]
<1>4. b \in 0..1 /\ (why = "network" => b = billed[r]) BY <1>1, <1>2, <1>3
<1>5. billed' = [billed EXCEPT ![r] = b] BY <1>1
<1> HIDE DEF b
<1> QED BY <1>4, <1>5

LEMMA AnswerKeeps ==
  ASSUME IInv, NEW r \in Requests, Answer(r)
  PROVE  IInv'
<1> DEFINE q == req[r]
<1>1. PICK why \in Outcomes :
        /\ Bill(r, why)
        /\ IF q.at = Len(Chain(r, q)) /\ Transient(why)
             THEN /\ req' = [req EXCEPT ![r].pc = "backoff"]
                  /\ UNCHANGED <<breaker, calls, shut, denied, bar, lapsed, late, tripped>>
             ELSE Settle(r, why)
  BY DEF Answer
<1>2. q.pc = "call" BY DEF Answer
<1>3. PICK b \in 0..1 : billed' = [billed EXCEPT ![r] = b] /\ (why = "network" => b = billed[r])
  BY <1>1, <1>2, BillIs DEF Asking
<1>t. /\ Typed /\ Billing(r) /\ Placed(r, q) /\ Walked(r, q, calls[r], shut[r]) /\ q \in Asks
  BY DEF IInv, Typed
<1>4. CASE q.at = Len(Chain(r, q)) /\ Transient(why)
  <2> DEFINE a == [q EXCEPT !.pc = "backoff"]
  <2>1. /\ req' = [req EXCEPT ![r] = a]
        /\ UNCHANGED <<breaker, calls, shut, denied, bar, lapsed, late, tripped>>
    BY <1>1, <1>4
  <2>2. /\ a \in Asks /\ a.lane = q.lane /\ a.ops = q.ops /\ a.pc = "backoff" /\ a.at = q.at
        /\ a.second = q.second /\ a.ra = q.ra /\ a.rb = q.rb
    BY <1>t DEF Asks, Pcs
  <2> HIDE DEF a
  <2>3. Chain(r, a) = Chain(r, q) BY <2>2 DEF Chain
  <2>4. Placed(r, a) BY <1>2, <1>4, <1>t, <2>2, <2>3 DEF Placed, Asking, Racing
  <2>5. Reached(a) = Reached(q) BY <1>2, <2>2 DEF Reached, Asking
  <2>6. Walked(r, a, calls[r], shut[r]) BY <1>2, <1>t, <2>2, <2>3, <2>5 DEF Walked
  <2>7. a.lane = "premium" => b = 0
    BY <1>2, <1>3, <1>4, <1>t, <2>2 DEF Transient, Billing, Asking
  <2>8. calls[r] \in [Free \cup {r} -> 0..2] /\ Counted(r, calls[r])
    BY <1>t, <2>1 DEF Typed, Counted
  <2> QED BY <1>2, <1>3, <2>1, <2>2, <2>4, <2>6, <2>7, <2>8, StaysKeeps
<1>5. CASE ~(q.at = Len(Chain(r, q)) /\ Transient(why))
  BY <1>1, <1>2, <1>3, <1>5, SettleKeeps
<1> QED BY <1>4, <1>5

LEMMA AnswerAgainKeeps ==
  ASSUME IInv, NEW r \in Requests, AnswerAgain(r)
  PROVE  IInv'
<1>1. PICK why \in Outcomes : Bill(r, why) /\ Settle(r, why) BY DEF AnswerAgain
<1>2. req[r].pc = "again" BY DEF AnswerAgain
<1>3. PICK b \in 0..1 : billed' = [billed EXCEPT ![r] = b] BY <1>1, <1>2, BillIs DEF Asking
<1> QED BY <1>1, <1>2, <1>3, SettleKeeps

LEMMA HeadAnswerKeeps ==
  ASSUME IInv, NEW r \in Requests, HeadAnswer(r)
  PROVE  IInv'
<1>1. PICK why \in Outcomes : Settle(r, why) BY DEF HeadAnswer
<1>2. req[r].pc = "head" /\ billed' = billed BY DEF HeadAnswer
<1>3. billed[r] \in 0..1 /\ billed' = [billed EXCEPT ![r] = billed[r]]
  BY <1>2 DEF IInv, Typed
<1> QED BY <1>1, <1>2, <1>3, SettleKeeps

\* A call of a provider of the free chain, or of the ask's own, and of no other.
LEMMA CalledIs ==
  ASSUME NEW r \in Requests, NEW c \in [Free \cup {r} -> 0..2], NEW p \in Free \cup {r},
         NEW m \in {0, 1}, c[p] = m
  PROVE  /\ Called(c, p) \in [Free \cup {r} -> 0..2] /\ Called(c, p)[p] = m + 1
         /\ \A x \in Free \cup {r} : x # p => Called(c, p)[x] = c[x]
<1>1. Called(c, p) = [c EXCEPT ![p] = m + 1] BY DEF Called
<1>2. m + 1 \in 0..2 OBVIOUS
<1> QED BY <1>1, <1>2

LEMMA RetryKeeps ==
  ASSUME IInv, NEW r \in Requests, Retry(r)
  PROVE  IInv'
<1> DEFINE q == req[r]  p == Chain(r, q)[q.at]  c == calls[r]  d == Called(c, p)
           a == [q EXCEPT !.pc = "again"]
<1>1. /\ q.pc = "backoff" /\ req' = [req EXCEPT ![r] = a] /\ calls' = [calls EXCEPT ![r] = d]
      /\ UNCHANGED <<breaker, billed, shut, denied, bar, lapsed, late, tripped>>
  BY DEF Retry
<1>t. /\ Typed /\ Billing(r) /\ Placed(r, q) /\ Walked(r, q, c, shut[r]) /\ q \in Asks
      /\ c \in [Free \cup {r} -> 0..2]
  BY DEF IInv, Typed
<1>2. /\ a \in Asks /\ a.lane = q.lane /\ a.ops = q.ops /\ a.pc = "again" /\ a.at = q.at
      /\ a.second = q.second /\ a.ra = q.ra /\ a.rb = q.rb
  BY <1>t DEF Asks, Pcs
<1>3. q.at = Len(Chain(r, q)) /\ q.at \in 1..Len(Chain(r, q)) BY <1>1, <1>t DEF Placed, Asking
<1>4. p \in Free \cup {r} /\ c[p] = 1
  <2>1. p \in Free \cup {r} BY <1>3, ChainIs
  <2>2. c[p] = 1 BY <1>1, <1>t DEF Walked
  <2> QED BY <2>1, <2>2
<1> HIDE DEF a, d, c, p
<1>5. d \in [Free \cup {r} -> 0..2] /\ d[p] = 2 /\ \A x \in Free \cup {r} : x # p => d[x] = c[x]
  <2>1. /\ Called(c, p) \in [Free \cup {r} -> 0..2] /\ Called(c, p)[p] = 1 + 1
        /\ \A x \in Free \cup {r} : x # p => Called(c, p)[x] = c[x]
    BY <1>4, <1>t, CalledIs
  <2> QED BY <2>1 DEF d
<1>6. Chain(r, a) = Chain(r, q) BY <1>2 DEF Chain
<1>7. Placed(r, a) BY <1>1, <1>2, <1>3, <1>6, <1>t DEF Placed, Asking, Racing
<1>8. Reached(a) = Reached(q) BY <1>1, <1>2 DEF Reached, Asking
<1>9. Walked(r, a, d, shut[r])
  <2>1. CASE q.lane = "premium"
    <3>1. p = r
      <4>1. Len(Chain(r, q)) = 1 /\ Chain(r, q)[1] = r BY <2>1, ChainIs
      <4> QED BY <1>3, <4>1 DEF p
    <3>2. \A i \in 1..End : d[FreeChain[i]] = c[FreeChain[i]] BY <1>5, <3>1, ChainFacts
    <3> QED BY <1>2, <1>8, <1>t, <3>2 DEF Walked
  <2>2. CASE q.lane # "premium"
    <3>1. p = FreeChain[End] /\ Reached(q) = End /\ End \in 1..End
      <4>1. Len(Chain(r, q)) = End /\ Chain(r, q) = FreeChain BY <2>2, ChainIs
      <4>2. q.at = End BY <1>3, <4>1
      <4>3. Reached(q) = End BY <1>1, <2>2, <4>2 DEF Reached, Asking
      <4> QED BY <4>1, <4>2, <4>3, ChainFacts DEF p
    <3>2. \A i \in 1..End : i # End => d[FreeChain[i]] = c[FreeChain[i]]
      BY <1>5, <3>1, ChainFacts
    <3>3. \A i \in 1..End : i <= End /\ (i < End => i # End) BY ChainFacts
    <3>4. \A i \in 1..End : d[FreeChain[i]] > 0 \/ FreeChain[i] \in shut[r]
      <4>1. \A i \in 1..End : c[FreeChain[i]] > 0 \/ FreeChain[i] \in shut[r]
        BY <1>t, <3>1, <3>3 DEF Walked
      <4>2. d[FreeChain[End]] > 0 BY <1>5, <3>1
      <4> QED BY <3>2, <4>1, <4>2
    <3> QED BY <1>2, <1>8, <1>t, <3>1, <3>2, <3>3, <3>4 DEF Walked
  <2> QED BY <2>1, <2>2
<1> DEFINE b == billed[r]
<1>10. /\ b \in 0..1 /\ billed' = [billed EXCEPT ![r] = b]
       /\ a.lane = "premium" => b = 0
  BY <1>1, <1>2, <1>t DEF Typed, Billing, Asking
<1> HIDE DEF b
<1>11. Counted(r, d) BY <1>1, <1>t DEF Counted, Typed
<1> QED BY <1>1, <1>2, <1>5, <1>7, <1>9, <1>10, <1>11, StaysKeeps

LEMMA HedgeKeeps ==
  ASSUME IInv, NEW r \in Requests, Hedge(r)
  PROVE  IInv'
<1> DEFINE q == req[r]  p == FreeChain[q.second]  c == calls[r]  d == Called(c, p)
           a == [q EXCEPT !.pc = "race"]
<1>1. /\ q.pc = "head" /\ req' = [req EXCEPT ![r] = a] /\ calls' = [calls EXCEPT ![r] = d]
      /\ UNCHANGED <<breaker, billed, shut, denied, bar, lapsed, late, tripped>>
  BY DEF Hedge
<1>t. /\ Typed /\ Placed(r, q) /\ Walked(r, q, c, shut[r]) /\ q \in Asks
      /\ c \in [Free \cup {r} -> 0..2]
  BY DEF IInv, Typed
<1>2. /\ a \in Asks /\ a.lane = q.lane /\ a.ops = q.ops /\ a.pc = "race" /\ a.at = q.at
      /\ a.second = q.second /\ a.ra = q.ra /\ a.rb = q.rb
  BY <1>t DEF Asks, Pcs
<1>3. /\ q.lane = "free" /\ q.at \in 1..End /\ q.second \in 1..End /\ q.at < q.second
      /\ q.ra = "none" /\ q.rb = "none" /\ Reached(q) = q.at
  BY <1>1, <1>t DEF Placed, Racing, Reached
<1>4. p \in Free \cup {r} /\ c[p] = 0
  <2>1. ~(q.second <= q.at) BY <1>3
  <2> QED BY <1>3, <1>t, <2>1, ChainFacts DEF Walked
<1> HIDE DEF a, d, c, p
<1>5. d \in [Free \cup {r} -> 0..2] /\ d[p] = 1 /\ \A x \in Free \cup {r} : x # p => d[x] = c[x]
  <2>1. /\ Called(c, p) \in [Free \cup {r} -> 0..2] /\ Called(c, p)[p] = 0 + 1
        /\ \A x \in Free \cup {r} : x # p => Called(c, p)[x] = c[x]
    BY <1>4, <1>t, CalledIs
  <2> QED BY <2>1 DEF d
<1>6. Placed(r, a) BY <1>2, <1>3 DEF Placed, Asking, Racing
<1>7. Walked(r, a, d, shut[r])
  <2>1. Reached(a) = q.second BY <1>2, <1>3 DEF Reached, Asking
  <2>2. \A i \in 1..End : i # q.second => d[FreeChain[i]] = c[FreeChain[i]]
    BY <1>3, <1>5, ChainFacts DEF p
  <2>3. d[FreeChain[q.second]] = 1 BY <1>5 DEF p
  <2>4. ASSUME NEW i \in 1..End
        PROVE  IF i <= q.second THEN d[FreeChain[i]] > 0 \/ FreeChain[i] \in shut[r]
                                ELSE d[FreeChain[i]] = 0
    <3>1. CASE i = q.second BY <2>3, <3>1
    <3>2. CASE i <= q.at
      <4>1. i # q.second /\ i <= q.second BY <1>3, <3>2
      <4> QED BY <1>3, <1>t, <2>2, <3>2, <4>1 DEF Walked
    <3>3. CASE q.at < i /\ i < q.second
      <4>1. i <= q.second BY <1>3, <3>3
      <4> QED BY <1>1, <1>t, <3>3, <4>1 DEF Walked
    <3>4. CASE q.second < i
      <4>1. i # q.second /\ ~(i <= q.second) /\ ~(i <= q.at) BY <1>3, <3>4
      <4> QED BY <1>3, <1>t, <2>2, <4>1 DEF Walked
    <3> QED BY <1>3, <3>1, <3>2, <3>3, <3>4
  <2>5. \A i \in 1..End : i < End => d[FreeChain[i]] <= 1 BY <1>t, <2>2, <2>3 DEF Walked
  <2> QED BY <1>2, <2>1, <2>4, <2>5 DEF Walked
<1>8. billed[r] \in 0..1 /\ billed' = [billed EXCEPT ![r] = billed[r]] BY <1>1, <1>t DEF Typed
<1> DEFINE b == billed[r]
<1>9. b \in 0..1 /\ billed' = [billed EXCEPT ![r] = b] /\ (a.lane = "premium" => b = 0)
  BY <1>2, <1>3, <1>8
<1>10. Walked(r, a, d, shut[r]) /\ Placed(r, a) BY <1>6, <1>7
<1> HIDE DEF b
<1>11. Counted(r, d) BY <1>1, <1>t DEF Counted, Typed
<1> QED BY <1>1, <1>2, <1>5, <1>9, <1>10, <1>11, StaysKeeps

LEMMA FirstLegKeeps ==
  ASSUME IInv, NEW r \in Requests, FirstLeg(r)
  PROVE  IInv'
<1> DEFINE q == req[r]
<1>1. PICK why \in Outcomes : req' \in {[req EXCEPT ![r].ra = why], [req EXCEPT ![r].rb = why]}
  BY DEF FirstLeg
<1>2. /\ q.pc = "race" /\ q.ra = "none" /\ q.rb = "none"
      /\ UNCHANGED <<breaker, calls, billed, shut, denied, bar, lapsed, late, tripped>>
  BY DEF FirstLeg, hist
<1>t. /\ Typed /\ Placed(r, q) /\ Walked(r, q, calls[r], shut[r]) /\ q \in Asks
      /\ calls[r] \in [Free \cup {r} -> 0..2]
  BY DEF IInv, Typed
<1>3. PICK a \in {[q EXCEPT !.ra = why], [q EXCEPT !.rb = why]} : req' = [req EXCEPT ![r] = a]
  BY <1>1
<1>4. /\ a \in Asks /\ a.lane = q.lane /\ a.ops = q.ops /\ a.pc = "race" /\ a.at = q.at
      /\ a.second = q.second /\ (a.ra = "none" \/ a.rb = "none")
  <2>1. why \in Reply BY DEF Reply
  <2> QED BY <1>2, <1>t, <2>1 DEF Asks
<1>5. q.lane = "free" BY <1>2, <1>t DEF Placed, Racing
<1>6. Placed(r, a) BY <1>2, <1>4, <1>5, <1>t DEF Placed, Asking, Racing
<1>7. Reached(a) = Reached(q) BY <1>2, <1>4 DEF Reached, Asking
<1>8. Walked(r, a, calls[r], shut[r]) BY <1>2, <1>4, <1>7, <1>t DEF Walked
<1>9. billed[r] \in 0..1 /\ billed' = [billed EXCEPT ![r] = billed[r]] BY <1>2, <1>t DEF Typed
<1>10. a.lane # "premium" BY <1>4, <1>5
<1>11. Counted(r, calls[r]) BY <1>2, <1>t DEF Counted, Typed
<1> QED BY <1>2, <1>3, <1>4, <1>6, <1>8, <1>9, <1>10, <1>11, <1>t, StaysKeeps

LEMMA SecondLegKeeps ==
  ASSUME IInv, NEW r \in Requests, SecondLeg(r)
  PROVE  IInv'
<1> DEFINE q == req[r]
           x == FreeChain[q.at]  y == FreeChain[q.second]
           first == IF q.ra # "none" THEN q.ra ELSE q.rb
           other == IF q.ra # "none" THEN y ELSE x
<1>1. q.pc = "race" /\ first # "none" /\ billed' = billed BY DEF SecondLeg
<1>2. PICK why \in Outcomes :
        /\ Landed(r, [p \in {x, y} |-> IF p = other THEN why ELSE first],
                  IF first = "ok" /\ why \in Aborted THEN {other} ELSE {})
        /\ Become(r, IF "ok" \in {first, why} THEN Served(q)
                     ELSE Advance(r, q, q.second + 1, breaker'))
  BY DEF SecondLeg
<1>t. Typed /\ Placed(r, q) /\ q \in Asks BY DEF IInv, Typed
<1>3. x \in Free /\ y \in Free /\ r # x /\ r # y
  <2>1. q.at \in 1..End /\ q.second \in 1..End BY <1>1, <1>t DEF Placed, Racing
  <2> QED BY <2>1, ChainFacts
<1>4. first \in Outcomes
  <2>1. q.ra \in Reply /\ q.rb \in Reply BY <1>t DEF Asks
  <2> QED BY <1>1, <2>1 DEF Reply
<1>5. billed[r] \in 0..1 /\ billed' = [billed EXCEPT ![r] = billed[r]] BY <1>1, <1>t DEF Typed
<1> HIDE DEF x, y, first, other
<1> DEFINE w == [p \in {x, y} |-> IF p = other THEN why ELSE first]
           lost == IF first = "ok" /\ why \in Aborted THEN {other} ELSE {}
           a == IF "ok" \in {first, why} THEN Served(q) ELSE Advance(r, q, q.second + 1, breaker')
<1>6. Landed(r, w, lost) /\ Become(r, a) BY <1>2
<1>7. DOMAIN w \subseteq Free \cup {r} /\ r \notin DOMAIN w /\ \A p \in DOMAIN w : w[p] \in Outcomes
  BY <1>3, <1>4
<1>8. a = Served(q) \/ a = Advance(r, q, q.second + 1, breaker') OBVIOUS
<1> HIDE DEF w, lost, a
<1> DEFINE k == q.second + 1
<1>9. /\ k = (IF req[r].pc = "race" THEN req[r].second ELSE req[r].at) + 1
      /\ a = Served(q) \/ a = Advance(r, q, k, breaker')
  BY <1>1, <1>8
<1> DEFINE b == billed[r]
<1>10. b \in 0..1 /\ billed' = [billed EXCEPT ![r] = b] BY <1>5
<1>11. r \in DOMAIN w => q.lane = "premium" BY <1>7
<1> HIDE DEF b, k
<1> QED BY <1>1, <1>6, <1>7, <1>9, <1>10, <1>11, LandKeeps

\* An ask that is between operations, and has nothing called.
LEMMA RestIs ==
  ASSUME Typed, NEW r \in Requests, req[r].pc \in {"idle", "ready"},
         Placed(r, req[r]), Walked(r, req[r], calls[r], shut[r]),
         NEW a \in Asks, a.lane = "free", a.pc \in {"ready", "ended"}, a.ra = "none", a.rb = "none",
         req' = [req EXCEPT ![r] = a], calls' = calls, shut' = shut
  PROVE  Turned(r, a)
<1>1. /\ DOMAIN calls' = Requests /\ \A s \in Requests \ {r} : calls'[s] = calls[s]
      /\ calls'[r] \in [Free \cup {r} -> 0..2]
      /\ shut' \in [Requests -> SUBSET Free] /\ \A s \in Requests \ {r} : shut'[s] = shut[s]
  BY DEF Typed
<1>2. Reached(a) = 0 /\ Reached(req[r]) = 0 BY DEF Reached, Asking
<1>3. Placed(r, a) BY DEF Placed, Asking, Racing
<1>4. Walked(r, a, calls[r], shut[r]) BY <1>2 DEF Walked
<1> QED BY <1>1, <1>3, <1>4 DEF Turned

LEMMA ArriveKeeps ==
  ASSUME IInv, NEW r \in Requests, Arrive(r)
  PROVE  IInv'
<1> DEFINE q == req[r]  a == [q EXCEPT !.pc = "ready"]
<1>1. /\ q.pc = "idle" /\ req' = [req EXCEPT ![r] = a]
      /\ UNCHANGED <<breaker, calls, billed, shut, denied, bar, lapsed, late, tripped>>
  BY DEF Arrive, hist
<1>t. /\ Typed /\ Refused(r) /\ Placed(r, q) /\ Walked(r, q, calls[r], shut[r]) /\ q \in Asks
      /\ q.ops <= MaxOps[r]
  BY DEF IInv, Typed
<1>2. q.lane = "free" /\ q.ra = "none" /\ q.rb = "none"
  BY <1>1, <1>t DEF Placed, Asks, Asking
<1>3. a \in Asks /\ a.pc = "ready" /\ a.lane = "free" /\ a.ra = "none" /\ a.rb = "none" /\ a.ops = q.ops
  BY <1>2, <1>t DEF Asks, Pcs
<1> HIDE DEF a
<1>4. Turned(r, a) BY <1>1, <1>3, <1>t, RestIs
<1> DEFINE b == billed[r]
<1>5. b \in 0..1 /\ billed' = [billed EXCEPT ![r] = b] BY <1>1, <1>t DEF Typed
<1> HIDE DEF b
<1> QED BY <1>1, <1>3, <1>4, <1>5, <1>t, QuietKeeps

LEMMA FinishKeeps ==
  ASSUME IInv, NEW r \in Requests, Finish(r)
  PROVE  IInv'
<1> DEFINE q == req[r]  a == [Idle EXCEPT !.pc = "ended"]
<1>1. /\ q.pc = "ready" /\ req' = [req EXCEPT ![r] = a]
      /\ breaker' = [breaker EXCEPT ![r] = Closed] /\ billed' = [billed EXCEPT ![r] = 0]
      /\ denied' = denied \ {r} /\ bar' = bar \ {r} /\ lapsed' = lapsed \ {r}
      /\ UNCHANGED <<calls, shut, tripped>>
  BY DEF Finish
<1>t. /\ Typed /\ Placed(r, q) /\ Walked(r, q, calls[r], shut[r]) BY DEF IInv
<1>2. Idle \in Asks /\ Idle.lane = "free" /\ Idle.ra = "none" /\ Idle.rb = "none" /\ Idle.ops = 0
  <2>1. 0 \in 0..End BY ChainFacts
  <2> QED BY <2>1 DEF Idle, Asks, Pcs, Reply
<1>3. a \in Asks /\ a.pc = "ended" /\ a.lane = "free" /\ a.ra = "none" /\ a.rb = "none" /\ a.ops = 0
  BY <1>2 DEF Asks, Pcs
<1>4. Closed \in Breakers /\ ~Closed.denied BY BoundsAssumption DEF Closed, Breakers
<1>5. /\ breaker' \in [Providers -> Breakers] /\ breaker'[r] = Closed
      /\ \A p \in Providers \ {r} : breaker'[p] = breaker[p]
  <2>1. r \in Providers BY ChainFacts
  <2> QED BY <1>1, <1>4, <1>t, <2>1 DEF Typed
<1>7. /\ denied' \subseteq Requests /\ bar' \subseteq Providers /\ lapsed' \subseteq bar'
      /\ tripped' \subseteq Free
      /\ \A s \in Requests \ {r} : breaker'[s] = breaker[s] /\ (s \in denied' <=> s \in denied)
      /\ r \notin denied' /\ ~breaker'[r].denied
  <2>1. \A s \in Requests \ {r} : breaker'[s] = breaker[s] BY <1>5, ChainFacts
  <2>2. ~breaker'[r].denied BY <1>4, <1>5
  <2> QED BY <1>1, <1>t, <2>1, <2>2 DEF Typed
<1> HIDE DEF a
<1>8. Turned(r, a) BY <1>1, <1>3, <1>t, RestIs
<1>9. a.ops <= MaxOps[r] BY <1>3, BoundsAssumption
<1>10. 0 \in 0..1 OBVIOUS
<1> QED BY <1>1, <1>3, <1>5, <1>7, <1>8, <1>9, <1>10, AskKeeps

\* The window of a provider ends: its bar with its breaker's.
LEMMA ExpireKeeps ==
  ASSUME IInv, NEW p \in Providers \ denied, Expire(p)
  PROVE  IInv'
<1>1. /\ breaker' = [breaker EXCEPT ![p] = [breaker[p] EXCEPT !.open = FALSE, !.denied = FALSE]]
      /\ bar' = bar \ {p} /\ lapsed' = lapsed \ {p} /\ tripped' = tripped \ {p}
      /\ UNCHANGED <<req, calls, billed, shut, denied>>
  BY DEF Expire
<1>t. Typed BY DEF IInv
<1>2. p \in Providers OBVIOUS
<1>3. [breaker[p] EXCEPT !.open = FALSE, !.denied = FALSE] \in Breakers
  <2>1. breaker[p] \in Breakers BY <1>2, <1>t DEF Typed
  <2> QED BY <2>1 DEF Breakers
<1>4. breaker' \in [Providers -> Breakers] /\ \A x \in Providers \ {p} : breaker'[x] = breaker[x]
  BY <1>1, <1>2, <1>3, <1>t DEF Typed
<1>5. Typed' BY <1>1, <1>4, <1>t DEF Typed
<1>7. ASSUME NEW s \in Requests
      PROVE  /\ Placed(s, req'[s]) /\ Walked(s, req'[s], calls'[s], shut'[s])
             /\ Billing(s)' /\ Refused(s)'
  <2>1. /\ breaker'[s].denied = breaker[s].denied
        /\ s \in denied => breaker'[s].open = breaker[s].open
    <3>1. s \in Providers /\ breaker[s] \in Breakers BY <1>t, ChainFacts DEF Typed
    <3>2. CASE s # p BY <1>4, <3>1, <3>2
    <3>3. CASE s = p
      <4>1. ~breaker[s].denied BY <3>3 DEF IInv, Refused
      <4> QED BY <1>1, <1>t, <3>1, <3>3, <4>1 DEF Typed, Breakers
    <3> QED BY <3>2, <3>3
  <2>2. /\ Placed(s, req[s]) /\ Walked(s, req[s], calls[s], shut[s])
        /\ Billing(s) /\ Refused(s)
    BY DEF IInv
  <2> QED BY <1>1, <2>1, <2>2 DEF Billing, Refused
<1> QED BY <1>5, <1>7 DEF IInv

---------------------------------------------------------------------------
(* Together.                                                                *)

LEMMA InvInit == Init => IInv
<1> SUFFICES ASSUME Init PROVE IInv OBVIOUS
<1>1. /\ breaker = [p \in Providers |-> Closed] /\ req = [r \in Requests |-> Idle]
      /\ calls = [r \in Requests |-> [p \in Free \cup {r} |-> 0]]
      /\ billed = [r \in Requests |-> 0] /\ shut = [r \in Requests |-> {}]
      /\ denied = {} /\ bar = {} /\ lapsed = {} /\ tripped = {}
  BY DEF Init
<1>2. Closed \in Breakers /\ ~Closed.denied BY BoundsAssumption DEF Closed, Breakers
<1>3. Idle \in Asks /\ Idle.pc = "idle" /\ Idle.lane = "free" /\ Idle.ra = "none" /\ Idle.rb = "none"
      /\ Idle.ops = 0
  <2>1. 0 \in 0..End BY ChainFacts
  <2> QED BY <2>1 DEF Idle, Asks, Pcs, Reply
<1>4. \A r \in Requests : MaxOps[r] \in Nat BY BoundsAssumption
<1>5. 0 \in 0..2 /\ 0 \in 0..1 OBVIOUS
<1>6. Typed BY <1>1, <1>2, <1>3, <1>4, <1>5 DEF Typed
<1>8. ASSUME NEW r \in Requests
      PROVE  /\ Placed(r, req[r]) /\ Walked(r, req[r], calls[r], shut[r])
             /\ Billing(r) /\ Refused(r)
  <2>1. req[r] = Idle /\ breaker[r] = Closed /\ r \notin denied BY <1>1, ChainFacts
  <2>2. \A p \in Free \cup {r} : calls[r][p] = 0 BY <1>1
  <2>3. \A i \in 1..End : ~(i <= 0) /\ calls[r][FreeChain[i]] = 0 /\ calls[r][FreeChain[i]] <= 1
    <3>1. \A i \in 1..End : ~(i <= 0) /\ FreeChain[i] \in Free \cup {r} BY ChainFacts
    <3> QED BY <2>2, <3>1
  <2>4. Reached(Idle) = 0 BY <1>3 DEF Reached, Asking
  <2>5. Walked(r, Idle, calls[r], shut[r]) BY <1>3, <2>2, <2>3, <2>4 DEF Walked
  <2>6. Placed(r, Idle) BY <1>3 DEF Placed, Asking, Racing
  <2>7. Billing(r) BY <1>3, <2>1 DEF Billing
  <2>8. Refused(r) BY <1>2, <1>3, <2>1 DEF Refused
  <2> QED BY <2>1, <2>5, <2>6, <2>7, <2>8
<1> QED BY <1>6, <1>8 DEF IInv

LEMMA InvStep == IInv /\ [Next]_vars => IInv'
<1> SUFFICES ASSUME IInv, [Next]_vars PROVE IInv' OBVIOUS
<1>1. ASSUME NEW r \in Requests, Arrive(r) \/ Step(r) PROVE IInv'
  <2>1. CASE Arrive(r) BY <2>1, ArriveKeeps
  <2>2. CASE Dispatch(r) BY <2>2, DispatchKeeps
  <2>3. CASE Fallback(r) BY <2>3, FallbackKeeps
  <2>4. CASE Answer(r) BY <2>4, AnswerKeeps
  <2>5. CASE Retry(r) BY <2>5, RetryKeeps
  <2>6. CASE AnswerAgain(r) BY <2>6, AnswerAgainKeeps
  <2>7. CASE HeadAnswer(r) BY <2>7, HeadAnswerKeeps
  <2>8. CASE Hedge(r) BY <2>8, HedgeKeeps
  <2>9. CASE FirstLeg(r) BY <2>9, FirstLegKeeps
  <2>10. CASE SecondLeg(r) BY <2>10, SecondLegKeeps
  <2>11. CASE Fail(r) BY <2>11, FailKeeps
  <2>12. CASE Finish(r) BY <2>12, FinishKeeps
  <2> QED BY <1>1, <2>1, <2>2, <2>3, <2>4, <2>5, <2>6, <2>7, <2>8, <2>9, <2>10, <2>11, <2>12
      DEF Step
<1>2. ASSUME NEW p \in Providers \ denied, Expire(p) PROVE IInv' BY <1>2, ExpireKeeps
<1>3. CASE UNCHANGED vars
  BY <1>3 DEF vars, hist, IInv, Typed, Billing, Refused
<1> QED BY <1>1, <1>2, <1>3 DEF Next

LEMMA Invariance == Spec => []IInv
BY InvInit, InvStep, PTL DEF Spec

---------------------------------------------------------------------------
(* Bars.  What keeps them is that an ask takes up no provider whose breaker *)
(* is open, and that it leaves what it had in hand by a result only.        *)

BarsInv == BarsHold /\ late \in [Providers -> SUBSET Requests]

\* InHand, of an ask whose state is q.
Hand(r, q, p) ==
  \/ q.pc \in {"call", "backoff", "again", "head", "race"} /\ p = Chain(r, q)[q.at]
  \/ q.pc \in {"head", "race"} /\ p = FreeChain[q.second]

LEMMA HandIs ==
  /\ \A r, p : InHand(r, p) <=> Hand(r, req[r], p)
  /\ \A r, p : InHand(r, p)' <=> Hand(r, req'[r], p)
BY DEF InHand, Hand, Chain

\* Whom an ask takes up as it goes on has a closed breaker.
LEMMA OntoHand ==
  ASSUME NEW r \in Requests, NEW q \in Asks, NEW k \in Nat, NEW brk, NEW a, Onto(r, q, k, brk, a),
         NEW p, Hand(r, a, p)
  PROVE  ~brk[p].open
<1>1. Chain(r, a) = Chain(r, q) BY DEF Onto, Chain
<1>2. CASE a.pc = "call" BY <1>1, <1>2 DEF Onto, Hand
<1>3. CASE a.pc = "head"
  <2>1. Chain(r, q) = FreeChain BY <1>3 DEF Onto, Chain
  <2> QED BY <1>1, <1>3, <2>1 DEF Onto, Hand
<1> QED BY <1>2, <1>3 DEF Onto, Hand

\* A step of an ask that settles nothing.
LEMMA QuietBars ==
  ASSUME IInv, BarsInv, NEW r \in Requests, NEW a, req' = [req EXCEPT ![r] = a],
         UNCHANGED <<breaker, bar, lapsed, late>>,
         \A p \in Providers : Hand(r, a, p) => Hand(r, req[r], p) \/ ~breaker[p].open
  PROVE  BarsInv'
<1>1. req'[r] = a /\ \A x \in Requests \ {r} : req'[x] = req[x] BY DEF IInv, Typed
<1>2. ASSUME NEW p \in bar' \ lapsed', NEW x \in Requests, Hand(x, req'[x], p)
      PROVE  x \in late'[p]
  <2>1. p \in bar \ lapsed /\ p \in Providers BY DEF IInv, Typed
  <2>2. breaker[p].open BY <2>1 DEF BarsInv, BarsHold
  <2>3. Hand(x, req[x], p) BY <1>1, <1>2, <2>1, <2>2
  <2> QED BY <2>1, <2>3, HandIs DEF BarsInv, BarsHold
<1>3. \A p \in bar' \ lapsed' : breaker'[p].open BY DEF BarsInv, BarsHold
<1> QED BY <1>2, <1>3, HandIs DEF BarsInv, BarsHold

\* A step of an ask with results of calls it had in hand.
LEMMA LandedBars ==
  ASSUME IInv, BarsInv, NEW r \in Requests, NEW a, req' = [req EXCEPT ![r] = a],
         NEW why, NEW lost, Landed(r, why, lost), DOMAIN why \subseteq Providers,
         \A p \in DOMAIN why : why[p] \in Outcomes /\ Hand(r, req[r], p),
         \A p \in Providers : Hand(r, a, p) => ~breaker'[p].open
  PROVE  BarsInv'
<1> DEFINE barring == {p \in DOMAIN why : why[p] \in {"rate_limited", "auth_denied"}}
<1>1. req'[r] = a /\ \A x \in Requests \ {r} : req'[x] = req[x] BY DEF IInv, Typed
<1>2. /\ \A p \in Providers :
           breaker'[p] = IF p \in DOMAIN why THEN Updated(breaker[p], why[p]) ELSE breaker[p]
      /\ bar' = bar \cup barring
      /\ late' = [p \in Providers |->
              IF p \in barring THEN {x \in Requests \ {r} : InHand(x, p)} ELSE late[p] \ {r}]
      /\ lapsed' = (lapsed \cup {p \in bar \cap DOMAIN why : r \in late[p] /\ ~breaker'[p].open})
                     \ barring
  BY DEF Landed
<1>3. bar \subseteq Providers /\ barring \subseteq DOMAIN why BY DEF IInv, Typed
<1>4. late' \in [Providers -> SUBSET Requests] BY <1>2 DEF BarsInv
<1>5. ASSUME NEW p \in bar' \ lapsed'
      PROVE  /\ breaker'[p].open
             /\ \A x \in Requests : Hand(x, req'[x], p) => x \in late'[p]
  <2>0. p \in Providers BY <1>2, <1>3
  <2>1. CASE p \in barring
    <3>1. breaker'[p].open
      <4>1. breaker[p] \in Breakers BY <2>0 DEF IInv, Typed
      <4>2. Updated(breaker[p], why[p]).open BY <2>1, <4>1, UpdatedIs
      <4> QED BY <1>2, <1>3, <2>0, <2>1, <4>2
    <3>2. ASSUME NEW x \in Requests, Hand(x, req'[x], p) PROVE x \in late'[p]
      <4>1. x # r BY <1>1, <2>0, <3>1, <3>2
      <4>2. Hand(x, req[x], p) BY <1>1, <3>2, <4>1
      <4>3. InHand(x, p) BY <4>2, HandIs
      <4> QED BY <1>2, <2>0, <2>1, <4>1, <4>3
    <3> QED BY <3>1, <3>2
  <2>2. CASE p \notin barring
    <3>0. p \in bar /\ p \notin lapsed BY <1>2, <2>2
    <3>1. breaker[p].open /\ \A x \in Requests : Hand(x, req[x], p) => x \in late[p]
      BY <3>0, HandIs DEF BarsInv, BarsHold
    <3>2. breaker'[p].open
      <4>1. CASE p \in DOMAIN why
        <5>1. r \in late[p] BY <3>1, <4>1
        <5> QED BY <1>2, <2>2, <3>0, <4>1, <5>1
      <4>2. CASE p \notin DOMAIN why BY <1>2, <2>0, <3>1, <4>2
      <4> QED BY <4>1, <4>2
    <3>3. ASSUME NEW x \in Requests, Hand(x, req'[x], p) PROVE x \in late'[p]
      <4>1. x # r BY <1>1, <2>0, <3>2, <3>3
      <4>2. x \in late[p] BY <1>1, <3>1, <3>3, <4>1
      <4> QED BY <1>2, <2>0, <2>2, <4>1, <4>2
    <3> QED BY <3>2, <3>3
  <2> QED BY <2>1, <2>2
<1> QED BY <1>4, <1>5, HandIs DEF BarsInv, BarsHold

\* The results are in, and the ask is served or goes on.
LEMMA GoesOnBars ==
  ASSUME IInv, BarsInv, NEW r \in Requests, NEW k \in Nat \ {0},
         NEW why, NEW lost, Landed(r, why, lost), DOMAIN why \subseteq Providers,
         \A p \in DOMAIN why : why[p] \in Outcomes /\ Hand(r, req[r], p),
         NEW a, a = Served(req[r]) \/ a = Advance(r, req[r], k, breaker'), Become(r, a)
  PROVE  BarsInv'
<1>1. req' = [req EXCEPT ![r] = a] BY DEF Become
<1>2. ASSUME NEW p \in Providers, Hand(r, a, p) PROVE ~breaker'[p].open
  <2>1. CASE a = Served(req[r])
    <3>1. a.pc = "ready" BY <2>1 DEF Served, Between, Idle
    <3> QED BY <1>2, <3>1 DEF Hand
  <2>2. CASE a = Advance(r, req[r], k, breaker')
    <3>1. req[r] \in Asks BY DEF IInv, Typed
    <3>2. Onto(r, req[r], k, breaker', a) BY <2>2, <3>1, AdvanceIs
    <3> QED BY <1>2, <3>1, <3>2, OntoHand
  <2> QED BY <2>1, <2>2
<1> QED BY <1>1, <1>2, LandedBars

LEMMA SettleBars ==
  ASSUME IInv, BarsInv, NEW r \in Requests, req[r].pc \in {"call", "again", "head"},
         NEW why \in Outcomes, Settle(r, why)
  PROVE  BarsInv'
<1> DEFINE q == req[r]  p == Chain(r, q)[q.at]  w == [x \in {p} |-> why]
           a == IF why = "ok" THEN Served(q) ELSE Advance(r, q, q.at + 1, breaker')
<1>1. Landed(r, w, {}) /\ Become(r, a) BY DEF Settle
<1>t. Placed(r, q) /\ q \in Asks BY DEF IInv, Typed
<1>2. q.at \in 1..Len(Chain(r, q)) /\ Len(Chain(r, q)) \in Nat
  <2>1. q.lane # "premium" => Len(Chain(r, q)) = End BY ChainIs
  <2>2. CASE q.pc \in Asking BY <1>t, <2>2, ChainIs DEF Placed
  <2>3. CASE q.pc = "head" BY <1>t, <2>1, <2>3, ChainIs DEF Placed, Racing
  <2> QED BY <2>2, <2>3 DEF Asking
<1>3. p \in Providers BY <1>2, ChainIs
<1>4. Hand(r, q, p) BY DEF Hand
<1>5. DOMAIN w = {p} /\ \A x \in DOMAIN w : w[x] \in Outcomes OBVIOUS
<1>6. a = Served(q) \/ a = Advance(r, q, q.at + 1, breaker') OBVIOUS
<1> DEFINE k == q.at + 1
<1>7. k \in Nat \ {0} BY <1>2
<1> HIDE DEF p, w, a
<1>8. DOMAIN w \subseteq Providers /\ \A x \in DOMAIN w : w[x] \in Outcomes /\ Hand(r, req[r], x)
  BY <1>3, <1>4, <1>5
<1>9. a = Served(req[r]) \/ a = Advance(r, req[r], k, breaker') BY <1>6
<1> HIDE DEF k, q
<1> QED BY <1>1, <1>7, <1>8, <1>9, GoesOnBars

LEMMA SecondLegBars ==
  ASSUME IInv, BarsInv, NEW r \in Requests, SecondLeg(r)
  PROVE  BarsInv'
<1> DEFINE q == req[r]
           x == FreeChain[q.at]  y == FreeChain[q.second]
           first == IF q.ra # "none" THEN q.ra ELSE q.rb
           other == IF q.ra # "none" THEN y ELSE x
<1>1. q.pc = "race" /\ first # "none" BY DEF SecondLeg
<1>2. PICK why \in Outcomes :
        /\ Landed(r, [p \in {x, y} |-> IF p = other THEN why ELSE first],
                  IF first = "ok" /\ why \in Aborted THEN {other} ELSE {})
        /\ Become(r, IF "ok" \in {first, why} THEN Served(q)
                     ELSE Advance(r, q, q.second + 1, breaker'))
  BY DEF SecondLeg
<1>t. Placed(r, q) /\ q \in Asks BY DEF IInv, Typed
<1>3. q.at \in 1..End /\ q.second \in 1..End /\ q.lane = "free" BY <1>1, <1>t DEF Placed, Racing
<1>4. x \in Providers /\ y \in Providers BY <1>3, ChainFacts
<1>5. Hand(r, q, x) /\ Hand(r, q, y) BY <1>1, <1>3 DEF Hand, Chain
<1>6. first \in Outcomes
  <2>1. q.ra \in Reply /\ q.rb \in Reply BY <1>t DEF Asks
  <2> QED BY <1>1, <2>1 DEF Reply
<1>7. q.second + 1 \in Nat \ {0} BY <1>3
<1> HIDE DEF x, y, first, other
<1> DEFINE w == [p \in {x, y} |-> IF p = other THEN why ELSE first]
           lost == IF first = "ok" /\ why \in Aborted THEN {other} ELSE {}
           k == q.second + 1
           a == IF "ok" \in {first, why} THEN Served(q) ELSE Advance(r, q, k, breaker')
<1>8. Landed(r, w, lost) /\ Become(r, a) BY <1>2
<1>9. DOMAIN w \subseteq Providers /\ \A p \in DOMAIN w : w[p] \in Outcomes /\ Hand(r, req[r], p)
  BY <1>4, <1>5, <1>6
<1>10. a = Served(req[r]) \/ a = Advance(r, req[r], k, breaker') OBVIOUS
<1>11. k \in Nat \ {0} BY <1>7
<1> HIDE DEF w, lost, a, k, q
<1> QED BY <1>8, <1>9, <1>10, <1>11, GoesOnBars

\* An ask that enters a chain.
LEMMA EnterBars ==
  ASSUME IInv, BarsInv, NEW r \in Requests, NEW q \in Asks, q.ra = "none", q.rb = "none",
         NEW hedged \in BOOLEAN, Become(r, Enter(r, q, breaker, hedged)),
         UNCHANGED <<breaker, bar, lapsed, late>>
  PROVE  BarsInv'
<1> DEFINE a == Enter(r, q, breaker, hedged)
<1>1. Onto(r, q, 1, breaker, a) BY EnterIs
<1>2. req' = [req EXCEPT ![r] = a] BY DEF Become
<1> HIDE DEF a
<1>3. \A p \in Providers : Hand(r, a, p) => ~breaker[p].open BY <1>1, OntoHand
<1> QED BY <1>2, <1>3, QuietBars

LEMMA DispatchBars ==
  ASSUME IInv, BarsInv, NEW r \in Requests, Dispatch(r) \/ Fallback(r)
  PROVE  BarsInv'
<1>t. Placed(r, req[r]) /\ req[r] \in Asks BY DEF IInv, Typed
<1>1. UNCHANGED <<breaker, bar, lapsed, late>> BY DEF Dispatch, Fallback
<1>2. req[r].ra = "none" /\ req[r].rb = "none" BY <1>t DEF Dispatch, Fallback, Placed
<1>3. CASE Dispatch(r)
  <2> DEFINE lane == IF r \in Paying THEN "premium" ELSE "free"
             q == [req[r] EXCEPT !.ops = req[r].ops + 1, !.lane = lane]
  <2>1. PICK hedged \in BOOLEAN : Become(r, Enter(r, q, breaker, hedged)) BY <1>3 DEF Dispatch
  <2>2. lane \in {"free", "premium"} /\ req[r].ops + 1 \in Nat BY <1>t DEF Asks
  <2> HIDE DEF lane
  <2>3. q \in Asks /\ q.ra = "none" /\ q.rb = "none" BY <1>2, <1>t, <2>2 DEF Asks
  <2> QED BY <1>1, <2>1, <2>3, EnterBars
<1>4. CASE Fallback(r)
  <2> DEFINE q == [req[r] EXCEPT !.lane = "free"]
  <2>1. PICK hedged \in BOOLEAN : Become(r, Enter(r, q, breaker, hedged)) BY <1>4 DEF Fallback
  <2>2. q \in Asks /\ q.ra = "none" /\ q.rb = "none" BY <1>2, <1>t DEF Asks
  <2> QED BY <1>1, <2>1, <2>2, EnterBars
<1> QED BY <1>3, <1>4

\* An ask that waits, or makes the call it had in hand.
LEMMA StaysBars ==
  ASSUME IInv, BarsInv, NEW r \in Requests, UNCHANGED <<breaker, bar, lapsed, late>>,
         NEW a, req' = [req EXCEPT ![r] = a],
         \/ a.pc \notin {"call", "backoff", "again", "head", "race"}
         \/ /\ a.lane = req[r].lane /\ a.at = req[r].at /\ a.second = req[r].second
            /\ \/ a.pc \in {"backoff", "again"} /\ req[r].pc \in {"call", "backoff"}
               \/ a.pc = "race" /\ req[r].pc \in {"head", "race"}
  PROVE  BarsInv'
<1>1. \A p \in Providers : Hand(r, a, p) => Hand(r, req[r], p) BY DEF Hand, Chain
<1> QED BY <1>1, QuietBars

LEMMA BarsStep == IInv /\ BarsInv /\ [Next]_vars => BarsInv'
<1> SUFFICES ASSUME IInv, BarsInv, [Next]_vars PROVE BarsInv' OBVIOUS
<1>1. ASSUME NEW r \in Requests, Arrive(r) \/ Step(r) PROVE BarsInv'
  <2>t. req[r] \in Asks BY DEF IInv, Typed
  <2>1. CASE Arrive(r)
    <3> DEFINE a == [req[r] EXCEPT !.pc = "ready"]
    <3>1. req' = [req EXCEPT ![r] = a] /\ UNCHANGED <<breaker, bar, lapsed, late>>
      BY <2>1 DEF Arrive, hist
    <3>2. a.pc = "ready" BY <2>t DEF Asks
    <3> HIDE DEF a
    <3> QED BY <3>1, <3>2, StaysBars
  <2>2. CASE Dispatch(r) \/ Fallback(r) BY <2>2, DispatchBars
  <2>3. CASE Answer(r)
    <3>1. PICK why \in Outcomes :
             \/ Settle(r, why)
             \/ /\ req' = [req EXCEPT ![r].pc = "backoff"]
                /\ UNCHANGED <<breaker, bar, lapsed, late>>
      BY <2>3 DEF Answer
    <3>2. req[r].pc = "call" BY <2>3 DEF Answer
    <3>3. CASE Settle(r, why) BY <3>2, <3>3, SettleBars
    <3>4. CASE /\ req' = [req EXCEPT ![r].pc = "backoff"]
               /\ UNCHANGED <<breaker, bar, lapsed, late>>
      <4> DEFINE a == [req[r] EXCEPT !.pc = "backoff"]
      <4>1. req' = [req EXCEPT ![r] = a] BY <3>4
      <4>2. /\ a.pc = "backoff" /\ a.lane = req[r].lane /\ a.at = req[r].at
            /\ a.second = req[r].second
        BY <2>t DEF Asks
      <4> HIDE DEF a
      <4> QED BY <3>2, <3>4, <4>1, <4>2, StaysBars
    <3> QED BY <3>1, <3>3, <3>4
  <2>4. CASE Retry(r)
    <3> DEFINE a == [req[r] EXCEPT !.pc = "again"]
    <3>1. /\ req' = [req EXCEPT ![r] = a] /\ UNCHANGED <<breaker, bar, lapsed, late>>
          /\ req[r].pc = "backoff"
      BY <2>4 DEF Retry
    <3>2. a.pc = "again" /\ a.lane = req[r].lane /\ a.at = req[r].at /\ a.second = req[r].second
      BY <2>t DEF Asks
    <3> HIDE DEF a
    <3> QED BY <3>1, <3>2, StaysBars
  <2>5. CASE AnswerAgain(r) \/ HeadAnswer(r)
    <3>1. PICK why \in Outcomes : Settle(r, why) BY <2>5 DEF AnswerAgain, HeadAnswer
    <3>2. req[r].pc \in {"again", "head"} BY <2>5 DEF AnswerAgain, HeadAnswer
    <3> QED BY <3>1, <3>2, SettleBars
  <2>6. CASE Hedge(r)
    <3> DEFINE a == [req[r] EXCEPT !.pc = "race"]
    <3>1. /\ req' = [req EXCEPT ![r] = a] /\ UNCHANGED <<breaker, bar, lapsed, late>>
          /\ req[r].pc = "head"
      BY <2>6 DEF Hedge
    <3>2. a.pc = "race" /\ a.lane = req[r].lane /\ a.at = req[r].at /\ a.second = req[r].second
      BY <2>t DEF Asks
    <3> HIDE DEF a
    <3> QED BY <3>1, <3>2, StaysBars
  <2>7. CASE FirstLeg(r)
    <3>1. PICK why \in Outcomes : req' \in {[req EXCEPT ![r].ra = why], [req EXCEPT ![r].rb = why]}
      BY <2>7 DEF FirstLeg
    <3>2. PICK a \in {[req[r] EXCEPT !.ra = why], [req[r] EXCEPT !.rb = why]} :
            req' = [req EXCEPT ![r] = a]
      BY <3>1
    <3>3. req[r].pc = "race" /\ UNCHANGED <<breaker, bar, lapsed, late>> BY <2>7 DEF FirstLeg, hist
    <3>4. a.pc = "race" /\ a.lane = req[r].lane /\ a.at = req[r].at /\ a.second = req[r].second
      BY <2>t, <3>3 DEF Asks
    <3> QED BY <3>2, <3>3, <3>4, StaysBars
  <2>8. CASE SecondLeg(r) BY <2>8, SecondLegBars
  <2>9. CASE Fail(r)
    <3> DEFINE a == Between(req[r], "ready")
    <3>1. req' = [req EXCEPT ![r] = a] /\ UNCHANGED <<breaker, bar, lapsed, late>>
      BY <2>9 DEF Fail, Become
    <3>2. a.pc = "ready" BY DEF Between, Idle
    <3> HIDE DEF a
    <3> QED BY <3>1, <3>2, StaysBars
  <2>10. CASE Finish(r)
    <3> DEFINE a == [Idle EXCEPT !.pc = "ended"]
    <3>1. /\ req' = [req EXCEPT ![r] = a] /\ breaker' = [breaker EXCEPT ![r] = Closed]
          /\ bar' = bar \ {r} /\ lapsed' = lapsed \ {r} /\ late' = [late EXCEPT ![r] = {}]
      BY <2>10 DEF Finish
    <3>2. a.pc = "ended" BY DEF Idle
    <3> HIDE DEF a
    <3>3. /\ req'[r] = a /\ \A x \in Requests \ {r} : req'[x] = req[x]
          /\ \A p \in Providers \ {r} : breaker'[p] = breaker[p] /\ late'[p] = late[p]
          /\ late' \in [Providers -> SUBSET Requests] /\ bar \subseteq Providers
      BY <3>1 DEF IInv, Typed, BarsInv
    <3>4. ASSUME NEW p \in bar' \ lapsed'
          PROVE  /\ breaker'[p].open
                 /\ \A x \in Requests : Hand(x, req'[x], p) => x \in late'[p]
      <4>1. p \in bar \ lapsed /\ p \in Providers \ {r} BY <3>1, <3>3
      <4>2. breaker[p].open /\ \A x \in Requests : Hand(x, req[x], p) => x \in late[p]
        BY <4>1, HandIs DEF BarsInv, BarsHold
      <4>3. ~Hand(r, req'[r], p) BY <3>2, <3>3 DEF Hand
      <4> QED BY <3>3, <4>1, <4>2, <4>3
    <3> QED BY <3>3, <3>4, HandIs DEF BarsInv, BarsHold
  <2> QED BY <1>1, <2>1, <2>2, <2>3, <2>4, <2>5, <2>6, <2>7, <2>8, <2>9, <2>10 DEF Step
<1>2. ASSUME NEW p \in Providers, Expire(p) PROVE BarsInv'
  <2>1. /\ breaker' = [breaker EXCEPT ![p] = [breaker[p] EXCEPT !.open = FALSE, !.denied = FALSE]]
        /\ bar' = bar \ {p} /\ lapsed' = lapsed \ {p} /\ late' = [late EXCEPT ![p] = {}]
        /\ req' = req
    BY <1>2 DEF Expire
  <2>2. /\ \A x \in Providers \ {p} : breaker'[x] = breaker[x] /\ late'[x] = late[x]
        /\ late' \in [Providers -> SUBSET Requests] /\ bar \subseteq Providers
    BY <2>1 DEF IInv, Typed, BarsInv
  <2>3. \A x \in bar' \ lapsed' : x \in bar \ lapsed /\ x \in Providers \ {p} BY <2>1, <2>2
  <2>4. \A x \in bar \ lapsed :
          breaker[x].open /\ \A r \in Requests : Hand(r, req[r], x) => r \in late[x]
    BY HandIs DEF BarsInv, BarsHold
  <2> QED BY <2>1, <2>2, <2>3, <2>4, HandIs DEF BarsInv, BarsHold
<1>3. CASE UNCHANGED vars
  <2>1. UNCHANGED <<breaker, req, bar, lapsed, late>> BY <1>3 DEF vars, hist
  <2> QED BY <2>1 DEF BarsInv, BarsHold, InHand, Chain
<1> QED BY <1>1, <1>2, <1>3 DEF Next

LEMMA BarsInvariance == Spec => []BarsInv
<1>1. Init => BarsInv BY DEF Init, BarsInv, BarsHold
<1> QED BY <1>1, Invariance, BarsStep, PTL DEF Spec

\* Places, replies, call counts and breakers stay in their ranges.
THEOREM Types == Spec => []TypeOK
<1>1. IInv /\ BarsInv => TypeOK
  <2> SUFFICES ASSUME IInv, BarsInv PROVE TypeOK OBVIOUS
  <2>1. Typed BY DEF IInv
  <2>2. breaker \in [Providers -> [n : 0..Threshold, open : BOOLEAN, denied : BOOLEAN]]
    BY <2>1 DEF Typed, Breakers
  <2>3. req \in [Requests -> [pc : {"idle", "ready", "call", "backoff", "again", "head", "race",
                                    "fallback", "lost", "ended"},
                              lane : {"free", "premium"},
                              at : 0..Len(FreeChain), second : 0..Len(FreeChain),
                              ra : Outcomes \cup {"none"}, rb : Outcomes \cup {"none"},
                              ops : Nat]]
    BY <2>1 DEF Typed, Asks, Pcs, Reply, End
  <2>4. \A r \in Requests : calls[r] \in [Free \cup {r} -> 0..2] /\ shut[r] \subseteq Free
    BY <2>1 DEF Typed
  <2>5. billed \in [Requests -> 0..2]
    <3>1. \A b \in 0..1 : b \in 0..2 OBVIOUS
    <3> QED BY <2>1, <3>1 DEF Typed
  <2> QED BY <2>1, <2>2, <2>3, <2>4, <2>5 DEF Typed, TypeOK, BarsInv
<1> QED BY <1>1, Invariance, BarsInvariance, PTL

\* dispatch and raceHedgedPair: an operation is lost only when each provider of
\* the free chain was called for it or found parked, or when the premium
\* credentials were refused (withFallbackRouter).
THEOREM Exhausts == Spec => []LostMeansExhausted
<1>1. IInv => LostMeansExhausted
  <2> SUFFICES ASSUME IInv, NEW r \in Requests, req[r].pc = "lost"
               PROVE  IF req[r].lane = "premium" THEN r \in denied
                      ELSE \A p \in Free : calls[r][p] > 0 \/ p \in shut[r]
    BY DEF LostMeansExhausted
  <2>1. CASE req[r].lane = "premium" BY <2>1 DEF IInv, Refused
  <2>2. CASE req[r].lane # "premium"
    <3>1. Reached(req[r]) = End BY <2>2 DEF Reached, Asking
    <3>2. \A i \in 1..End : i <= End BY ChainFacts
    <3>3. Walked(r, req[r], calls[r], shut[r]) BY DEF IInv
    <3>4. \A i \in 1..End : calls[r][FreeChain[i]] > 0 \/ FreeChain[i] \in shut[r]
      BY <3>1, <3>2, <3>3 DEF Walked
    <3> QED BY <2>2, <3>4, ChainFacts
  <2> QED BY <2>1, <2>2
<1> QED BY <1>1, Invariance, PTL

\* The tail retry of dispatch and the fallback of a premium ask: however they
\* combine with races, an operation calls a provider once, the last of a chain
\* twice at most, and reports premium usage once.
THEOREM CostsOnce == Spec => []RetriesCostOnce
<1>1. IInv => RetriesCostOnce
  <2> SUFFICES ASSUME IInv, NEW r \in Requests
               PROVE  /\ \A p \in Free \cup {r} :
                           calls[r][p] <= IF p = FreeChain[Len(FreeChain)] \/ p = r THEN 2 ELSE 1
                      /\ billed[r] <= 1
    BY DEF RetriesCostOnce
  <2>1. Typed /\ Walked(r, req[r], calls[r], shut[r]) BY DEF IInv
  <2>2. billed[r] \in 0..1 /\ calls[r] \in [Free \cup {r} -> 0..2] BY <2>1 DEF Typed
  <2>3. ASSUME NEW p \in Free \cup {r}
        PROVE  calls[r][p] <= IF p = FreeChain[Len(FreeChain)] \/ p = r THEN 2 ELSE 1
    <3>1. calls[r][p] \in 0..2 BY <2>2
    <3>2. CASE p = FreeChain[Len(FreeChain)] \/ p = r BY <3>1, <3>2
    <3>3. CASE ~(p = FreeChain[Len(FreeChain)] \/ p = r)
      <4>1. PICK i \in 1..End : p = FreeChain[i] BY <3>3, ChainFacts
      <4>2. i < End BY <3>3, <4>1, ChainFacts DEF End
      <4>3. calls[r][p] <= 1 BY <2>1, <4>1, <4>2 DEF Walked
      <4> QED BY <3>3, <4>3
    <3> QED BY <3>2, <3>3
  <2> QED BY <2>2, <2>3
<1> QED BY <1>1, Invariance, PTL

\* withFallbackRouter on auth_denied: an ask whose premium credentials were refused
\* is not served by the free chain as if premium were only out of order.
THEOREM RefusalsAreLoud == Spec => []RefusalIsLoud
<1>1. IInv => RefusalIsLoud
  <2> SUFFICES ASSUME IInv, NEW r \in denied
               PROVE  req[r].lane = "premium" \/ req[r].pc \in {"ready", "ended"}
    BY DEF RefusalIsLoud
  <2>1. r \in Requests BY DEF IInv, Typed
  <2> QED BY <2>1 DEF IInv, Refused
<1> QED BY <1>1, Invariance, PTL

\* updateBreakerFromResult, isOpen: a provider that said 429, 401 or 403 stays parked
\* for its window and is taken up by no ask, unless a call that was out when it said
\* so closes the breaker.
THEOREM BarsAreKept == Spec => []BarsHold
<1>1. BarsInv => BarsHold BY DEF BarsInv
<1> QED BY <1>1, BarsInvariance, PTL
=============================================================================
