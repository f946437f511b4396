------------------------- MODULE AskPipelineProofs -------------------------
(***************************************************************************)
(* For any number of hops, tenants, statements, attempts and faults: no    *)
(* write takes effect that its own tenant has not been shown before.       *)
(***************************************************************************)
EXTENDS AskPipeline, FiniteSetTheorems, TLAPS

Rest == {"idle", "done", "dead"}

\* What a request may rely on at each point of its way.  Until it has answered
\* it has previewed nothing; what it took from the stash is, word for word,
\* what another hop of its tenant previewed; and it does not execute a write it
\* has not taken from there.
Sound(h, r, shown) ==
  /\ r.pc \notin Rest => r.tenant \in Tenants
  /\ r.pc \in {"stash", "cache", "plan"} => r.by = NoHop
  /\ r.pc \in {"gate", "diff", "render", "exec", "spend", "store"} => r.plan \in Plans
  /\ r.pc = "diff" => IsWrite(r.plan)
  /\ r.pc \in {"gate", "exec", "spend"} /\ r.by # NoHop =>
       IsWrite(r.plan) /\ shown[r.by] = [plan |-> r.plan, tenant |-> r.tenant]
  /\ r.pc = "exec" /\ IsWrite(r.plan) => r.by # NoHop
  /\ r.pc \notin {"render", "done", "dead"} => shown[h] = NoDiff

FromPreview(t, s, shown) ==
  /\ s.plan \in Plans /\ IsWrite(s.plan)
  /\ s.by \in Hops /\ shown[s.by] = [plan |-> s.plan, tenant |-> t]

Bound ==
  /\ \A h \in Hops : Sound(h, hop[h], previews)
  /\ \A t \in Tenants : stash[t] # NoStash => FromPreview(t, stash[t], previews)
  /\ IsFiniteSet(commits)

IInv == TypeOK /\ Bound /\ CommitsWerePreviewed

---------------------------------------------------------------------------
\* A preview that was made is not the absent one.
LEMMA PreviewIsNotAbsent ==
  \A p \in Plans : p # NoPlan /\ \A t : [plan |-> p, tenant |-> t] # NoDiff
<1> SUFFICES ASSUME NEW p \in Plans
             PROVE  p # NoPlan /\ \A t : [plan |-> p, tenant |-> t] # NoDiff
  OBVIOUS
<1>1. p.sql \in Reads \cup Writes /\ p.schema \in Tenants \cup {"relative"}
      /\ p = [sql |-> p.sql, schema |-> p.schema]
  BY DEF Plans
<1>2. p # NoPlan BY <1>1, NamesAssumption
<1>3. ASSUME NEW t, [plan |-> p, tenant |-> t] = NoDiff PROVE FALSE
  <2>1. [plan |-> p, tenant |-> t].plan = NoDiff.plan BY <1>3
  <2> QED BY <1>2, <2>1 DEF NoDiff
<1> QED BY <1>2, <1>3

LEMMA FreshIsRequest ==
  ASSUME NEW l \in Pcs
  PROVE  /\ Fresh(l) \in Request
         /\ l \in {"done", "dead"} => \A h, shown : Sound(h, Fresh(l), shown)
<1>1. Fresh(l) \in Request BY BoundsAssumption DEF Fresh, Request
<1>2. Fresh(l).pc = l BY DEF Fresh
<1> QED BY <1>1, <1>2 DEF Sound, Rest

\* What a statement becomes when it is normalised: its own tenant's schema is gone.
LEMMA NormalisedIsOwnFree ==
  ASSUME NEW h \in Hops, hop[h].tenant \in Tenants, NEW q \in Plans
  PROVE  Normalised(h, q) \in Plans /\ Normalised(h, q).schema # hop[h].tenant
<1>1. /\ [q EXCEPT !.schema = "relative"] \in Plans
      /\ [q EXCEPT !.schema = "relative"].schema = "relative"
  BY DEF Plans
<1> QED BY <1>1, NamesAssumption DEF Normalised

---------------------------------------------------------------------------
\* One step of one hop: the others, what they took from the stash and what has
\* committed stay bound to their previews, for only a hop that has not
\* previewed anything yet previews.
LEMMA Frame ==
  ASSUME IInv, NEW h \in Hops, NEW r \in Request, hop' = [hop EXCEPT ![h] = r],
         Sound(h, r, previews'),
         previews' = previews \/ (hop[h].pc = "diff" /\ previews' = Diffed(h))
  PROVE  /\ hop' \in [Hops -> Request]
         /\ previews' \in [Hops -> [plan : Plans \cup {NoPlan}, tenant : Tenants \cup {NoTenant}]]
         /\ \A g \in Hops : Sound(g, hop'[g], previews')
         /\ \A t \in Tenants : \A s : FromPreview(t, s, previews) => FromPreview(t, s, previews')
         /\ \A c \in commits : /\ c.by \in Hops \ {c.hop}
                               /\ previews'[c.by] = [plan |-> c.plan, tenant |-> c.tenant]
<1>1. hop \in [Hops -> Request] /\ hop[h] \in Request BY DEF IInv, TypeOK
<1>2. hop' \in [Hops -> Request] BY <1>1
<1>3. previews' \in [Hops -> [plan : Plans \cup {NoPlan}, tenant : Tenants \cup {NoTenant}]]
  <2>1. [plan |-> hop[h].plan, tenant |-> hop[h].tenant]
          \in [plan : Plans \cup {NoPlan}, tenant : Tenants \cup {NoTenant}]
    BY <1>1 DEF Request
  <2> QED BY <2>1 DEF IInv, TypeOK, Diffed
<1>4. \A g \in Hops : g # h => previews'[g] = previews[g]
  BY DEF IInv, TypeOK, Diffed
<1>5. \A g \in Hops : previews[g] # NoDiff => previews'[g] = previews[g]
  <2>1. CASE previews' = previews BY <2>1
  <2>2. CASE hop[h].pc = "diff"
    <3>1. previews[h] = NoDiff BY <2>2 DEF IInv, Bound, Sound
    <3> QED BY <1>4, <3>1
  <2> QED BY <2>1, <2>2
<1>6. ASSUME NEW g \in Hops PROVE Sound(g, hop'[g], previews')
  <2>1. CASE g = h BY <1>1, <2>1
  <2>2. CASE g # h
    <3>1. hop'[g] = hop[g] /\ hop[g] \in Request BY <1>1, <2>2
    <3>2. Sound(g, hop[g], previews) BY DEF IInv, Bound
    <3>3. ASSUME hop[g].pc \in {"gate", "exec", "spend"}, hop[g].by # NoHop
          PROVE  previews'[hop[g].by] = previews[hop[g].by]
      <4>1. hop[g].by \in Hops BY <3>1, <3>3 DEF Request
      <4>2. hop[g].plan \in Plans
            /\ previews[hop[g].by] = [plan |-> hop[g].plan, tenant |-> hop[g].tenant]
        BY <3>2, <3>3 DEF Sound
      <4> QED BY <1>5, <4>1, <4>2, PreviewIsNotAbsent
    <3>4. previews'[g] = previews[g] BY <1>4, <2>2
    <3> HIDE DEF Rest
    <3> QED BY <3>1, <3>2, <3>3, <3>4 DEF Sound
  <2> QED BY <2>1, <2>2
<1>7. ASSUME NEW t \in Tenants, NEW s, FromPreview(t, s, previews)
      PROVE  FromPreview(t, s, previews')
  <2>1. s.plan \in Plans /\ s.by \in Hops /\ previews[s.by] = [plan |-> s.plan, tenant |-> t]
    BY <1>7 DEF FromPreview
  <2>2. previews'[s.by] = previews[s.by] BY <1>5, <2>1, PreviewIsNotAbsent
  <2> QED BY <1>7, <2>1, <2>2 DEF FromPreview
<1>8. ASSUME NEW c \in commits
      PROVE  c.by \in Hops \ {c.hop} /\ previews'[c.by] = [plan |-> c.plan, tenant |-> c.tenant]
  <2>1. c.plan \in Plans BY DEF IInv, TypeOK
  <2>2. c.by \in Hops \ {c.hop} /\ previews[c.by] = [plan |-> c.plan, tenant |-> c.tenant]
    BY DEF IInv, CommitsWerePreviewed
  <2> QED BY <1>5, <2>1, <2>2, PreviewIsNotAbsent
<1> QED BY <1>2, <1>3, <1>6, <1>7, <1>8

\* A step that previews and commits nothing keeps the invariant if it leaves
\* its own request sound, and of the stash at most a preview less.
LEMMA QuietStep ==
  ASSUME IInv, NEW h \in Hops, NEW r \in Request, hop' = [hop EXCEPT ![h] = r],
         Sound(h, r, previews),
         previews' = previews, commits' = commits,
         stash' = stash \/ \E t \in Tenants : stash' = [stash EXCEPT ![t] = NoStash],
         cache' \in Plans \cup {NoPlan},
         overlap' \in BOOLEAN, faults' \in 0..MaxFaults
  PROVE  IInv'
<1>1. /\ hop' \in [Hops -> Request]
      /\ \A g \in Hops : Sound(g, hop'[g], previews')
      /\ \A c \in commits : /\ c.by \in Hops \ {c.hop}
                            /\ previews'[c.by] = [plan |-> c.plan, tenant |-> c.tenant]
  <2>1. Sound(h, r, previews') OBVIOUS
  <2> QED BY <2>1, Frame
<1>2. NoStash \in [plan : Plans \cup {NoPlan}, by : Hops \cup {NoHop}] BY DEF NoStash
<1>3. stash' \in [Tenants -> [plan : Plans \cup {NoPlan}, by : Hops \cup {NoHop}]]
  BY <1>2 DEF IInv, TypeOK
<1>4. \A t \in Tenants : stash'[t] = stash[t] \/ stash'[t] = NoStash BY DEF IInv, TypeOK
<1>5. \A t \in Tenants : stash'[t] # NoStash => FromPreview(t, stash'[t], previews')
  BY <1>4 DEF IInv, Bound
<1>6. TypeOK' BY <1>1, <1>3 DEF IInv, TypeOK
<1>7. Bound' BY <1>1, <1>5 DEF IInv, Bound
<1>8. CommitsWerePreviewed' BY <1>1 DEF CommitsWerePreviewed
<1> QED BY <1>6, <1>7, <1>8 DEF IInv

\* The way out: a request that ends leaves nothing to be sound about.
LEMMA EndKeeps ==
  ASSUME IInv, NEW h \in Hops, NEW l \in {"done", "dead"}, Goto(h, l),
         previews' = previews, commits' = commits,
         stash' = stash \/ \E t \in Tenants : stash' = [stash EXCEPT ![t] = NoStash],
         cache' \in Plans \cup {NoPlan},
         overlap' \in BOOLEAN, faults' \in 0..MaxFaults
  PROVE  IInv'
<1>1. l \in Pcs BY DEF Pcs
<1>2. Fresh(l) \in Request /\ Sound(h, Fresh(l), previews) BY <1>1, FreshIsRequest
<1>3. hop' = [hop EXCEPT ![h] = Fresh(l)] BY DEF Goto
<1> QED BY <1>2, <1>3, QuietStep

\* A commit is of a preview: the request took its plan from the stash, and the
\* hop that put it there is another one, for this one has previewed nothing.
LEMMA CommitStep ==
  ASSUME IInv, NEW h \in Hops, NEW r \in Request, hop' = [hop EXCEPT ![h] = r],
         Sound(h, r, previews),
         hop[h].pc = "exec", IsWrite(hop[h].plan),
         commits' \in {commits, commits \cup {Effect(h)}},
         UNCHANGED <<stash, cache, previews, overlap>>,
         faults' \in 0..MaxFaults
  PROVE  IInv'
<1>1. /\ hop' \in [Hops -> Request]
      /\ \A g \in Hops : Sound(g, hop'[g], previews')
      /\ \A c \in commits : /\ c.by \in Hops \ {c.hop}
                            /\ previews'[c.by] = [plan |-> c.plan, tenant |-> c.tenant]
  <2>1. Sound(h, r, previews') OBVIOUS
  <2> QED BY <2>1, Frame
<1>2. hop[h] \in Request BY DEF IInv, TypeOK
<1>3. /\ hop[h].tenant \in Tenants /\ hop[h].plan \in Plans
      /\ hop[h].by \in Hops
      /\ previews[hop[h].by] = [plan |-> hop[h].plan, tenant |-> hop[h].tenant]
      /\ previews[h] = NoDiff
  <2>1. Sound(h, hop[h], previews) BY DEF IInv, Bound
  <2>2. hop[h].by \in Hops \cup {NoHop} BY <1>2 DEF Request
  <2> QED BY <2>1, <2>2 DEF Sound, Rest
<1>4. hop[h].by # h BY <1>3, PreviewIsNotAbsent
<1>5. IsFiniteSet(commits) BY DEF IInv, Bound
<1>6. IsFiniteSet(commits') BY <1>5, FS_AddElement
<1>7. Cardinality({c \in commits : c.hop = h}) + 1 \in Nat
  <2>1. IsFiniteSet({c \in commits : c.hop = h}) BY <1>5, FS_Subset
  <2> QED BY <2>1, FS_CardinalityType
<1>8. Effect(h) \in [hop : Hops, nth : Nat, tenant : Tenants, plan : Plans,
                     by : Hops \cup {NoHop}, readOnly : BOOLEAN]
  BY <1>2, <1>3, <1>7 DEF Effect, Request
<1>9. /\ Effect(h).hop = h /\ Effect(h).by = hop[h].by
      /\ Effect(h).plan = hop[h].plan /\ Effect(h).tenant = hop[h].tenant
  BY DEF Effect
<1>10. TypeOK' BY <1>1, <1>8 DEF IInv, TypeOK
<1>11. Bound' BY <1>1, <1>6 DEF IInv, Bound
<1>12. CommitsWerePreviewed'
  <2>1. ASSUME NEW c \in commits'
        PROVE  c.by \in Hops \ {c.hop} /\ previews'[c.by] = [plan |-> c.plan, tenant |-> c.tenant]
    <3>1. CASE c \in commits BY <1>1, <3>1
    <3>2. CASE c = Effect(h)
      <4>1. c.hop = h /\ c.by = hop[h].by /\ c.plan = hop[h].plan /\ c.tenant = hop[h].tenant
        BY <1>9, <3>2
      <4> QED BY <1>3, <1>4, <4>1
    <3> QED BY <3>1, <3>2
  <2> QED BY <2>1 DEF CommitsWerePreviewed
<1> QED BY <1>10, <1>11, <1>12 DEF IInv

\* A preview goes into the stash, or fails to, while its hop is still unanswered.
LEMMA PreviewStep ==
  ASSUME IInv, NEW h \in Hops, hop[h].pc = "diff", Goto(h, "render"), previews' = Diffed(h),
         stash' \in {stash, [stash EXCEPT ![hop[h].tenant] = Preview(h)]},
         UNCHANGED <<cache, commits, overlap>>,
         faults' \in 0..MaxFaults
  PROVE  IInv'
<1> DEFINE r == [hop[h] EXCEPT !.pc = "render"]
<1>1. hop \in [Hops -> Request] /\ hop[h] \in Request BY DEF IInv, TypeOK
<1>2. Sound(h, hop[h], previews) BY DEF IInv, Bound
<1>3. hop[h].tenant \in Tenants /\ hop[h].plan \in Plans /\ IsWrite(hop[h].plan)
  BY <1>2 DEF Sound, Rest
<1>4. r \in Request BY <1>1 DEF Request, Pcs
<1>5. r.pc = "render" /\ r.plan = hop[h].plan /\ r.tenant = hop[h].tenant BY <1>1 DEF Request
<1>6. hop' = [hop EXCEPT ![h] = r] BY <1>1 DEF Goto
<1> HIDE DEF r
<1>7. Sound(h, r, previews') BY <1>3, <1>5 DEF Sound
<1>8. /\ hop' \in [Hops -> Request]
      /\ previews' \in [Hops -> [plan : Plans \cup {NoPlan}, tenant : Tenants \cup {NoTenant}]]
      /\ \A g \in Hops : Sound(g, hop'[g], previews')
      /\ \A t \in Tenants : \A s : FromPreview(t, s, previews) => FromPreview(t, s, previews')
      /\ \A c \in commits : /\ c.by \in Hops \ {c.hop}
                            /\ previews'[c.by] = [plan |-> c.plan, tenant |-> c.tenant]
  BY <1>4, <1>6, <1>7, Frame
<1>9. Preview(h) \in [plan : Plans \cup {NoPlan}, by : Hops \cup {NoHop}] BY <1>3 DEF Preview
<1>10. stash' \in [Tenants -> [plan : Plans \cup {NoPlan}, by : Hops \cup {NoHop}]]
  BY <1>9 DEF IInv, TypeOK
<1>11. FromPreview(hop[h].tenant, Preview(h), previews')
  <2>1. previews'[h] = [plan |-> hop[h].plan, tenant |-> hop[h].tenant]
    BY DEF Diffed, IInv, TypeOK
  <2> QED BY <1>3, <2>1 DEF FromPreview, Preview
<1>12. ASSUME NEW t \in Tenants, stash'[t] # NoStash PROVE FromPreview(t, stash'[t], previews')
  <2>1. CASE stash'[t] = stash[t]
    <3>1. FromPreview(t, stash[t], previews) BY <1>12, <2>1 DEF IInv, Bound
    <3> QED BY <1>8, <2>1, <3>1
  <2>2. CASE stash'[t] # stash[t]
    <3>1. t = hop[h].tenant /\ stash'[t] = Preview(h) BY <2>2 DEF IInv, TypeOK
    <3> QED BY <1>11, <3>1
  <2> QED BY <2>1, <2>2
<1>13. TypeOK' BY <1>8, <1>10 DEF IInv, TypeOK
<1>14. Bound' BY <1>8, <1>12 DEF IInv, Bound
<1>15. CommitsWerePreviewed' BY <1>8 DEF CommitsWerePreviewed
<1> QED BY <1>13, <1>14, <1>15 DEF IInv

---------------------------------------------------------------------------
LEMMA InvInit == Init => IInv
<1> SUFFICES ASSUME Init PROVE IInv OBVIOUS
<1>1. "idle" \in Pcs BY DEF Pcs
<1>2. Fresh("idle") \in Request BY <1>1, FreshIsRequest
<1>3. hop \in [Hops -> Request] BY <1>2 DEF Init
<1>4. stash \in [Tenants -> [plan : Plans \cup {NoPlan}, by : Hops \cup {NoHop}]]
  BY DEF Init, NoStash
<1>5. cache \in Plans \cup {NoPlan} BY DEF Init
<1>6. previews \in [Hops -> [plan : Plans \cup {NoPlan}, tenant : Tenants \cup {NoTenant}]]
  BY DEF Init, NoDiff
<1>a. faults \in 0..MaxFaults BY BoundsAssumption DEF Init
<1>b. commits = {} /\ overlap \in BOOLEAN BY DEF Init
<1>8. TypeOK BY <1>3, <1>4, <1>5, <1>6, <1>a, <1>b DEF TypeOK
<1>9. ASSUME NEW h \in Hops PROVE Sound(h, hop[h], previews)
  <2>1. hop[h].pc = "idle" /\ previews[h] = NoDiff BY DEF Init, Fresh
  <2> QED BY <2>1 DEF Sound, Rest
<1>10. Bound BY <1>9, FS_EmptySet DEF Init, Bound
<1>11. CommitsWerePreviewed BY DEF Init, CommitsWerePreviewed
<1> QED BY <1>8, <1>10, <1>11 DEF IInv

\* Every step of a hop keeps the invariant.
LEMMA HopStep ==
  ASSUME IInv, NEW h \in Hops, Arrive(h) \/ Step(h) \/ Fail(h)
  PROVE  IInv'
<1>t. TypeOK BY DEF IInv
<1>r. hop \in [Hops -> Request] /\ hop[h] \in Request BY <1>t DEF TypeOK
<1>s. Sound(h, hop[h], previews) BY DEF IInv, Bound
<1>k. /\ cache \in Plans \cup {NoPlan}
      /\ overlap \in BOOLEAN /\ faults \in 0..MaxFaults
  BY <1>t DEF TypeOK
<1>f. Fault => faults' \in 0..MaxFaults BY <1>k, BoundsAssumption DEF Fault
<1>1. CASE Arrive(h)
  <2>1. PICK t \in Tenants, c \in BOOLEAN, ro \in BOOLEAN, i \in Intents :
          /\ hop' = [hop EXCEPT ![h] = [Fresh(IF c THEN "stash" ELSE "cache") EXCEPT
                       !.tenant = t, !.confirm = c, !.readOnly = ro, !.intent = i]]
          /\ overlap' = (overlap \/ (c /\ \E g \in InFlight : hop[g].confirm /\ hop[g].tenant = t))
    BY <1>1 DEF Arrive
  <2> DEFINE l == IF c THEN "stash" ELSE "cache"
             r == [Fresh(l) EXCEPT !.tenant = t, !.confirm = c, !.readOnly = ro, !.intent = i]
  <2>2. l \in Pcs /\ l \in {"stash", "cache"} BY DEF Pcs
  <2>3. Fresh(l) \in Request BY <2>2, FreshIsRequest
  <2>5. i \in {"query", "write"} BY NamesAssumption
  <2>6. Fresh(l).pc = l /\ Fresh(l).by = NoHop BY DEF Fresh
  <2>7. hop' = [hop EXCEPT ![h] = r] BY <2>1
  <2>8. overlap' \in BOOLEAN BY <2>1, Zenon
  <2>9. previews[h] = NoDiff BY <1>1, <1>s DEF Arrive, Sound
  <2> HIDE DEF l
  <2>10. r \in Request BY <2>3, <2>5 DEF Request
  <2>11. r.pc = l /\ r.by = NoHop /\ r.tenant = t BY <2>3, <2>6 DEF Request
  <2> HIDE DEF r
  <2>12. Sound(h, r, previews) BY <2>2, <2>9, <2>11 DEF Sound, Rest
  <2>13. UNCHANGED <<stash, cache, previews, commits, faults>> BY <1>1 DEF Arrive
  <2> QED BY <1>k, <2>7, <2>8, <2>10, <2>12, <2>13, QuietStep
<1>2. CASE \/ Refused(h) \/ Unfit(h) \/ NoPreview(h) \/ ExecTerminal(h)
           \/ SpendFails(h) \/ StoreFails(h) \/ Die(h)
  <2>1. \E l \in {"done", "dead"} : Goto(h, l)
    BY <1>2 DEF Refused, Unfit, NoPreview, ExecTerminal, SpendFails, StoreFails, Die
  <2>2. UNCHANGED <<stash, cache, history>> /\ faults' \in 0..MaxFaults
    BY <1>2, <1>f, <1>k
       DEF Refused, Unfit, NoPreview, ExecTerminal, SpendFails, StoreFails, Die
  <2> QED BY <1>k, <2>1, <2>2, EndKeeps DEF history
<1>3. CASE LookupStash(h)
  <2> DEFINE l == IF Mine(h) = NoStash THEN "cache" ELSE "gate"
             r == [hop[h] EXCEPT !.pc = l, !.plan = Mine(h).plan, !.by = Mine(h).by]
  <2>1. hop[h].pc = "stash" /\ hop[h].tenant \in Tenants /\ previews[h] = NoDiff
    BY <1>3, <1>s DEF LookupStash, Sound, Rest
  <2>2. Mine(h) \in [plan : Plans \cup {NoPlan}, by : Hops \cup {NoHop}]
    BY <1>t, <2>1 DEF TypeOK, Mine
  <2>3. l \in Pcs BY DEF Pcs
  <2>4. r \in Request BY <1>r, <2>2, <2>3 DEF Request
  <2>5. hop' = [hop EXCEPT ![h] = r] BY <1>3, <1>r DEF LookupStash
  <2>6. r.pc = l /\ r.tenant = hop[h].tenant /\ r.plan = Mine(h).plan /\ r.by = Mine(h).by
    BY <1>r DEF Request
  <2> HIDE DEF r
  <2>7. Sound(h, r, previews)
    <3>1. CASE Mine(h) = NoStash
      <4>1. r.pc = "cache" /\ r.by = NoHop BY <2>6, <3>1 DEF NoStash
      <4> QED BY <2>1, <2>6, <4>1 DEF Sound, Rest
    <3>2. CASE Mine(h) # NoStash
      <4>1. FromPreview(hop[h].tenant, Mine(h), previews) BY <2>1, <3>2 DEF IInv, Bound, Mine
      <4>2. r.pc = "gate" BY <2>6, <3>2
      <4> QED BY <2>1, <2>6, <4>1, <4>2 DEF Sound, Rest, FromPreview
    <3> QED BY <3>1, <3>2
  <2>8. UNCHANGED <<stash, cache, previews, commits, overlap, faults>>
    BY <1>3 DEF LookupStash, history
  <2> QED BY <1>k, <2>4, <2>5, <2>7, <2>8, QuietStep
<1>4. CASE LookupCache(h)
  <2>1. /\ hop[h].pc = "cache" /\ hop[h].tenant \in Tenants /\ hop[h].by = NoHop
        /\ previews[h] = NoDiff
    BY <1>4, <1>s DEF LookupCache, Sound, Rest
  <2>2. UNCHANGED <<stash, cache, previews, commits, overlap, faults>>
    BY <1>4 DEF LookupCache, history
  <2>3. CASE Usable(h)
    <3> DEFINE p == Normalised(h, cache)
               r == [hop[h] EXCEPT !.pc = "gate", !.plan = p, !.hit = TRUE]
    <3>1. p \in Plans BY <1>k, <2>3 DEF Usable, Normalised, Plans
    <3>2. r \in Request BY <1>r, <3>1 DEF Request, Pcs
    <3>3. r.pc = "gate" /\ r.plan = p /\ r.by = NoHop /\ r.tenant = hop[h].tenant
      BY <1>r, <2>1 DEF Request
    <3>4. hop' = [hop EXCEPT ![h] = r] BY <1>4, <1>r, <2>3 DEF LookupCache
    <3> HIDE DEF r, p
    <3>5. Sound(h, r, previews) BY <2>1, <3>1, <3>3 DEF Sound, Rest
    <3> QED BY <1>k, <2>2, <3>2, <3>4, <3>5, QuietStep
  <2>4. CASE ~Usable(h)
    <3> DEFINE r == [hop[h] EXCEPT !.pc = "plan"]
    <3>1. r \in Request BY <1>r DEF Request, Pcs
    <3>2. r.pc = "plan" /\ r.by = NoHop /\ r.tenant = hop[h].tenant BY <1>r, <2>1 DEF Request
    <3>3. hop' = [hop EXCEPT ![h] = r] BY <1>4, <1>r, <2>4 DEF LookupCache, Goto
    <3> HIDE DEF r
    <3>4. Sound(h, r, previews) BY <2>1, <3>2 DEF Sound, Rest
    <3> QED BY <1>k, <2>2, <3>1, <3>3, <3>4, QuietStep
  <2> QED BY <2>3, <2>4
<1>5. CASE Plan(h)
  <2>1. PICK q \in Plans :
          hop' = [hop EXCEPT ![h].pc = "gate", ![h].plan = Normalised(h, q), ![h].attempt = 1]
    BY <1>5 DEF Plan
  <2> DEFINE p == Normalised(h, q)
             r == [hop[h] EXCEPT !.pc = "gate", !.plan = p, !.attempt = 1]
  <2>b. hop[h].tenant \in Tenants BY <1>5, <1>s DEF Plan, Sound, Rest
  <2>2. p \in Plans BY <2>b, NormalisedIsOwnFree
  <2>3. hop' = [hop EXCEPT ![h] = r] BY <1>r, <2>1
  <2>a. 1 \in 1..MaxAttempts BY BoundsAssumption
  <2>4. r \in Request BY <1>r, <2>2, <2>a DEF Request, Pcs
  <2>5. /\ hop[h].tenant \in Tenants /\ hop[h].by = NoHop /\ previews[h] = NoDiff
    BY <1>5, <1>s DEF Plan, Sound, Rest
  <2>6. r.pc = "gate" /\ r.plan = p /\ r.by = NoHop /\ r.tenant = hop[h].tenant
    BY <1>r, <2>5 DEF Request
  <2> HIDE DEF r, p
  <2>7. Sound(h, r, previews) BY <2>2, <2>5, <2>6 DEF Sound, Rest
  <2>8. UNCHANGED <<stash, cache, previews, commits, overlap, faults>>
    BY <1>5 DEF Plan, history
  <2> QED BY <1>k, <2>3, <2>4, <2>7, <2>8, QuietStep
\* One more attempt, and nothing else.
<1>a. ASSUME hop[h].attempt < MaxAttempts, hop' = [hop EXCEPT ![h].attempt = @ + 1],
             UNCHANGED <<stash, cache, previews, commits, overlap>>,
             faults' \in 0..MaxFaults
      PROVE  IInv'
  <2> DEFINE r == [hop[h] EXCEPT !.attempt = hop[h].attempt + 1]
  <2>1. hop[h].attempt \in 1..MaxAttempts BY <1>r DEF Request
  <2>2. hop[h].attempt + 1 \in 1..MaxAttempts BY <1>a, <2>1, BoundsAssumption
  <2>3. r \in Request BY <1>r, <2>2 DEF Request
  <2>4. r.pc = hop[h].pc /\ r.plan = hop[h].plan /\ r.by = hop[h].by /\ r.tenant = hop[h].tenant
    BY <1>r DEF Request
  <2>5. hop' = [hop EXCEPT ![h] = r] BY <1>a, <1>r
  <2> HIDE DEF r
  <2>6. Sound(h, r, previews) BY <1>s, <2>4 DEF Sound
  <2> QED BY <1>a, <1>k, <2>3, <2>5, <2>6, QuietStep
<1>6. CASE PlanRejected(h) \/ ExecUnreachable(h)
  <2>1. UNCHANGED <<stash, cache, previews, commits, overlap, faults>>
    BY <1>6 DEF PlanRejected, ExecUnreachable, history
  <2>2. CASE hop[h].attempt < MaxAttempts
    <3>1. hop' = [hop EXCEPT ![h].attempt = @ + 1]
      BY <1>6, <2>2 DEF PlanRejected, ExecUnreachable, Retry
    <3> QED BY <1>a, <1>k, <2>1, <2>2, <3>1
  <2>3. CASE ~(hop[h].attempt < MaxAttempts)
    <3>1. Goto(h, "done") BY <1>6, <2>3 DEF PlanRejected, ExecUnreachable, Retry
    <3> QED BY <1>k, <2>1, <3>1, EndKeeps
  <2> QED BY <2>2, <2>3
\* A move on that keeps what the request holds.
<1>m. ASSUME NEW l \in Pcs \ {"done", "dead"}, Goto(h, l)
      PROVE  \E r \in Request :
               /\ hop' = [hop EXCEPT ![h] = r]
               /\ r.pc = l /\ r.plan = hop[h].plan /\ r.by = hop[h].by
               /\ r.tenant = hop[h].tenant
  <2> DEFINE r == [hop[h] EXCEPT !.pc = l]
  <2>1. r \in Request BY <1>r DEF Request
  <2>2. r.pc = l /\ r.plan = hop[h].plan /\ r.by = hop[h].by /\ r.tenant = hop[h].tenant
    BY <1>r DEF Request
  <2>3. hop' = [hop EXCEPT ![h] = r] BY <1>m, <1>r DEF Goto
  <2> HIDE DEF r
  <2> QED BY <2>1, <2>2, <2>3
<1>7. CASE Gate(h)
  <2>1. UNCHANGED <<stash, cache, previews, commits, overlap, faults>>
    BY <1>7 DEF Gate, history
  <2>2. hop[h].pc = "gate" BY <1>7 DEF Gate
  <2>3. CASE Forbidden(h) \/ Expired(h)
    <3>1. Goto(h, "done") BY <1>7, <2>3 DEF Gate
    <3> QED BY <1>k, <2>1, <3>1, EndKeeps
  <2>4. CASE ~(Forbidden(h) \/ Expired(h)) /\ Previewed(h)
    <3>1. Goto(h, "diff") BY <1>7, <2>4 DEF Gate
    <3>2. PICK r \in Request :
            /\ hop' = [hop EXCEPT ![h] = r]
            /\ r.pc = "diff" /\ r.plan = hop[h].plan /\ r.by = hop[h].by
            /\ r.tenant = hop[h].tenant
      BY <1>m, <3>1 DEF Pcs
    <3>3. Sound(h, r, previews) BY <1>s, <2>2, <2>4, <3>2 DEF Sound, Rest, Previewed
    <3> QED BY <1>k, <2>1, <3>2, <3>3, QuietStep
  <2>5. CASE ~(Forbidden(h) \/ Expired(h)) /\ ~Previewed(h)
    <3>1. Goto(h, "exec") BY <1>7, <2>5 DEF Gate
    <3>2. PICK r \in Request :
            /\ hop' = [hop EXCEPT ![h] = r]
            /\ r.pc = "exec" /\ r.plan = hop[h].plan /\ r.by = hop[h].by
            /\ r.tenant = hop[h].tenant
      BY <1>m, <3>1 DEF Pcs
    <3>3. IsWrite(hop[h].plan) => hop[h].by # NoHop BY <2>5 DEF Expired, Previewed
    <3>4. Sound(h, r, previews) BY <1>s, <2>2, <3>2, <3>3 DEF Sound, Rest
    <3> QED BY <1>k, <2>1, <3>2, <3>4, QuietStep
  <2> QED BY <2>3, <2>4, <2>5
<1>8. CASE WriteStash(h)
  BY <1>8, <1>k, PreviewStep DEF WriteStash
<1>9. CASE WriteStashFails(h)
  BY <1>9, <1>f, PreviewStep DEF WriteStashFails
<1>10. CASE Render(h)
  <2>1. Goto(h, "done") /\ UNCHANGED <<stash, cache, previews, commits, overlap, faults>>
    BY <1>10 DEF Render, history
  <2> QED BY <1>k, <2>1, EndKeeps
<1>11. CASE ExecWrite(h)
  <2>1. /\ hop[h].pc = "exec" /\ IsWrite(hop[h].plan)
        /\ commits' \in {commits, commits \cup {Effect(h)}}
        /\ UNCHANGED <<stash, cache, previews, overlap>>
        /\ faults' \in 0..MaxFaults
    BY <1>11, <1>k DEF ExecWrite
  <2>2. CASE hop[h].by = NoHop BY <1>s, <2>1, <2>2 DEF Sound
  <2>3. CASE hop[h].by # NoHop
    <3>1. Goto(h, "spend") BY <1>11, <2>3 DEF ExecWrite
    <3>2. PICK r \in Request :
            /\ hop' = [hop EXCEPT ![h] = r]
            /\ r.pc = "spend" /\ r.plan = hop[h].plan /\ r.by = hop[h].by
            /\ r.tenant = hop[h].tenant
      BY <1>m, <3>1 DEF Pcs
    <3>3. Sound(h, r, previews) BY <1>s, <2>1, <3>2 DEF Sound, Rest
    <3> QED BY <2>1, <3>2, <3>3, CommitStep
  <2> QED BY <2>2, <2>3
<1>12. CASE ExecAnswerLost(h)
  <2>1. /\ hop[h].pc = "exec" /\ IsWrite(hop[h].plan)
        /\ commits' \in {commits, commits \cup {Effect(h)}}
        /\ UNCHANGED <<stash, cache, previews, overlap>>
        /\ faults' \in 0..MaxFaults
    BY <1>12, <1>f DEF ExecAnswerLost
  <2>2. CASE Goto(h, "done")
    <3>1. "done" \in Pcs BY DEF Pcs
    <3>2. Fresh("done") \in Request /\ Sound(h, Fresh("done"), previews)
      BY <3>1, FreshIsRequest
    <3>3. hop' = [hop EXCEPT ![h] = Fresh("done")] BY <2>2 DEF Goto
    <3> QED BY <2>1, <3>2, <3>3, CommitStep
  <2>3. CASE hop[h].attempt < MaxAttempts /\ hop' = [hop EXCEPT ![h].attempt = @ + 1]
    <3> DEFINE r == [hop[h] EXCEPT !.attempt = hop[h].attempt + 1]
    <3>1. hop[h].attempt \in 1..MaxAttempts BY <1>r DEF Request
    <3>2. hop[h].attempt + 1 \in 1..MaxAttempts BY <2>3, <3>1, BoundsAssumption
    <3>3. r \in Request BY <1>r, <3>2 DEF Request
    <3>4. /\ r.pc = hop[h].pc /\ r.plan = hop[h].plan /\ r.by = hop[h].by
          /\ r.tenant = hop[h].tenant
      BY <1>r DEF Request
    <3>5. hop' = [hop EXCEPT ![h] = r] BY <1>r, <2>3
    <3> HIDE DEF r
    <3>6. Sound(h, r, previews) BY <1>s, <3>4 DEF Sound
    <3> QED BY <2>1, <3>3, <3>5, <3>6, CommitStep
  <2> QED BY <1>12, <2>2, <2>3 DEF ExecAnswerLost, Retry
<1>13. CASE ExecRead(h)
  <2>1. UNCHANGED <<stash, cache, previews, commits, overlap, faults>>
    BY <1>13 DEF ExecRead, history
  <2>2. CASE hop[h].hit
    <3>1. Goto(h, "done") BY <1>13, <2>2 DEF ExecRead
    <3> QED BY <1>k, <2>1, <3>1, EndKeeps
  <2>3. CASE ~hop[h].hit
    <3>1. Goto(h, "store") /\ hop[h].pc = "exec" BY <1>13, <2>3 DEF ExecRead
    <3>2. PICK r \in Request :
            /\ hop' = [hop EXCEPT ![h] = r]
            /\ r.pc = "store" /\ r.plan = hop[h].plan /\ r.by = hop[h].by
            /\ r.tenant = hop[h].tenant
      BY <1>m, <3>1 DEF Pcs
    <3>3. Sound(h, r, previews) BY <1>s, <3>1, <3>2 DEF Sound, Rest
    <3> QED BY <1>k, <2>1, <3>2, <3>3, QuietStep
  <2> QED BY <2>2, <2>3
<1>14. CASE Repair(h)
  <2>1. /\ hop[h].pc = "exec" /\ ~IsWrite(hop[h].plan)
        /\ UNCHANGED <<stash, cache, previews, commits, overlap, faults>>
    BY <1>14 DEF Repair, history
  <2>2. PICK q \in Plans :
          LET p == Normalised(h, q)
          IN  hop' = IF IsWrite(p)
                       THEN [hop EXCEPT ![h] = Fresh("done")]
                       ELSE [hop EXCEPT ![h].repaired = TRUE, ![h].attempt = 1, ![h].plan = p]
    BY <1>14 DEF Repair
  <2> DEFINE p == Normalised(h, q)
             r == [hop[h] EXCEPT !.repaired = TRUE, !.attempt = 1, !.plan = p]
  <2>3. hop[h].tenant \in Tenants BY <1>s, <2>1 DEF Sound, Rest
  <2>4. p \in Plans BY <2>3, NormalisedIsOwnFree
  <2>5. CASE IsWrite(p)
    <3>1. Goto(h, "done") BY <2>2, <2>5 DEF Goto
    <3> QED BY <1>k, <2>1, <3>1, EndKeeps
  <2>6. CASE ~IsWrite(p)
    <3>a. 1 \in 1..MaxAttempts BY BoundsAssumption
    <3>1. r \in Request BY <1>r, <2>4, <3>a DEF Request
    <3>2. r.pc = "exec" /\ r.plan = p /\ r.by = hop[h].by /\ r.tenant = hop[h].tenant
      BY <1>r, <2>1 DEF Request
    <3>3. hop' = [hop EXCEPT ![h] = r] BY <1>r, <2>2, <2>6
    <3> HIDE DEF r, p
    <3>4. Sound(h, r, previews) BY <1>s, <2>1, <2>4, <2>6, <3>2 DEF Sound, Rest
    <3> QED BY <1>k, <2>1, <3>1, <3>3, <3>4, QuietStep
  <2> QED BY <2>5, <2>6
<1>15. CASE SpendStash(h)
  <2>1. /\ Goto(h, "done") /\ stash' = [stash EXCEPT ![hop[h].tenant] = NoStash]
        /\ UNCHANGED <<cache, previews, commits, overlap, faults>>
    BY <1>15 DEF SpendStash, history
  <2>2. hop[h].tenant \in Tenants BY <1>15, <1>s DEF SpendStash, Sound, Rest
  <2> QED BY <1>k, <2>1, <2>2, EndKeeps
<1>16. CASE StorePlan(h)
  <2>1. cache' \in Plans \cup {NoPlan} BY <1>16, <1>r DEF StorePlan, Request
  <2>2. Goto(h, "done") /\ UNCHANGED <<stash, previews, commits, overlap, faults>>
    BY <1>16 DEF StorePlan, history
  <2> QED BY <1>k, <2>1, <2>2, EndKeeps
<1> QED BY <1>1, <1>2, <1>3, <1>4, <1>5, <1>6, <1>7, <1>8, <1>9, <1>10, <1>11, <1>12, <1>13,
           <1>14, <1>15, <1>16 DEF Step, Fail

\* An entry that expires takes nothing with it.
LEMMA ExpiryKeeps ==
  ASSUME IInv, ExpireCache \/ \E t \in Tenants : ExpireStash(t)
  PROVE  IInv'
<1>1. UNCHANGED <<hop, previews, commits, overlap, faults>>
  BY DEF ExpireCache, ExpireStash, history
<1>2. cache' \in Plans \cup {NoPlan} BY DEF ExpireCache, ExpireStash, IInv, TypeOK
<1>3. stash' = stash \/ \E t \in Tenants : stash' = [stash EXCEPT ![t] = NoStash]
  BY DEF ExpireCache, ExpireStash
<1>4. NoStash \in [plan : Plans \cup {NoPlan}, by : Hops \cup {NoHop}] BY DEF NoStash
<1>5. stash' \in [Tenants -> [plan : Plans \cup {NoPlan}, by : Hops \cup {NoHop}]]
  BY <1>3, <1>4 DEF IInv, TypeOK
<1>6. \A t \in Tenants : stash'[t] = stash[t] \/ stash'[t] = NoStash
  BY <1>3 DEF IInv, TypeOK
<1>7. TypeOK' BY <1>1, <1>2, <1>5 DEF IInv, TypeOK
<1>8. Bound' BY <1>1, <1>6 DEF IInv, Bound
<1>9. CommitsWerePreviewed' BY <1>1 DEF IInv, CommitsWerePreviewed
<1> QED BY <1>7, <1>8, <1>9 DEF IInv

LEMMA InvStep == IInv /\ [Next]_vars => IInv'
<1> SUFFICES ASSUME IInv, [Next]_vars PROVE IInv' OBVIOUS
<1>1. CASE UNCHANGED vars
  BY <1>1 DEF vars, IInv, TypeOK, Bound, CommitsWerePreviewed
<1>2. CASE \E h \in Hops : Arrive(h) \/ Step(h) \/ Fail(h) BY <1>2, HopStep
<1>3. CASE ExpireCache \/ \E t \in Tenants : ExpireStash(t) BY <1>3, ExpiryKeeps
<1> QED BY <1>1, <1>2, <1>3 DEF Next

\* Every reachable state of the pipeline is well typed.
THEOREM HopsTypeCorrect == Spec => []TypeOK
<1>1. IInv => TypeOK BY DEF IInv
<1> QED BY <1>1, InvInit, InvStep, PTL DEF Spec

\* No write takes effect that an earlier hop of the same tenant has not
\* previewed, word for word (SK-TRUST-001), whatever planner, cache, retries,
\* repairs, expiries, other hops and dead isolates do in between.
THEOREM OnlyPreviewsCommit == Spec => []CommitsWerePreviewed
<1>1. IInv => CommitsWerePreviewed BY DEF IInv
<1> QED BY <1>1, InvInit, InvStep, PTL DEF Spec

---------------------------------------------------------------------------
(* What the other properties rest on.                                       *)

\* What a request carries at each point of its way, besides.  A plan does not name
\* its tenant's schema, nor any when it was a cache hit and has not been repaired;
\* what passes the gate under a read-only key does not write; a preview is taken
\* from the stash by a confirm only.
Fits(r) ==
  /\ r.pc \in {"gate", "diff", "exec", "store"} => r.plan.schema # r.tenant
  /\ r.pc \in {"gate", "exec"} /\ r.hit /\ ~r.repaired => r.plan.schema = "relative"
  /\ r.pc \in {"stash", "cache", "plan"} => ~r.hit
  /\ r.pc = "store" => ~IsWrite(r.plan)
  /\ r.readOnly /\ r.pc \in {"diff", "exec", "spend"} => ~IsWrite(r.plan)
  /\ r.pc = "spend" => IsWrite(r.plan) /\ r.by # NoHop
  /\ r.pc = "stash" => r.confirm
  /\ r.pc \in {"gate", "exec", "spend"} /\ r.by # NoHop => r.confirm

Portable ==
  /\ \A h \in Hops : Fits(hop[h])
  /\ \A t \in Tenants : stash[t] # NoStash => stash[t].plan.schema # t

\* What a step of a hop that is under way makes of it.
Became(h, r) ==
  /\ hop' = [hop EXCEPT ![h] = r] /\ Fits(r)
  /\ r.pc \in Rest \/ /\ hop[h].pc \notin Rest
                      /\ r.tenant = hop[h].tenant /\ r.confirm = hop[h].confirm
  /\ r.pc \in {"gate", "exec"} /\ r.by # NoHop =>
       \/ hop[h].pc \in {"gate", "exec"} /\ hop[h].by = r.by
       \/ hop[h].pc = "stash" /\ Mine(h) # NoStash /\ Mine(h).by = r.by

\* And of what it shares with the others.
Wrought(h, r) ==
  /\ overlap' = overlap /\ faults' \in {faults, faults + 1}
  /\ cache' = cache \/ (hop[h].pc = "store" /\ cache' = hop[h].plan)
  /\ \/ stash' = stash /\ (hop[h].pc = "spend" => faults' = faults + 1)
     \/ hop[h].pc = "spend" /\ stash' = [stash EXCEPT ![hop[h].tenant] = NoStash]
     \/ hop[h].pc = "diff" /\ stash' = [stash EXCEPT ![hop[h].tenant] = Preview(h)]
  /\ \/ commits' = commits
     \/ /\ hop[h].pc = "exec" /\ IsWrite(hop[h].plan) /\ commits' = commits \cup {Effect(h)}
        /\ faults' = faults + 1 \/ (r.pc = "spend" /\ r.by = hop[h].by)

LEMMA GoesOn ==
  ASSUME IInv, NEW h \in Hops, NEW l \in Pcs \ {"done", "dead"}, Goto(h, l)
  PROVE  \E r \in Request :
           /\ hop' = [hop EXCEPT ![h] = r]
           /\ r.pc = l /\ r.plan = hop[h].plan /\ r.by = hop[h].by
           /\ r.tenant = hop[h].tenant /\ r.confirm = hop[h].confirm
           /\ r.readOnly = hop[h].readOnly /\ r.hit = hop[h].hit /\ r.repaired = hop[h].repaired
<1> DEFINE r == [hop[h] EXCEPT !.pc = l]
<1>1. hop[h] \in Request BY DEF IInv, TypeOK
<1>2. /\ r \in Request /\ r.pc = l /\ r.plan = hop[h].plan /\ r.by = hop[h].by
      /\ r.tenant = hop[h].tenant /\ r.confirm = hop[h].confirm /\ r.readOnly = hop[h].readOnly
      /\ r.hit = hop[h].hit /\ r.repaired = hop[h].repaired
  BY <1>1 DEF Request
<1>3. hop' = [hop EXCEPT ![h] = r] BY DEF Goto
<1> HIDE DEF r
<1> QED BY <1>2, <1>3

\* A request that ends is nobody's any more.
LEMMA EndBecomes ==
  ASSUME NEW h \in Hops, NEW l \in {"done", "dead"}, Goto(h, l)
  PROVE  Became(h, Fresh(l)) /\ Fresh(l).pc \in Rest
<1>1. hop' = [hop EXCEPT ![h] = Fresh(l)] BY DEF Goto
<1>2. Fresh(l).pc = l BY DEF Fresh
<1> QED BY <1>1, <1>2 DEF Became, Fits, Rest

\* An attempt more changes nothing else.
LEMMA TriesAgain ==
  ASSUME IInv, Portable, NEW h \in Hops, hop[h].pc \in {"plan", "exec"},
         hop' = [hop EXCEPT ![h].attempt = @ + 1]
  PROVE  \E r : Became(h, r)
<1> DEFINE r == [hop[h] EXCEPT !.attempt = hop[h].attempt + 1]
<1>1. hop[h] \in Request /\ Fits(hop[h]) BY DEF IInv, TypeOK, Portable
<1>2. /\ r.pc = hop[h].pc /\ r.plan = hop[h].plan /\ r.by = hop[h].by
      /\ r.tenant = hop[h].tenant /\ r.confirm = hop[h].confirm /\ r.readOnly = hop[h].readOnly
      /\ r.hit = hop[h].hit /\ r.repaired = hop[h].repaired
  BY <1>1 DEF Request
<1>3. hop' = [hop EXCEPT ![h] = r] OBVIOUS
<1> HIDE DEF r
<1>4. Fits(r) BY <1>1, <1>2 DEF Fits
<1> QED BY <1>2, <1>3, <1>4 DEF Became, Rest

\* Whatever a hop does, it does to itself and, when it may, to the stash, the
\* cache and the writes that took effect.
LEMMA Turns ==
  ASSUME IInv, Portable, NEW h \in Hops, Step(h) \/ Fail(h)
  PROVE  \E r : Became(h, r) /\ Wrought(h, r)
<1>r. hop[h] \in Request /\ faults \in Nat BY BoundsAssumption DEF IInv, TypeOK
<1>s. Sound(h, hop[h], previews) /\ Fits(hop[h]) BY DEF IInv, Bound, Portable
<1>e. ASSUME NEW l \in {"done", "dead"}, Goto(h, l), \A r : r.pc \in Rest => Wrought(h, r)
      PROVE  \E r : Became(h, r) /\ Wrought(h, r)
  BY <1>e, EndBecomes
<1>1. CASE Refused(h) \/ Unfit(h) \/ NoPreview(h) \/ Render(h) \/ ExecTerminal(h)
  <2>1. /\ Goto(h, "done") /\ UNCHANGED <<stash, cache, previews, commits, overlap, faults>>
        /\ hop[h].pc # "spend"
    BY <1>1 DEF Refused, Unfit, NoPreview, Render, ExecTerminal, history
  <2>2. \A r : Wrought(h, r) BY <2>1 DEF Wrought
  <2> QED BY <1>e, <2>1, <2>2
<1>2. CASE LookupStash(h)
  <2> DEFINE l == IF Mine(h) = NoStash THEN "cache" ELSE "gate"
             r == [hop[h] EXCEPT !.pc = l, !.plan = Mine(h).plan, !.by = Mine(h).by]
  <2>1. /\ hop[h].pc = "stash" /\ hop[h].tenant \in Tenants
        /\ UNCHANGED <<stash, cache, previews, commits, overlap, faults>>
    BY <1>2, <1>s DEF LookupStash, Sound, Rest, history
  <2>2. hop' = [hop EXCEPT ![h] = r] BY <1>2 DEF LookupStash
  <2>3. /\ r.pc = l /\ r.plan = Mine(h).plan /\ r.by = Mine(h).by /\ r.tenant = hop[h].tenant
        /\ r.confirm = hop[h].confirm /\ r.hit = hop[h].hit
    BY <1>r DEF Request
  <2> HIDE DEF r
  <2>4. Mine(h) # NoStash => r.plan.schema # r.tenant BY <2>1, <2>3 DEF Portable, Mine
  <2>5. Became(h, r) BY <1>s, <2>1, <2>2, <2>3, <2>4 DEF Became, Fits, Rest
  <2> QED BY <2>1, <2>5 DEF Wrought
<1>3. CASE LookupCache(h)
  <2>1. /\ hop[h].pc = "cache" /\ hop[h].by = NoHop
        /\ UNCHANGED <<stash, cache, previews, commits, overlap, faults>>
    BY <1>3, <1>s DEF LookupCache, Sound, history
  <2>w. \A r : Wrought(h, r) BY <2>1 DEF Wrought
  <2>2. CASE Usable(h)
    <3> DEFINE p == Normalised(h, cache)
               r == [hop[h] EXCEPT !.pc = "gate", !.plan = p, !.hit = TRUE]
    <3>1. p.schema = "relative" BY <2>2 DEF Usable
    <3>2. /\ r.pc = "gate" /\ r.plan = p /\ r.by = NoHop /\ r.tenant = hop[h].tenant
          /\ r.confirm = hop[h].confirm
      BY <1>r, <2>1 DEF Request
    <3>3. hop' = [hop EXCEPT ![h] = r] BY <1>3, <2>2 DEF LookupCache
    <3> HIDE DEF r, p
    <3>5. r.plan.schema # r.tenant BY <1>s, <2>1, <3>1, <3>2, NamesAssumption DEF Sound, Rest
    <3>4. Became(h, r) BY <2>1, <3>1, <3>2, <3>3, <3>5 DEF Became, Fits, Rest
    <3> QED BY <2>w, <3>4
  <2>3. CASE ~Usable(h)
    <3>1. Goto(h, "plan") BY <1>3, <2>3 DEF LookupCache
    <3>2. PICK r \in Request : /\ hop' = [hop EXCEPT ![h] = r] /\ r.pc = "plan"
                               /\ r.tenant = hop[h].tenant /\ r.confirm = hop[h].confirm
                               /\ r.hit = hop[h].hit
      BY <3>1, GoesOn DEF Pcs
    <3>3. Became(h, r) BY <1>s, <2>1, <3>2 DEF Became, Fits, Rest
    <3> QED BY <2>w, <3>3
  <2> QED BY <2>2, <2>3
<1>4. CASE Plan(h)
  <2>1. /\ hop[h].pc = "plan" /\ hop[h].by = NoHop
        /\ UNCHANGED <<stash, cache, previews, commits, overlap, faults>>
    BY <1>4, <1>s DEF Plan, Sound, history
  <2>2. PICK q \in Plans :
          hop' = [hop EXCEPT ![h].pc = "gate", ![h].plan = Normalised(h, q), ![h].attempt = 1]
    BY <1>4 DEF Plan
  <2> DEFINE p == Normalised(h, q)
             r == [hop[h] EXCEPT !.pc = "gate", !.plan = p, !.attempt = 1]
  <2>3. hop' = [hop EXCEPT ![h] = r] BY <2>2
  <2>b. hop[h].tenant \in Tenants BY <1>s, <2>1 DEF Sound, Rest
  <2>4. p.schema # hop[h].tenant BY <2>b, NormalisedIsOwnFree
  <2>5. /\ r.pc = "gate" /\ r.plan = p /\ r.by = NoHop /\ r.tenant = hop[h].tenant
        /\ r.confirm = hop[h].confirm /\ r.hit = hop[h].hit
    BY <1>r, <2>1 DEF Request
  <2> HIDE DEF r, p
  <2>6. Became(h, r) BY <1>s, <2>1, <2>3, <2>4, <2>5 DEF Became, Fits, Rest
  <2> QED BY <2>1, <2>6 DEF Wrought
<1>5. CASE PlanRejected(h) \/ ExecUnreachable(h)
  <2>1. /\ hop[h].pc \in {"plan", "exec"}
        /\ UNCHANGED <<stash, cache, previews, commits, overlap, faults>>
        /\ hop' = [hop EXCEPT ![h].attempt = @ + 1] \/ Goto(h, "done")
    BY <1>5 DEF PlanRejected, ExecUnreachable, Retry, history
  <2>2. \A r : Wrought(h, r) BY <2>1 DEF Wrought
  <2> QED BY <1>e, <2>1, <2>2, TriesAgain
<1>6. CASE Gate(h)
  <2>1. hop[h].pc = "gate" /\ UNCHANGED <<stash, cache, previews, commits, overlap, faults>>
    BY <1>6 DEF Gate, history
  <2>w. \A r : Wrought(h, r) BY <2>1 DEF Wrought
  <2>2. CASE Forbidden(h) \/ Expired(h)
    <3>1. Goto(h, "done") BY <1>6, <2>2 DEF Gate
    <3> QED BY <1>e, <2>w, <3>1
  <2>3. CASE ~Forbidden(h) /\ ~Expired(h)
    <3>1. Goto(h, IF Previewed(h) THEN "diff" ELSE "exec") BY <1>6, <2>3 DEF Gate
    <3>2. PICK r \in Request :
            /\ hop' = [hop EXCEPT ![h] = r]
            /\ r.pc = IF Previewed(h) THEN "diff" ELSE "exec"
            /\ r.plan = hop[h].plan /\ r.by = hop[h].by
            /\ r.tenant = hop[h].tenant /\ r.confirm = hop[h].confirm
            /\ r.readOnly = hop[h].readOnly /\ r.hit = hop[h].hit /\ r.repaired = hop[h].repaired
      BY <3>1, GoesOn DEF Pcs
    <3>3. Fits(r) BY <1>s, <2>1, <2>3, <3>2 DEF Fits, Forbidden
    <3>4. Became(h, r) BY <2>1, <3>2, <3>3 DEF Became, Rest
    <3> QED BY <2>w, <3>4
  <2> QED BY <2>2, <2>3
<1>7. CASE WriteStash(h) \/ WriteStashFails(h)
  <2>1. /\ hop[h].pc = "diff" /\ Goto(h, "render")
        /\ UNCHANGED <<cache, commits, overlap>> /\ faults' \in {faults, faults + 1}
        /\ stash' \in {stash, [stash EXCEPT ![hop[h].tenant] = Preview(h)]}
    BY <1>7 DEF WriteStash, WriteStashFails, Fault
  <2>2. PICK r \in Request : /\ hop' = [hop EXCEPT ![h] = r] /\ r.pc = "render"
                             /\ r.tenant = hop[h].tenant /\ r.confirm = hop[h].confirm
    BY <2>1, GoesOn DEF Pcs
  <2>3. Became(h, r) BY <2>1, <2>2 DEF Became, Fits, Rest
  <2> QED BY <2>1, <2>3 DEF Wrought
<1>8. CASE ExecWrite(h)
  <2>1. /\ hop[h].pc = "exec" /\ IsWrite(hop[h].plan) /\ hop[h].by # NoHop
        /\ UNCHANGED <<stash, cache, previews, overlap, faults>>
        /\ commits' \in {commits, commits \cup {Effect(h)}}
    BY <1>8, <1>s DEF ExecWrite, Sound
  <2>2. Goto(h, "spend") BY <1>8, <2>1 DEF ExecWrite
  <2>3. PICK r \in Request : /\ hop' = [hop EXCEPT ![h] = r] /\ r.pc = "spend"
                             /\ r.plan = hop[h].plan /\ r.by = hop[h].by
                             /\ r.tenant = hop[h].tenant /\ r.confirm = hop[h].confirm
                             /\ r.readOnly = hop[h].readOnly
    BY <2>2, GoesOn DEF Pcs
  <2>4. Fits(r) BY <1>s, <2>1, <2>3 DEF Fits
  <2>5. Became(h, r) BY <2>1, <2>3, <2>4 DEF Became, Rest
  <2>6. Wrought(h, r) BY <2>1, <2>3 DEF Wrought
  <2> QED BY <2>5, <2>6
<1>9. CASE ExecAnswerLost(h)
  <2>1. /\ hop[h].pc = "exec" /\ IsWrite(hop[h].plan) /\ faults' = faults + 1
        /\ UNCHANGED <<stash, cache, previews, overlap>>
        /\ commits' = commits \cup {Effect(h)}
        /\ hop' = [hop EXCEPT ![h].attempt = @ + 1] \/ Goto(h, "done")
    BY <1>9 DEF ExecAnswerLost, Fault, Retry
  <2>2. \A r : Wrought(h, r) BY <2>1 DEF Wrought
  <2> QED BY <1>e, <2>1, <2>2, TriesAgain
<1>10. CASE ExecRead(h)
  <2>1. /\ hop[h].pc = "exec" /\ ~IsWrite(hop[h].plan)
        /\ UNCHANGED <<stash, cache, previews, commits, overlap, faults>>
        /\ Goto(h, IF hop[h].hit THEN "done" ELSE "store")
    BY <1>10 DEF ExecRead, history
  <2>w. \A r : Wrought(h, r) BY <2>1 DEF Wrought
  <2>2. CASE hop[h].hit BY <1>e, <2>1, <2>2, <2>w
  <2>3. CASE ~hop[h].hit
    <3>1. Goto(h, "store") BY <2>1, <2>3
    <3>2. PICK r \in Request : /\ hop' = [hop EXCEPT ![h] = r] /\ r.pc = "store"
                               /\ r.plan = hop[h].plan
                               /\ r.tenant = hop[h].tenant /\ r.confirm = hop[h].confirm
      BY <3>1, GoesOn DEF Pcs
    <3>3. Became(h, r) BY <1>s, <2>1, <3>2 DEF Became, Fits, Rest
    <3> QED BY <2>w, <3>3
  <2> QED BY <2>2, <2>3
<1>11. CASE Repair(h)
  <2>1. /\ hop[h].pc = "exec" /\ ~IsWrite(hop[h].plan)
        /\ UNCHANGED <<stash, cache, previews, commits, overlap, faults>>
    BY <1>11 DEF Repair, history
  <2>w. \A r : Wrought(h, r) BY <2>1 DEF Wrought
  <2>2. PICK q \in Plans :
          LET p == Normalised(h, q)
          IN  hop' = IF IsWrite(p)
                       THEN [hop EXCEPT ![h] = Fresh("done")]
                       ELSE [hop EXCEPT ![h].repaired = TRUE, ![h].attempt = 1, ![h].plan = p]
    BY <1>11 DEF Repair
  <2> DEFINE p == Normalised(h, q)
             r == [hop[h] EXCEPT !.repaired = TRUE, !.attempt = 1, !.plan = p]
  <2>3. hop[h].tenant \in Tenants BY <1>s, <2>1 DEF Sound, Rest
  <2>4. CASE IsWrite(p)
    <3>1. Goto(h, "done") BY <2>2, <2>4 DEF Goto
    <3> QED BY <1>e, <2>w, <3>1
  <2>5. CASE ~IsWrite(p)
    <3>1. hop' = [hop EXCEPT ![h] = r] BY <2>2, <2>5
    <3>2. p.schema # hop[h].tenant BY <2>3, NormalisedIsOwnFree
    <3>3. /\ r.pc = "exec" /\ r.plan = p /\ r.by = hop[h].by /\ r.tenant = hop[h].tenant
          /\ r.confirm = hop[h].confirm /\ r.repaired
      BY <1>r, <2>1 DEF Request
    <3> HIDE DEF r, p
    <3>4. Became(h, r) BY <1>s, <2>1, <2>5, <3>1, <3>2, <3>3 DEF Became, Fits, Rest
    <3> QED BY <2>w, <3>4
  <2> QED BY <2>4, <2>5
<1>12. CASE SpendStash(h)
  <2>1. /\ Goto(h, "done") /\ hop[h].pc = "spend"
        /\ stash' = [stash EXCEPT ![hop[h].tenant] = NoStash]
        /\ UNCHANGED <<cache, previews, commits, overlap, faults>>
    BY <1>12 DEF SpendStash, history
  <2>2. \A r : Wrought(h, r) BY <2>1 DEF Wrought
  <2> QED BY <1>e, <2>1, <2>2
<1>13. CASE StorePlan(h)
  <2>1. /\ Goto(h, "done") /\ hop[h].pc = "store" /\ cache' = hop[h].plan
        /\ UNCHANGED <<stash, previews, commits, overlap, faults>>
    BY <1>13 DEF StorePlan, history
  <2>2. \A r : Wrought(h, r) BY <2>1 DEF Wrought
  <2> QED BY <1>e, <2>1, <2>2
<1>14. CASE SpendFails(h) \/ StoreFails(h) \/ Die(h)
  <2>1. /\ Goto(h, "done") \/ Goto(h, "dead")
        /\ faults' = faults + 1
        /\ UNCHANGED <<stash, cache, previews, commits, overlap>>
    BY <1>14 DEF SpendFails, StoreFails, Die, Fault, history
  <2>2. \A r : Wrought(h, r) BY <2>1 DEF Wrought
  <2> QED BY <1>e, <2>1, <2>2
<1> QED BY <1>1, <1>2, <1>3, <1>4, <1>5, <1>6, <1>7, <1>8, <1>9, <1>10, <1>11, <1>12, <1>13,
           <1>14 DEF Step, Fail

LEMMA ArriveBecomes ==
  ASSUME IInv, NEW h \in Hops, Arrive(h)
  PROVE  /\ hop[h].pc = "idle" /\ UNCHANGED <<stash, cache, previews, commits, faults>>
         /\ \E r : /\ hop' = [hop EXCEPT ![h] = r] /\ Fits(r)
                   /\ r.pc \in {"stash", "cache"}
                   /\ overlap' = (overlap \/ (r.confirm /\ \E g \in InFlight :
                                                hop[g].confirm /\ hop[g].tenant = r.tenant))
<1>1. PICK t \in Tenants, c \in BOOLEAN, ro \in BOOLEAN, i \in Intents :
        /\ hop' = [hop EXCEPT ![h] = [Fresh(IF c THEN "stash" ELSE "cache") EXCEPT
                     !.tenant = t, !.confirm = c, !.readOnly = ro, !.intent = i]]
        /\ overlap' = (overlap \/ (c /\ \E g \in InFlight : hop[g].confirm /\ hop[g].tenant = t))
  BY DEF Arrive
<1> DEFINE l == IF c THEN "stash" ELSE "cache"
           r == [Fresh(l) EXCEPT !.tenant = t, !.confirm = c, !.readOnly = ro, !.intent = i]
<1>2. r.pc = l /\ r.confirm = c /\ r.tenant = t /\ ~r.hit BY DEF Fresh
<1>3. hop' = [hop EXCEPT ![h] = r] BY <1>1
<1> HIDE DEF r
<1>4. Fits(r) BY <1>2 DEF Fits
<1>5. \E q : /\ hop' = [hop EXCEPT ![h] = q] /\ Fits(q)
             /\ q.pc \in {"stash", "cache"}
             /\ overlap' = (overlap \/ (q.confirm /\ \E g \in InFlight :
                                          hop[g].confirm /\ hop[g].tenant = q.tenant))
  BY <1>1, <1>2, <1>3, <1>4
<1> QED BY <1>5 DEF Arrive

\* The next-state relation, by what its steps do.
LEMMA Steps ==
  ASSUME IInv, Portable, [Next]_vars
  PROVE  \/ \E h \in Hops : Arrive(h)
         \/ \E h \in Hops : \E r : Became(h, r) /\ Wrought(h, r)
         \/ /\ UNCHANGED <<hop, commits, overlap, faults>>
            /\ \A t \in Tenants : stash'[t] \in {stash[t], NoStash}
            /\ cache' \in {cache, NoPlan}
<1>1. CASE \E h \in Hops : Arrive(h) \/ Step(h) \/ Fail(h) BY <1>1, Turns
<1>2. CASE ExpireCache \/ \E t \in Tenants : ExpireStash(t)
  BY <1>2 DEF ExpireCache, ExpireStash, history, IInv, TypeOK
<1>3. CASE UNCHANGED vars BY <1>3 DEF vars
<1> QED BY <1>1, <1>2, <1>3 DEF Next

LEMMA PortableInit == Init => Portable
<1>1. \A l : Fresh(l).pc = l BY DEF Fresh
<1> QED BY <1>1 DEF Init, Portable, Fits

LEMMA PortableStep == IInv /\ Portable /\ [Next]_vars => Portable'
<1> SUFFICES ASSUME IInv, Portable, [Next]_vars PROVE Portable' OBVIOUS
<1>t. /\ hop \in [Hops -> Request]
      /\ stash \in [Tenants -> [plan : Plans \cup {NoPlan}, by : Hops \cup {NoHop}]]
  BY DEF IInv, TypeOK
<1>1. ASSUME NEW h \in Hops, Arrive(h) PROVE Portable'
  <2>1. PICK r : hop' = [hop EXCEPT ![h] = r] /\ Fits(r) BY <1>1, ArriveBecomes
  <2>2. \A g \in Hops : Fits(hop'[g]) BY <1>t, <2>1 DEF Portable
  <2>3. stash' = stash BY <1>1, ArriveBecomes
  <2> QED BY <2>2, <2>3 DEF Portable
<1>2. ASSUME NEW h \in Hops, NEW r, Became(h, r), Wrought(h, r) PROVE Portable'
  <2>1. \A g \in Hops : Fits(hop'[g]) BY <1>2, <1>t DEF Portable, Became
  <2>2. Fits(hop[h]) BY DEF Portable
  <2>3. ASSUME NEW t \in Tenants, stash'[t] # NoStash PROVE stash'[t].plan.schema # t
    <3>1. stash'[t] = stash[t] \/ (hop[h].pc = "diff" /\ hop[h].tenant = t /\ stash'[t] = Preview(h))
      BY <1>2, <1>t, <2>3 DEF Wrought
    <3> QED BY <2>2, <2>3, <3>1 DEF Portable, Fits, Preview
  <2> QED BY <2>1, <2>3 DEF Portable
<1>3. CASE UNCHANGED hop /\ \A t \in Tenants : stash'[t] \in {stash[t], NoStash}
  BY <1>3 DEF Portable
<1> QED BY <1>1, <1>2, <1>3, Steps

LEMMA PortableAlways == Spec => [](IInv /\ Portable)
BY InvInit, InvStep, PortableInit, PortableStep, PTL DEF Spec

\* schemaRelativeSql, the test of a hit and the cache write of a planned read: the
\* entry all tenants share never comes to hold a write or a plan over the schema of the
\* tenant that stores it, no statement names its own tenant's schema when it is executed,
\* and none that a hit supplied names a schema at all (SK-ASK-025).
THEOREM PlansArePortable == Spec => SharedPlansArePortable
<1>1. IInv /\ Portable /\ [Next]_vars =>
        [/\ cache' # cache /\ cache' # NoPlan => ~IsWrite(cache')
         /\ \A h \in Hops :
              /\ hop[h].pc = "store" /\ hop'[h] # hop[h] /\ cache' # cache =>
                   cache'.schema # hop[h].tenant
              /\ hop'[h].pc = "exec" =>
                   /\ hop'[h].plan.schema # hop'[h].tenant
                   /\ hop'[h].hit /\ ~hop'[h].repaired => hop'[h].plan.schema = "relative"]_vars
  <2> SUFFICES ASSUME IInv, Portable, [Next]_vars
               PROVE  /\ cache' # cache /\ cache' # NoPlan => ~IsWrite(cache')
                      /\ \A h \in Hops :
                           /\ hop[h].pc = "store" /\ hop'[h] # hop[h] /\ cache' # cache =>
                                cache'.schema # hop[h].tenant
                           /\ hop'[h].pc = "exec" =>
                                /\ hop'[h].plan.schema # hop'[h].tenant
                                /\ hop'[h].hit /\ ~hop'[h].repaired =>
                                     hop'[h].plan.schema = "relative"
    OBVIOUS
  <2>t. hop \in [Hops -> Request] BY DEF IInv, TypeOK
  <2>1. ASSUME NEW h \in Hops, hop'[h].pc = "exec"
        PROVE  /\ hop'[h].plan.schema # hop'[h].tenant
               /\ hop'[h].hit /\ ~hop'[h].repaired => hop'[h].plan.schema = "relative"
    BY <2>1, PortableStep DEF Portable, Fits
  <2>2. cache' # cache /\ cache' # NoPlan => ~IsWrite(cache')
    <3>1. ASSUME NEW g \in Hops, Arrive(g) PROVE cache' = cache BY <3>1, ArriveBecomes
    <3>2. ASSUME NEW g \in Hops, NEW r, Wrought(g, r), cache' # cache PROVE ~IsWrite(cache')
      BY <3>2 DEF Wrought, Portable, Fits
    <3> QED BY <3>1, <3>2, Steps
  <2>3. ASSUME NEW h \in Hops, hop[h].pc = "store", hop'[h] # hop[h], cache' # cache
        PROVE  cache'.schema # hop[h].tenant
    <3>1. ASSUME NEW g \in Hops, Arrive(g) PROVE cache' = cache BY <3>1, ArriveBecomes
    <3>2. ASSUME NEW g \in Hops, NEW r, Became(g, r), Wrought(g, r)
          PROVE  cache'.schema # hop[h].tenant
      <4>1. g = h BY <2>3, <2>t, <3>2 DEF Became
      <4>2. cache' = hop[h].plan BY <2>3, <3>2, <4>1 DEF Wrought
      <4> QED BY <2>3, <4>2 DEF Portable, Fits
    <3> QED BY <2>3, <3>1, <3>2, Steps
  <2> QED BY <2>1, <2>2, <2>3
<1> QED BY <1>1, PortableAlways, PTL DEF Spec, SharedPlansArePortable

\* The read-only gate of a pk_live_ key comes before the preview, the execution
\* and the spending of the stash: its requests leave its user's previews and
\* writes alone (SK-APIKEYS-003).
THEOREM ReadOnlyLeavesPreviewsAlone == Spec => ReadOnlyTouchesNoPreview
<1>1. IInv /\ Portable /\ [Next]_vars =>
        [\A h \in Hops : hop[h].readOnly /\ hop'[h] # hop[h] =>
           UNCHANGED <<stash, commits>>]_vars
  <2> SUFFICES ASSUME IInv, Portable, [Next]_vars, NEW h \in Hops, hop[h].readOnly, hop'[h] # hop[h]
               PROVE  UNCHANGED <<stash, commits>>
    OBVIOUS
  <2>t. hop \in [Hops -> Request] BY DEF IInv, TypeOK
  <2>1. ASSUME NEW g \in Hops, Arrive(g) PROVE UNCHANGED <<stash, commits>>
    BY <2>1, ArriveBecomes
  <2>2. ASSUME NEW g \in Hops, NEW r, Became(g, r), Wrought(g, r)
        PROVE  UNCHANGED <<stash, commits>>
    <3>1. g = h BY <2>2, <2>t DEF Became
    <3>2. Fits(hop[h]) /\ Sound(h, hop[h], previews) BY DEF Portable, IInv, Bound
    <3>3. hop[h].pc # "spend" /\ hop[h].pc # "diff" BY <3>2 DEF Fits, Sound
    <3>4. hop[h].pc = "exec" => ~IsWrite(hop[h].plan) BY <3>2 DEF Fits
    <3> QED BY <2>2, <3>1, <3>3, <3>4 DEF Wrought
  <2>3. CASE UNCHANGED hop BY <2>3
  <2> QED BY <2>1, <2>2, <2>3, Steps
<1> QED BY <1>1, PortableAlways, PTL DEF Spec, ReadOnlyTouchesNoPreview

---------------------------------------------------------------------------
(* How often a preview commits.                                             *)

CommitsOf(h) == {c \in commits : c.by = h}
Spending(h) == \E g \in Hops : hop[g].pc = "spend" /\ hop[g].by = h

\* The preview of h may commit once more: a confirm has it in hand, or the stash
\* has it and is not about to lose it.
Due(h) == \/ \E g \in Hops : hop[g].pc \in {"gate", "exec"} /\ hop[g].by = h
          \/ ~Spending(h) /\ \E t \in Tenants : stash[t] # NoStash /\ stash[t].by = h

Confirming(h) == hop[h].pc \notin Rest /\ hop[h].confirm
Lone ==
  \A g, h \in Hops :
    Confirming(g) /\ Confirming(h) /\ hop[g].tenant = hop[h].tenant => g = h

\* Each commit of a preview but one is paid for by a fault, and so is the first
\* while another may follow.
Paid ==
  \A h \in Hops : /\ Cardinality(CommitsOf(h)) <= 1 + faults
                  /\ Due(h) => Cardinality(CommitsOf(h)) <= faults

OnceMore == overlap \/ (Lone /\ Paid)

LEMMA CommitsCount ==
  ASSUME IInv, NEW h \in Hops
  PROVE  /\ IsFiniteSet(CommitsOf(h)) /\ Cardinality(CommitsOf(h)) \in Nat
         /\ previews[h] = NoDiff => Cardinality(CommitsOf(h)) = 0
<1>1. IsFiniteSet(CommitsOf(h)) BY FS_Subset DEF IInv, Bound, CommitsOf
<1>2. ASSUME previews[h] = NoDiff PROVE CommitsOf(h) = {}
  <2> SUFFICES ASSUME NEW c \in commits, c.by = h PROVE FALSE BY DEF CommitsOf
  <2>1. previews[h] = [plan |-> c.plan, tenant |-> c.tenant] BY DEF IInv, CommitsWerePreviewed
  <2>2. c.plan \in Plans BY DEF IInv, TypeOK
  <2> QED BY <1>2, <2>1, <2>2, PreviewIsNotAbsent
<1> QED BY <1>1, <1>2, FS_EmptySet, FS_CardinalityType

\* What is in flight, and what the stash holds, is of the previewing tenant.
LEMMA SpentByItsTenant ==
  ASSUME IInv, Portable, NEW p \in Hops
  PROVE  /\ \A g \in Hops : hop[g].pc \in {"gate", "exec", "spend"} /\ hop[g].by = p =>
                  /\ hop[g].tenant = previews[p].tenant /\ hop[g].confirm /\ hop[g].pc \notin Rest
         /\ \A t \in Tenants : stash[t] # NoStash /\ stash[t].by = p => t = previews[p].tenant
<1>1. p # NoHop BY NamesAssumption
<1>2. ASSUME NEW g \in Hops, hop[g].pc \in {"gate", "exec", "spend"}, hop[g].by = p
      PROVE  hop[g].tenant = previews[p].tenant /\ hop[g].confirm /\ hop[g].pc \notin Rest
  <2>1. Sound(g, hop[g], previews) /\ Fits(hop[g]) BY DEF IInv, Bound, Portable
  <2> QED BY <1>1, <1>2, <2>1 DEF Sound, Fits, Rest
<1>3. ASSUME NEW t \in Tenants, stash[t] # NoStash, stash[t].by = p PROVE t = previews[p].tenant
  <2>1. previews[p] = [plan |-> stash[t].plan, tenant |-> t] BY <1>3 DEF IInv, Bound, FromPreview
  <2> QED BY <2>1
<1> QED BY <1>2, <1>3

\* Only what was due is due, but for the preview a hop makes of itself.
LEMMA DueBefore ==
  ASSUME IInv, Portable, Lone, NEW h \in Hops, NEW r, Became(h, r), Wrought(h, r),
         NEW p \in Hops, Due(p)', faults' = faults
  PROVE  Due(p) \/ (p = h /\ previews[h] = NoDiff)
<1>t. /\ hop \in [Hops -> Request]
      /\ stash \in [Tenants -> [plan : Plans \cup {NoPlan}, by : Hops \cup {NoHop}]]
      /\ faults \in Nat
  BY BoundsAssumption DEF IInv, TypeOK
<1>1. hop'[h] = r /\ \A g \in Hops \ {h} : hop'[g] = hop[g] BY <1>t DEF Became
<1>s. Sound(h, hop[h], previews) /\ Fits(hop[h]) BY DEF IInv, Bound, Portable
<1>n. p # NoHop BY NamesAssumption
<1>2. CASE \E g \in Hops : hop'[g].pc \in {"gate", "exec"} /\ hop'[g].by = p
  <2>1. PICK g \in Hops : hop'[g].pc \in {"gate", "exec"} /\ hop'[g].by = p BY <1>2
  <2>2. CASE g # h BY <1>1, <2>1, <2>2 DEF Due
  <2>3. CASE g = h
    <3>1. CASE hop[h].pc \in {"gate", "exec"} /\ hop[h].by = p BY <3>1 DEF Due
    <3>2. CASE hop[h].pc = "stash" /\ Mine(h) # NoStash /\ Mine(h).by = p
      <4>1. hop[h].tenant \in Tenants /\ hop[h].confirm /\ hop[h].pc \notin Rest
        BY <1>s, <3>2 DEF Sound, Fits, Rest
      <4>2. hop[h].tenant = previews[p].tenant BY <3>2, <4>1, SpentByItsTenant DEF Mine
      <4>3. ~Spending(p)
        <5> SUFFICES ASSUME NEW k \in Hops, hop[k].pc = "spend", hop[k].by = p PROVE FALSE
          BY DEF Spending
        <5>1. hop[k].tenant = previews[p].tenant /\ hop[k].confirm /\ hop[k].pc \notin Rest
          BY SpentByItsTenant
        <5>2. k = h BY <4>1, <4>2, <5>1 DEF Lone, Confirming
        <5> QED BY <3>2, <5>2
      <4> QED BY <3>2, <4>1, <4>3 DEF Due, Mine
    <3> QED BY <1>1, <1>n, <2>1, <2>3, <3>1, <3>2 DEF Became
  <2> QED BY <2>2, <2>3
<1>3. CASE ~Spending(p)' /\ \E t \in Tenants : stash'[t] # NoStash /\ stash'[t].by = p
  <2>1. PICK t \in Tenants : stash'[t] # NoStash /\ stash'[t].by = p BY <1>3
  <2>2. CASE stash'[t] = stash[t]
    <3>1. CASE ~Spending(p) BY <2>1, <2>2, <3>1 DEF Due
    <3>2. CASE Spending(p)
      <4>1. PICK g \in Hops : hop[g].pc = "spend" /\ hop[g].by = p BY <3>2 DEF Spending
      <4>2. g = h
        <5> SUFFICES ASSUME g # h PROVE FALSE OBVIOUS
        <5> QED BY <1>1, <1>3, <4>1 DEF Spending
      <4>3. t = hop[h].tenant BY <2>1, <2>2, <4>1, <4>2, SpentByItsTenant
      <4>4. stash' = [stash EXCEPT ![hop[h].tenant] = NoStash] BY <1>t, <4>1, <4>2 DEF Wrought
      <4> QED BY <1>t, <2>1, <4>3, <4>4
    <3> QED BY <3>1, <3>2
  <2>3. CASE stash'[t] # stash[t]
    <3>1. hop[h].pc = "diff" /\ stash'[t] = Preview(h) BY <1>t, <2>1, <2>3 DEF Wrought
    <3>2. p = h BY <2>1, <3>1 DEF Preview
    <3>3. previews[h] = NoDiff BY <1>s, <3>1 DEF Sound
    <3> QED BY <3>2, <3>3
  <2> QED BY <2>2, <2>3
<1> QED BY <1>2, <1>3 DEF Due

LEMMA TurnPays ==
  ASSUME IInv, Portable, Lone, Paid, NEW h \in Hops, NEW r, Became(h, r), Wrought(h, r)
  PROVE  Lone' /\ Paid'
<1>t. /\ hop \in [Hops -> Request] /\ hop[h] \in Request
      /\ faults \in Nat /\ faults' \in {faults, faults + 1}
  BY BoundsAssumption DEF IInv, TypeOK, Wrought
<1>1. hop'[h] = r /\ \A g \in Hops \ {h} : hop'[g] = hop[g] BY <1>t DEF Became
<1>2. Lone'
  <2>1. \A g \in Hops : hop'[g].pc \notin Rest =>
          /\ hop[g].pc \notin Rest
          /\ hop'[g].tenant = hop[g].tenant /\ hop'[g].confirm = hop[g].confirm
    BY <1>1 DEF Became
  <2> QED BY <2>1 DEF Lone, Confirming
<1>3. ASSUME NEW p \in Hops
      PROVE  /\ Cardinality(CommitsOf(p)') <= 1 + faults'
             /\ Due(p)' => Cardinality(CommitsOf(p)') <= faults'
  <2>n. /\ IsFiniteSet(CommitsOf(p)) /\ Cardinality(CommitsOf(p)) \in Nat
        /\ previews[p] = NoDiff => Cardinality(CommitsOf(p)) = 0
    BY CommitsCount
  <2>p. /\ Cardinality(CommitsOf(p)) <= 1 + faults
        /\ Due(p) => Cardinality(CommitsOf(p)) <= faults
    BY DEF Paid
  <2>1. CASE CommitsOf(p)' = CommitsOf(p)
    <3> DEFINE n == Cardinality(CommitsOf(p))  m == Cardinality(CommitsOf(p)')
    <3>1. m = n BY <2>1
    <3>2. n \in Nat /\ n <= 1 + faults BY <2>n, <2>p
    <3>3. Due(p)' /\ faults' = faults => n <= faults
      BY <1>t, <2>n, <2>p, DueBefore
    <3> HIDE DEF n, m
    <3>4. m <= 1 + faults' /\ (Due(p)' => m <= faults')
      <4>1. CASE faults' = faults BY <3>1, <3>2, <3>3, <4>1
      <4>2. CASE faults' = faults + 1 BY <1>t, <3>1, <3>2, <4>2
      <4> QED BY <1>t, <4>1, <4>2
    <3> QED BY <3>4 DEF m
  <2>2. CASE CommitsOf(p)' # CommitsOf(p)
    <3>1. /\ hop[h].pc = "exec" /\ IsWrite(hop[h].plan) /\ commits' = commits \cup {Effect(h)}
          /\ faults' = faults + 1 \/ (r.pc = "spend" /\ r.by = hop[h].by)
      BY <2>2 DEF Wrought, CommitsOf
    <3>2. Effect(h).by = hop[h].by BY DEF Effect
    <3>3. CommitsOf(p)' = CommitsOf(p) \cup {Effect(h)} /\ hop[h].by = p
      BY <2>2, <3>1, <3>2 DEF CommitsOf
    <3>4. Due(p) BY <3>1, <3>3 DEF Due
    <3> DEFINE n == Cardinality(CommitsOf(p))  m == Cardinality(CommitsOf(p)')
    <3>5. n \in Nat /\ n <= faults /\ m \in {n, n + 1}
      <4>1. Cardinality(CommitsOf(p) \cup {Effect(h)}) =
              IF Effect(h) \in CommitsOf(p) THEN n ELSE n + 1
        BY <2>n, FS_AddElement
      <4> QED BY <2>n, <2>p, <3>3, <3>4, <4>1
    <3>6. Due(p)' => faults' = faults + 1
      <4> SUFFICES ASSUME Due(p)', r.pc = "spend", r.by = p PROVE FALSE BY <3>1, <3>3
      <4>1. Spending(p)' BY <1>1 DEF Spending
      <4>2. PICK g \in Hops : hop'[g].pc \in {"gate", "exec"} /\ hop'[g].by = p
        BY <4>1 DEF Due
      <4>3. g # h /\ hop'[g] = hop[g] BY <1>1, <4>2
      <4>4. /\ hop[g].tenant = previews[p].tenant /\ hop[g].confirm /\ hop[g].pc \notin Rest
            /\ hop[h].tenant = previews[p].tenant /\ hop[h].confirm /\ hop[h].pc \notin Rest
        BY <3>1, <3>3, <4>2, <4>3, SpentByItsTenant
      <4> QED BY <4>3, <4>4 DEF Lone, Confirming
    <3> HIDE DEF n
    <3>7. m <= 1 + faults' /\ (Due(p)' => m <= faults') BY <1>t, <3>5, <3>6
    <3> QED BY <3>7
  <2> QED BY <2>1, <2>2
<1>4. Paid' BY <1>3 DEF Paid
<1> QED BY <1>2, <1>4

LEMMA OnceMoreStep == IInv /\ Portable /\ OnceMore /\ [Next]_vars => OnceMore'
<1> SUFFICES ASSUME IInv, Portable, OnceMore, [Next]_vars PROVE OnceMore' OBVIOUS
<1>t. /\ hop \in [Hops -> Request] BY DEF IInv, TypeOK
<1>1. ASSUME NEW h \in Hops, Arrive(h) PROVE OnceMore'
  <2>1. hop[h].pc = "idle" /\ UNCHANGED <<stash, cache, previews, commits, faults>>
    BY <1>1, ArriveBecomes
  <2>2. PICK r : /\ hop' = [hop EXCEPT ![h] = r] /\ r.pc \in {"stash", "cache"}
                 /\ overlap' = (overlap \/ (r.confirm /\ \E g \in InFlight :
                                              hop[g].confirm /\ hop[g].tenant = r.tenant))
    BY <1>1, ArriveBecomes
  <2>3. hop'[h] = r /\ \A g \in Hops \ {h} : hop'[g] = hop[g] BY <1>t, <2>2
  <2>4. CASE overlap' BY <2>4 DEF OnceMore
  <2>5. CASE ~overlap'
    <3>1. /\ Lone /\ Paid
          /\ r.confirm => \A g \in Hops :
               hop[g].pc \notin Rest /\ hop[g].confirm => hop[g].tenant # r.tenant
      BY <2>2, <2>5 DEF OnceMore, InFlight, Rest
    <3>2. Lone'
      <4> SUFFICES ASSUME NEW g \in Hops, NEW k \in Hops, g # k,
                          hop'[g].pc \notin Rest, hop'[g].confirm,
                          hop'[k].pc \notin Rest, hop'[k].confirm,
                          hop'[g].tenant = hop'[k].tenant
                   PROVE  FALSE
        BY DEF Lone, Confirming
      <4>1. CASE g = h BY <2>3, <3>1, <4>1
      <4>2. CASE k = h BY <2>3, <3>1, <4>2
      <4>3. CASE g # h /\ k # h BY <2>3, <3>1, <4>3 DEF Lone, Confirming
      <4> QED BY <4>1, <4>2, <4>3
    <3>3. \A p \in Hops : Due(p)' => Due(p) BY <2>1, <2>2, <2>3 DEF Due, Spending
    <3>4. \A p \in Hops : CommitsOf(p)' = CommitsOf(p) BY <2>1 DEF CommitsOf
    <3>5. Paid' BY <2>1, <3>1, <3>3, <3>4 DEF Paid
    <3> QED BY <3>2, <3>5 DEF OnceMore
  <2> QED BY <2>4, <2>5
<1>2. ASSUME NEW h \in Hops, NEW r, Became(h, r), Wrought(h, r) PROVE OnceMore'
  BY <1>2, TurnPays DEF OnceMore, Wrought
<1>3. CASE /\ UNCHANGED <<hop, commits, overlap, faults>>
           /\ \A t \in Tenants : stash'[t] \in {stash[t], NoStash}
  <2>1. \A p \in Hops : Due(p)' => Due(p) BY <1>3 DEF Due, Spending
  <2>2. \A p \in Hops : CommitsOf(p)' = CommitsOf(p) BY <1>3 DEF CommitsOf
  <2>3. Paid => Paid' BY <1>3, <2>1, <2>2 DEF Paid
  <2>4. Lone => Lone' BY <1>3 DEF Lone, Confirming
  <2> QED BY <1>3, <2>3, <2>4 DEF OnceMore
<1> QED BY <1>1, <1>2, <1>3, Steps

LEMMA OnceMoreInit == Init => OnceMore
<1> SUFFICES ASSUME Init PROVE Lone /\ Paid BY DEF OnceMore
<1>1. \A h \in Hops : hop[h].pc = "idle" BY DEF Init, Fresh
<1>2. Lone BY <1>1 DEF Lone, Confirming, Rest
<1>3. ASSUME NEW h \in Hops PROVE Cardinality(CommitsOf(h)) = 0
  <2>1. CommitsOf(h) = {} BY DEF Init, CommitsOf
  <2> QED BY <2>1, FS_EmptySet
<1>4. Paid BY <1>3 DEF Paid, Init
<1> QED BY <1>2, <1>4

\* The stash is read, executed and only then deleted, by key: yet of confirms
\* that are not in flight together one commits a preview, and one more for each
\* answer lost and each call or isolate that fails (SK-TRUST-005).
THEOREM ConfirmsCommitOnce == Spec => []SerialConfirmsCommitOnce
<1>1. IInv /\ OnceMore => SerialConfirmsCommitOnce
  BY DEF OnceMore, Paid, CommitsOf, SerialConfirmsCommitOnce
<1> QED BY <1>1, InvInit, InvStep, PortableInit, PortableStep, OnceMoreInit, OnceMoreStep, PTL
    DEF Spec
=============================================================================
