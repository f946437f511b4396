---------------------------- MODULE AskPipeline ----------------------------
(***************************************************************************)
(* orchestrateAsk (apps/api/src/ask/orchestrate.ts) for ONE goal asked of  *)
(* databases that share a schema hash: each tenant has one.  The hops are  *)
(* /v1/ask requests; a write takes two, a preview and, with `confirm`, a   *)
(* commit, bound by the confirm stash; a read goes through the plan cache, *)
(* one entry for the goal that every tenant shares.  Each step ends at an  *)
(* await, so hops interleave there, and an isolate may die there.          *)
(*                                                                         *)
(* A statement is abstracted to its identity, whether it writes, and the   *)
(* physical schema its table names carry.  Pre-pipeline refusals change    *)
(* nothing here and are one step, Refused.                                 *)
(*                                                                         *)
(* An operator that no other uses, standing before the one it varies, is   *)
(* that one with a plausible bug in it.                                    *)
(***************************************************************************)
EXTENDS Integers, FiniteSets

CONSTANTS
  Hops,         \* ids of the /v1/ask requests
  Tenants,      \* principals, each with a hosted database of its own
  Reads,        \* statements that only read
  Writes,       \* statements isWriteVerb finds a write in
  Intents,      \* what a goal may be routed as: "query", "write"
  MaxAttempts,  \* RETRY_MAX_ATTEMPTS
  MaxInFlight,  \* bound on hops in flight at once
  MaxFaults,    \* bound on failed KV calls, lost answers and dead isolates
  NoHop, NoPlan, NoTenant \* absent values

ASSUME BoundsAssumption ==
  /\ MaxAttempts \in Nat \ {0}
  /\ MaxInFlight \in Nat \ {0}
  /\ MaxFaults \in Nat
ASSUME NamesAssumption ==
  /\ Reads \cap Writes = {}
  /\ "relative" \notin Tenants /\ NoTenant \notin Tenants
  /\ NoHop \notin Hops
  /\ Intents \subseteq {"query", "write"}
  /\ \A sql \in Reads \cup Writes, s \in Tenants \cup {"relative"} :
       NoPlan # [sql |-> sql, schema |-> s]

VARIABLES
  stash,     \* confirm:<tenant>:<db>:<query hash> in KV
  cache,     \* plan:<schema hash>:<query hash> in KV
  hop,       \* the requests
  previews,  \* history: the statement each preview hop validated and diffed
  commits,   \* history: the writes that took effect
  overlap,   \* history: two confirms of one tenant were in flight together
  faults     \* faults so far

vars == <<stash, cache, hop, previews, commits, overlap, faults>>
history == <<previews, commits, overlap>>

Plans == [sql : Reads \cup Writes, schema : Tenants \cup {"relative"}]
NoStash == [plan |-> NoPlan, by |-> NoHop]
NoDiff == [plan |-> NoPlan, tenant |-> NoTenant]
IsWrite(p) == p.sql \in Writes

InFlight == {h \in Hops : hop[h].pc \notin {"idle", "done", "dead"}}
Fresh(l) == [pc |-> l, tenant |-> NoTenant, confirm |-> FALSE, readOnly |-> FALSE,
             intent |-> "query", plan |-> NoPlan, by |-> NoHop,
             hit |-> FALSE, repaired |-> FALSE, attempt |-> 1]

\* A finished request leaves nothing of its own behind.
Goto(h, l) == hop' = IF l \in {"done", "dead"} THEN [hop EXCEPT ![h] = Fresh(l)]
                                              ELSE [hop EXCEPT ![h].pc = l]
Fault == faults < MaxFaults /\ faults' = faults + 1
Mine(h) == stash[hop[h].tenant]

\* The plan cache may hold an entry of the time before plans were normalised,
\* one that names some tenant's physical schema.
Init ==
  /\ stash = [t \in Tenants |-> NoStash]
  /\ cache \in {NoPlan} \cup {p \in Plans : ~IsWrite(p)}
  /\ hop = [h \in Hops |-> Fresh("idle")]
  /\ previews = [h \in Hops |-> NoDiff]
  /\ commits = {}
  /\ overlap = FALSE
  /\ faults = 0

---------------------------------------------------------------------------
(* The request: whose it is, whether it confirms, whether a pk_live_ key    *)
(* sent it, what it was routed to.                                          *)

Arrive(h) ==
  /\ hop[h].pc = "idle"
  /\ Cardinality(InFlight) < MaxInFlight
  /\ \E t \in Tenants, c, ro \in BOOLEAN, i \in Intents :
       /\ hop' = [hop EXCEPT ![h] = [Fresh(IF c THEN "stash" ELSE "cache") EXCEPT
                    !.tenant = t, !.confirm = c, !.readOnly = ro, !.intent = i]]
       /\ overlap' = (overlap \/ (c /\ \E g \in InFlight : hop[g].confirm /\ hop[g].tenant = t))
  /\ UNCHANGED <<stash, cache, previews, commits, faults>>

\* rate_limited, db_not_found, schema_unavailable.
Refused(h) ==
  /\ hop[h].pc \in {"stash", "cache"}
  /\ Goto(h, "done")
  /\ UNCHANGED <<stash, cache, history, faults>>

---------------------------------------------------------------------------
(* Where the plan comes from: stash, cache, planner.                        *)

LookupStash(h) ==
  /\ hop[h].pc = "stash"
  /\ hop' = [hop EXCEPT ![h].pc = IF Mine(h) = NoStash THEN "cache" ELSE "gate",
                        ![h].plan = Mine(h).plan, ![h].by = Mine(h).by]
  /\ UNCHANGED <<stash, cache, history, faults>>

\* schemaRelativeSql strips the tenant's own schema and no other.
Normalised(h, p) ==
  IF p.schema = hop[h].tenant THEN [p EXCEPT !.schema = "relative"] ELSE p

\* A cached plan that still names a schema afterwards (referencesQualifiedTable)
\* was made for another database.
AnyEntryUsable(h) == cache # NoPlan
Usable(h) == cache # NoPlan /\ Normalised(h, cache).schema = "relative"

LookupCache(h) ==
  /\ hop[h].pc = "cache"
  /\ IF Usable(h)
       THEN hop' = [hop EXCEPT ![h].pc = "gate", ![h].plan = Normalised(h, cache), ![h].hit = TRUE]
       ELSE Goto(h, "plan")
  /\ UNCHANGED <<stash, cache, history, faults>>

\* One plan-and-validate attempt.  A goal routed as a write accepts only a write.
\* A planner may name any schema: nothing looks for a qualified table in a fresh
\* plan, so one that names a schema not its tenant's (another tenant's stands for
\* them all, information_schema included) is left for Postgres to refuse or to run.
Plan(h) ==
  /\ hop[h].pc = "plan"
  /\ \E q \in Plans :
       LET p == Normalised(h, q)
       IN  /\ hop[h].intent = "write" => IsWrite(p)
           /\ hop' = [hop EXCEPT ![h].pc = "gate", ![h].plan = p, ![h].attempt = 1]
  /\ UNCHANGED <<stash, cache, history, faults>>

\* The planner errs, or the validator or the intent check rejects.
PlanRejected(h) ==
  /\ hop[h].pc = "plan"
  /\ IF hop[h].attempt < MaxAttempts
       THEN hop' = [hop EXCEPT ![h].attempt = @ + 1]
       ELSE Goto(h, "done")
  /\ UNCHANGED <<stash, cache, history, faults>>

---------------------------------------------------------------------------
(* The gates between the plan and its execution.                            *)

\* A stored plan today's validator rejects (sql_rejected), or a plan on a
\* table the stored schema lacks (schema_mismatch).
Unfit(h) ==
  /\ hop[h].pc = "gate"
  /\ Goto(h, "done")
  /\ UNCHANGED <<stash, cache, history, faults>>

Forbidden(h) == hop[h].readOnly /\ IsWrite(hop[h].plan)
Expired(h) == hop[h].confirm /\ hop[h].by = NoHop /\ IsWrite(hop[h].plan)
Previewed(h) == ~hop[h].confirm /\ IsWrite(hop[h].plan)

GateWithoutReadOnly(h) ==
  /\ hop[h].pc = "gate"
  /\ Goto(h, IF Expired(h) THEN "done" ELSE IF Previewed(h) THEN "diff" ELSE "exec")
  /\ UNCHANGED <<stash, cache, history, faults>>
GateReplansOnConfirm(h) ==
  /\ hop[h].pc = "gate"
  /\ Goto(h, IF Forbidden(h) THEN "done" ELSE IF Previewed(h) THEN "diff" ELSE "exec")
  /\ UNCHANGED <<stash, cache, history, faults>>
Gate(h) ==
  /\ hop[h].pc = "gate"
  /\ Goto(h, IF Forbidden(h) \/ Expired(h) THEN "done"
             ELSE IF Previewed(h) THEN "diff" ELSE "exec")
  /\ UNCHANGED <<stash, cache, history, faults>>

\* buildDiff cannot tell the effect, or proves it is nothing.
NoPreview(h) ==
  /\ hop[h].pc = "diff"
  /\ Goto(h, "done")
  /\ UNCHANGED <<stash, cache, history, faults>>

Preview(h) == [plan |-> hop[h].plan, by |-> h]
Diffed(h) == [previews EXCEPT ![h] = [plan |-> hop[h].plan, tenant |-> hop[h].tenant]]

WriteStash(h) ==
  /\ hop[h].pc = "diff"
  /\ stash' = [stash EXCEPT ![hop[h].tenant] = Preview(h)]
  /\ Goto(h, "render")
  /\ previews' = Diffed(h)
  /\ UNCHANGED <<cache, commits, overlap, faults>>

\* The stash write is best-effort: the preview is rendered all the same.
WriteStashFails(h) ==
  /\ Fault
  /\ hop[h].pc = "diff"
  /\ Goto(h, "render")
  /\ previews' = Diffed(h)
  /\ UNCHANGED <<stash, cache, commits, overlap>>

\* requires_confirm reaches the client.
Render(h) ==
  /\ hop[h].pc = "render"
  /\ Goto(h, "done")
  /\ UNCHANGED <<stash, cache, history, faults>>

---------------------------------------------------------------------------
(* Execution, retried, and repaired once.                                   *)

Effect(h) == [hop |-> h, nth |-> Cardinality({c \in commits : c.hop = h}) + 1,
              tenant |-> hop[h].tenant, plan |-> hop[h].plan, by |-> hop[h].by,
              readOnly |-> hop[h].readOnly]

\* A write takes effect, in place or by way of the widen absorb, or the
\* engine reports that it affected no row.
ExecWrite(h) ==
  /\ hop[h].pc = "exec" /\ IsWrite(hop[h].plan)
  /\ commits' \in {commits, commits \cup {Effect(h)}}
  /\ Goto(h, IF hop[h].by = NoHop THEN "done" ELSE "spend")
  /\ UNCHANGED <<stash, cache, previews, overlap, faults>>

ExecRead(h) ==
  /\ hop[h].pc = "exec" /\ ~IsWrite(hop[h].plan)
  /\ Goto(h, IF hop[h].hit THEN "done" ELSE "store")
  /\ UNCHANGED <<stash, cache, history, faults>>

\* A class 22 or 23 error, a missing relation, a bad secret: never replayed.
ExecTerminal(h) ==
  /\ hop[h].pc = "exec"
  /\ Goto(h, "done")
  /\ UNCHANGED <<stash, cache, history, faults>>

RetryOnceMore(h) == IF hop[h].attempt <= MaxAttempts
                      THEN hop' = [hop EXCEPT ![h].attempt = @ + 1]
                      ELSE Goto(h, "done")
Retry(h) == IF hop[h].attempt < MaxAttempts
              THEN hop' = [hop EXCEPT ![h].attempt = @ + 1]
              ELSE Goto(h, "done")

\* The database cannot be reached, a cold compute for one.
ExecUnreachable(h) ==
  /\ hop[h].pc = "exec"
  /\ Retry(h)
  /\ UNCHANGED <<stash, cache, history, faults>>

\* The write takes effect and its answer is lost: an error like any other to
\* the retry, and a failed absorb to the widen.
ExecAnswerLost(h) ==
  /\ Fault
  /\ hop[h].pc = "exec" /\ IsWrite(hop[h].plan)
  /\ commits' = commits \cup {Effect(h)}
  /\ Retry(h) \/ Goto(h, "done")
  /\ UNCHANGED <<stash, cache, previews, overlap>>

\* A re-plannable error of a read is fed back to the planner, once.
RepairForever(h) ==
  /\ hop[h].pc = "exec" /\ ~IsWrite(hop[h].plan)
  /\ \E sql \in Reads :
       hop' = [hop EXCEPT ![h].plan = [sql |-> sql, schema |-> "relative"], ![h].attempt = 1]
  /\ UNCHANGED <<stash, cache, history, faults>>
Repair(h) ==
  /\ hop[h].pc = "exec" /\ ~IsWrite(hop[h].plan) /\ ~hop[h].repaired
  /\ \E q \in Plans :
       LET p == Normalised(h, q)
       IN  hop' = IF IsWrite(p)
                    THEN [hop EXCEPT ![h] = Fresh("done")]
                    ELSE [hop EXCEPT ![h].repaired = TRUE, ![h].attempt = 1, ![h].plan = p]
  /\ UNCHANGED <<stash, cache, history, faults>>

---------------------------------------------------------------------------
(* After the execution.                                                     *)

\* The delete names the key, not the preview that was read.
SpendNothing(h) ==
  /\ hop[h].pc = "spend"
  /\ Goto(h, "done")
  /\ UNCHANGED <<stash, cache, history, faults>>
SpendStash(h) ==
  /\ hop[h].pc = "spend"
  /\ stash' = [stash EXCEPT ![hop[h].tenant] = NoStash]
  /\ Goto(h, "done")
  /\ UNCHANGED <<cache, history, faults>>

SpendFails(h) ==
  /\ Fault
  /\ hop[h].pc = "spend"
  /\ Goto(h, "done")
  /\ UNCHANGED <<stash, cache, history>>

StorePlan(h) ==
  /\ hop[h].pc = "store"
  /\ cache' = hop[h].plan
  /\ Goto(h, "done")
  /\ UNCHANGED <<stash, history, faults>>

StoreFails(h) ==
  /\ Fault
  /\ hop[h].pc = "store"
  /\ Goto(h, "done")
  /\ UNCHANGED <<stash, cache, history>>

\* An uncaught throw (a KV lookup fails), or the isolate is evicted.
Die(h) ==
  /\ Fault
  /\ h \in InFlight
  /\ Goto(h, "dead")
  /\ UNCHANGED <<stash, cache, history>>

\* The TTLs of the two keys.
ExpireStash(t) ==
  /\ stash[t] # NoStash
  /\ stash' = [stash EXCEPT ![t] = NoStash]
  /\ UNCHANGED <<cache, hop, history, faults>>

ExpireCache ==
  /\ cache # NoPlan
  /\ cache' = NoPlan
  /\ UNCHANGED <<stash, hop, history, faults>>

---------------------------------------------------------------------------
Step(h) ==
  \/ Refused(h) \/ LookupStash(h) \/ LookupCache(h) \/ Plan(h) \/ PlanRejected(h)
  \/ Unfit(h) \/ Gate(h) \/ NoPreview(h) \/ WriteStash(h) \/ Render(h)
  \/ ExecWrite(h) \/ ExecRead(h) \/ ExecTerminal(h) \/ ExecUnreachable(h) \/ Repair(h)
  \/ SpendStash(h) \/ StorePlan(h)

Fail(h) ==
  \/ WriteStashFails(h) \/ ExecAnswerLost(h) \/ SpendFails(h) \/ StoreFails(h) \/ Die(h)

Next ==
  \/ \E h \in Hops : Arrive(h) \/ Step(h) \/ Fail(h)
  \/ \E t \in Tenants : ExpireStash(t)
  \/ ExpireCache

Spec == Init /\ [][Next]_vars

\* A worker runs a request it has accepted; nothing makes a client send one.
FairSpec == Spec /\ \A h \in Hops : WF_vars(Step(h))

---------------------------------------------------------------------------
Pcs == {"idle", "stash", "cache", "plan", "gate", "diff", "render", "exec", "spend",
        "store", "done", "dead"}

Request == [pc : Pcs, tenant : Tenants \cup {NoTenant}, confirm : BOOLEAN,
            readOnly : BOOLEAN, intent : {"query", "write"},
            plan : Plans \cup {NoPlan}, by : Hops \cup {NoHop}, hit : BOOLEAN,
            repaired : BOOLEAN, attempt : 1..MaxAttempts]

TypeOK ==
  /\ stash \in [Tenants -> [plan : Plans \cup {NoPlan}, by : Hops \cup {NoHop}]]
  /\ cache \in Plans \cup {NoPlan}
  /\ hop \in [Hops -> Request]
  /\ previews \in [Hops -> [plan : Plans \cup {NoPlan}, tenant : Tenants \cup {NoTenant}]]
  /\ commits \subseteq [hop : Hops, nth : Nat, tenant : Tenants, plan : Plans,
                         by : Hops \cup {NoHop}, readOnly : BOOLEAN]
  /\ overlap \in BOOLEAN
  /\ faults \in 0..MaxFaults

\* No write takes effect that an earlier preview hop of the same tenant has not
\* validated and diffed, word for word, whatever the planner, the cache, a
\* repair, a retry or another tenant does in between (SK-TRUST-001).
CommitsWerePreviewed ==
  \A c \in commits : /\ c.by \in Hops \ {c.hop}
                     /\ previews[c.by] = [plan |-> c.plan, tenant |-> c.tenant]

\* A read-only key that carries the same user id neither commits that user's
\* preview, nor spends it, nor puts one of its own in its place (SK-APIKEYS-003).
ReadOnlyTouchesNoPreview ==
  [][\A h \in Hops : hop[h].readOnly /\ hop'[h] # hop[h] =>
       UNCHANGED <<stash, commits>>]_vars

\* Of confirms that are not in flight together, one commits a preview, and one
\* more for each lost answer, retried, and each call or isolate that fails before
\* the stash is spent (SK-TRUST-005).
SerialConfirmsCommitOnce ==
  ~overlap => \A h \in Hops : Cardinality({c \in commits : c.by = h}) <= 1 + faults

\* The entry that all tenants share never comes to hold a write, nor a plan tied to
\* the schema of the tenant that stores it, whether planned, repaired or retried; no
\* statement that names its own tenant's schema is executed, and a hit executes no
\* statement that names a schema at all, be the entry from before plans were
\* normalised or another tenant's plan over a foreign schema (SK-ASK-025).
SharedPlansArePortable ==
  [][/\ cache' # cache /\ cache' # NoPlan => ~IsWrite(cache')
     /\ \A h \in Hops :
          /\ hop[h].pc = "store" /\ hop'[h] # hop[h] /\ cache' # cache =>
               cache'.schema # hop[h].tenant
          /\ hop'[h].pc = "exec" =>
               /\ hop'[h].plan.schema # hop'[h].tenant
               /\ hop'[h].hit /\ ~hop'[h].repaired => hop'[h].plan.schema = "relative"]_vars

\* Every accepted hop comes to an end: the retries are bounded and the repair
\* loop runs once.
HopsTerminate == \A h \in Hops : h \in InFlight ~> h \notin InFlight

\* orchestrate.ts: "normalise to schema-relative form BEFORE validate so the SQL we
\* validate, exec, and cache is portable".
CachedPlansArePortable ==
  [][cache' # cache /\ cache' # NoPlan => cache'.schema = "relative"]_vars

\* orchestrate.ts: "enforce the routed kind: a write goal that planned as a read
\* would otherwise execute as a SELECT and silently drop the mutation".
WriteGoalNeverRunsAsRead ==
  \A h \in Hops : hop[h].intent = "write" /\ hop[h].pc = "exec" => IsWrite(hop[h].plan)

\* confirm-stash.ts: "the commit hop deletes it once the write has run, so a re-sent
\* confirm (double-click, client retry after the response was lost) can never replay
\* the same approved statement".
ApprovedStatementRunsOnce ==
  \A h \in Hops : Cardinality({c \in commits : c.by = h}) <= 1
===========================================================================
