---------------------------- MODULE DbLifecycle ----------------------------
(***************************************************************************)
(* The life of hosted databases: creation, anonymous adoption, queries     *)
(* with the access-list heal, deletion, the anonymous sweep and the role   *)
(* reaper.  A database is a row of D1 (databases, with its owner) and a    *)
(* schema of one shared Postgres, readable by the role of one tenant under *)
(* a row policy that names the tenant.  No transaction spans the two       *)
(* stores; every operation here writes them one after the other, and any   *)
(* two operations interleave at their awaits.                              *)
(*                                                                         *)
(* An operator that no other uses, standing before the one it varies, is   *)
(* that one with a plausible bug in it.                                    *)
(***************************************************************************)
EXTENDS Integers, FiniteSets

CONSTANTS
  Ids,         \* database ids; the schema is named after its id
  Anons,       \* anonymous tenants, one per device token
  Users,       \* signed-in tenants
  None,
  Jobs,        \* requests to the worker
  MaxTries,    \* provisioning attempts of one create
  MaxFaults    \* bound on failed calls, lost answers and dead isolates

ASSUME TenantsAssumption == None \notin Anons \cup Users /\ Anons \cap Users = {}
ASSUME IdsAssumption == None \notin Ids
ASSUME BoundsAssumption == MaxTries \in Nat \ {0} /\ MaxFaults \in Nat

VARIABLES
  reg,      \* D1 databases.tenant_id by id, None without a row
  keys,     \* D1 api_keys: the tenants that hold a pk_live key of the id
  adopter,  \* D1 anon_adoptions: the user a token is bound to
  policy,   \* the tenant the schema's row policies name, None without a schema
  grants,   \* the tenants whose role has the grants of the schema
  roles,    \* the tenants whose role exists
  job,      \* the requests
  reaper,   \* the cron job that drops roles
  author,   \* history: the tenant the schema was created for
  swept,    \* history: the schemas whose row the sweep deleted
  odd,      \* history: which rare overlaps have happened
  faults    \* faults so far

d1 == <<reg, keys, adopter>>
pg == <<policy, grants, roles>>
vars == <<d1, pg, job, reaper, author, swept, odd, faults>>

Tenants == Anons \cup Users
Pcs == {"idle", "gate", "tx", "register", "key", "drop", "unregister", "unkey",
        "bind", "migrate", "rekey", "retarget", "exec", "heal", "ended"}

Fresh(l) == [pc |-> l, does |-> "none", by |-> None, db |-> None, aim |-> None,
             preset |-> FALSE, seeds |-> FALSE, tries |-> 1, todo |-> {}]

Active(j) == job[j].pc \notin {"idle", "ended"}
Goto(j, l) == job' = [job EXCEPT ![j].pc = l]
End(j) == job' = [job EXCEPT ![j] = Fresh("ended")]
Start(j, l, does, t, d) ==
  /\ job[j].pc = "idle"
  /\ job' = [job EXCEPT ![j] = [Fresh(l) EXCEPT !.does = does, !.by = t, !.db = d]]
Fault == faults < MaxFaults /\ faults' = faults + 1

NoReap == [pc |-> "off", todo |-> {}, seen |-> [t \in Tenants |-> {}]]

\* Any databases that are whole: a row, its key, its schema and its role.
Init ==
  /\ reg \in [Ids -> Tenants \cup {None}]
  /\ keys = [d \in Ids |-> {reg[d]} \ {None}]
  /\ adopter = [a \in Anons |-> None]
  /\ policy = reg
  /\ grants = [d \in Ids |-> {reg[d]} \ {None}]
  /\ roles = {reg[d] : d \in Ids} \ {None}
  /\ job = [j \in Jobs |-> Fresh("idle")]
  /\ reaper = NoReap
  /\ author = reg
  /\ swept = {} /\ odd = {}
  /\ faults = 0

---------------------------------------------------------------------------
(* Creation: up to MaxTries times the D1 gate and one Postgres transaction, *)
(* then the row, then the key.                                              *)

NewCreate(t, d, preset, seeds) ==
  [Fresh("gate") EXCEPT !.does = "create", !.by = t, !.db = d, !.aim = d,
                        !.preset = preset, !.seeds = seeds /\ ~preset]

\* Inference, compilation and validation have passed; the ids are minted.
StartCreate(j) ==
  /\ job[j].pc = "idle"
  /\ \E t \in Tenants, d \in Ids, preset, seeds \in BOOLEAN :
       /\ job' = [job EXCEPT ![j] = NewCreate(t, d, preset, seeds)]
       /\ odd' = odd \cup {"overlap" : i \in {i \in Jobs : job[i].does = "adopt" /\ job[i].db = t}}
  /\ UNCHANGED <<d1, pg, reaper, author, swept, faults>>

ClashForever(j) ==
  \E d \in Ids :
    job' = [job EXCEPT ![j].pc = "gate", ![j].db = d, ![j].tries = @ + 1]
\* schema_already_exists: new ids.  The statements of a preset are derived
\* again, those of an inferred plan keep the names they were compiled with.
Clash(j) ==
  IF job[j].tries = MaxTries
    THEN End(j)
    ELSE \E d \in Ids :
           job' = [job EXCEPT ![j].pc = "gate", ![j].db = d, ![j].tries = @ + 1,
                              ![j].aim = IF job[j].preset THEN d ELSE @]

Gate(j) ==
  /\ job[j].pc = "gate"
  /\ IF reg[job[j].db] # None THEN Clash(j) ELSE Goto(j, "tx")
  /\ UNCHANGED <<d1, pg, reaper, author, swept, odd, faults>>

\* The tables are made where the statements say, and then each table of the
\* plan is put under row security in the new schema, which fails without it.
RlsFindsItsTables(j) == job[j].aim = job[j].db

\* A request that has to do with an earlier holder of the id is still under way,
\* or has left it a row or a key.
Reused(d) ==
  \/ reg[d] # None
  \/ keys[d] # {}
  \/ \E i \in Jobs : /\ Active(i) /\ job[i].pc \notin {"gate", "tx"}
                     /\ job[i].db = d \/ d \in job[i].todo

Committed(j) ==
  LET d == job[j].db  t == job[j].by
  IN  /\ policy[d] = None
      /\ RlsFindsItsTables(j)
      /\ policy' = [policy EXCEPT ![d] = t]
      /\ grants' = [grants EXCEPT ![d] = {t}]
      /\ roles' = roles \cup {t}
      /\ author' = [author EXCEPT ![d] = t]
      /\ swept' = swept \ {d}
      /\ odd' = IF Reused(d) THEN odd \cup {"reuse"} ELSE odd

Provision(j) ==
  /\ job[j].pc = "tx"
  /\ Committed(j)
  /\ Goto(j, "register")
  /\ UNCHANGED <<d1, reaper, faults>>

\* 42P06; or 42P01 and the like, from a statement with the old name.
ProvisionAborts(j) ==
  /\ job[j].pc = "tx"
  /\ \/ policy[job[j].db] # None /\ Clash(j)
     \/ policy[job[j].db] = None /\ ~RlsFindsItsTables(j) /\ End(j)
  /\ UNCHANGED <<d1, pg, reaper, author, swept, odd, faults>>

\* The plan's own statements fail: once without the seed rows, then for good.
PlanFails(j) ==
  /\ job[j].pc = "tx"
  /\ policy[job[j].db] = None
  /\ \/ job[j].seeds /\ job[j].tries < MaxTries
        /\ job' = [job EXCEPT ![j].pc = "gate", ![j].seeds = FALSE, ![j].tries = @ + 1]
     \/ End(j)
  /\ UNCHANGED <<d1, pg, reaper, author, swept, odd, faults>>

\* It commits, the connection breaks, and no SQLSTATE means rolled back.
ProvisionAnswerLost(j) ==
  /\ Fault
  /\ job[j].pc = "tx"
  /\ Committed(j)
  /\ End(j)
  /\ UNCHANGED <<d1, reaper>>

Register(j) ==
  /\ job[j].pc = "register"
  /\ LET d == job[j].db
     IN  IF reg[d] = None
           THEN reg' = [reg EXCEPT ![d] = job[j].by] /\ Goto(j, "key")
           ELSE UNCHANGED reg /\ Goto(j, "drop")
  /\ UNCHANGED <<keys, adopter, pg, reaper, author, swept, odd, faults>>

\* The INSERT throws, having landed or not: both are rolled back.
RegisterFails(j) ==
  /\ Fault
  /\ job[j].pc = "register"
  /\ Goto(j, "drop")
  /\ UNCHANGED <<d1, pg, reaper, author, swept, odd>>
RegisterAnswerLost(j) ==
  /\ Fault
  /\ job[j].pc = "register"
  /\ reg[job[j].db] = None
  /\ reg' = [reg EXCEPT ![job[j].db] = job[j].by]
  /\ Goto(j, "drop")
  /\ UNCHANGED <<keys, adopter, pg, reaper, author, swept, odd>>

MintPkLive(j) ==
  /\ job[j].pc = "key"
  /\ keys' = [keys EXCEPT ![job[j].db] = @ \cup {job[j].by}]
  /\ End(j)
  /\ UNCHANGED <<reg, adopter, pg, reaper, author, swept, odd, faults>>

---------------------------------------------------------------------------
(* dropSchemaAndRegistry, for a failed create and for DELETE.               *)

ResolveToUnregister(j) ==
  /\ \E d \in Ids : reg[d] \in Users /\ Start(j, "unregister", "delete", reg[d], d)
  /\ UNCHANGED <<d1, pg, reaper, author, swept, odd, faults>>
Resolve(j) ==
  /\ \E d \in Ids : reg[d] \in Users /\ Start(j, "drop", "delete", reg[d], d)
  /\ UNCHANGED <<d1, pg, reaper, author, swept, odd, faults>>

DropSchema(j) ==
  /\ job[j].pc = "drop"
  /\ policy' = [policy EXCEPT ![job[j].db] = None]
  /\ grants' = [grants EXCEPT ![job[j].db] = {}]
  /\ author' = [author EXCEPT ![job[j].db] = None]
  /\ Goto(j, "unregister")
  /\ UNCHANGED <<d1, roles, reaper, swept, odd, faults>>

Unregister(j) ==
  /\ job[j].pc = "unregister"
  /\ reg' = [reg EXCEPT ![job[j].db] = None]
  /\ IF job[j].does = "delete" THEN Goto(j, "unkey") ELSE End(j)
  /\ UNCHANGED <<keys, adopter, pg, reaper, author, swept, odd, faults>>

DeleteKeys(j) ==
  /\ job[j].pc = "unkey"
  /\ keys' = [keys EXCEPT ![job[j].db] = {}]
  /\ End(j)
  /\ UNCHANGED <<reg, adopter, pg, reaper, author, swept, odd, faults>>

---------------------------------------------------------------------------
(* Adoption of an anonymous device by a user who signs in with its token;   *)
(* the client sends it again at every sign-in.  The job's db is the token.  *)

StartAdopt(j) ==
  /\ \E a \in Anons, u \in Users :
       /\ Start(j, "bind", "adopt", u, a)
       /\ odd' = odd \cup {"overlap" : i \in {i \in Jobs : job[i].does = "create" /\ job[i].by = a}}
  /\ UNCHANGED <<d1, pg, reaper, author, swept, faults>>

\* First adopter wins: a row, or the row that is there.
BindRebinding(j) ==
  /\ job[j].pc = "bind"
  /\ adopter' = [adopter EXCEPT ![job[j].db] = job[j].by]
  /\ Goto(j, "migrate")
  /\ UNCHANGED <<reg, keys, pg, reaper, author, swept, odd, faults>>
Bind(j) ==
  /\ job[j].pc = "bind"
  /\ LET a == job[j].db
     IN  /\ adopter' = [adopter EXCEPT ![a] = IF @ = None THEN job[j].by ELSE @]
         /\ IF adopter'[a] = job[j].by THEN Goto(j, "migrate") ELSE End(j)
  /\ UNCHANGED <<reg, keys, pg, reaper, author, swept, odd, faults>>

\* The rows change owner in one statement; the ids are for the access lists.
Migrate(j) ==
  /\ job[j].pc = "migrate"
  /\ LET mine == {d \in Ids : reg[d] = job[j].db}
     IN  /\ reg' = [d \in Ids |-> IF d \in mine THEN job[j].by ELSE reg[d]]
         /\ job' = [job EXCEPT ![j].pc = "rekey", ![j].todo = mine]
  /\ UNCHANGED <<keys, adopter, pg, reaper, author, swept, odd, faults>>

AfterKeys(j) == IF job[j].todo = {} THEN End(j) ELSE Goto(j, "retarget")

AdoptApiKeys(j) ==
  /\ job[j].pc = "rekey"
  /\ keys' = [d \in Ids |-> {IF t = job[j].db THEN job[j].by ELSE t : t \in keys[d]}]
  /\ AfterKeys(j)
  /\ UNCHANGED <<reg, adopter, pg, reaper, author, swept, odd, faults>>

\* retargetAdoptedDbAcl: role, grants and policies in one transaction.
\* The grants of the former tenant stay.  The catalog read that comes before is part
\* of the step: it lists the tables under a policy, which here the schema has as a
\* whole, and when the schema is dropped after it the transaction fails as well.
RetargetAclWithoutPolicy(d, t) ==
  /\ policy[d] # None
  /\ roles' = roles \cup {t}
  /\ grants' = [grants EXCEPT ![d] = @ \cup {t}]
  /\ UNCHANGED policy
RetargetAcl(d, t) ==
  /\ policy[d] # None
  /\ roles' = roles \cup {t}
  /\ grants' = [grants EXCEPT ![d] = @ \cup {t}]
  /\ policy' = [policy EXCEPT ![d] = t]

Retargeted(j, d) ==
  LET rest == job[j].todo \ {d}
  IN  IF rest = {} THEN End(j) ELSE job' = [job EXCEPT ![j].todo = rest]

Retarget(j) ==
  /\ job[j].pc = "retarget"
  /\ \E d \in job[j].todo : RetargetAcl(d, job[j].by) /\ Retargeted(j, d)
  /\ UNCHANGED <<d1, reaper, author, swept, odd, faults>>

\* Logged only.  It fails by itself when the schema is gone.
RetargetFails(j) ==
  /\ job[j].pc = "retarget"
  /\ \E d \in job[j].todo :
       /\ IF policy[d] = None THEN UNCHANGED faults ELSE Fault
       /\ Retargeted(j, d)
  /\ UNCHANGED <<d1, pg, reaper, author, swept, odd>>

---------------------------------------------------------------------------
(* A query: SET LOCAL ROLE of the row's tenant, and the heal when Postgres  *)
(* answers that there is no such role.                                      *)

StartAsk(j) ==
  /\ \E d \in Ids : reg[d] # None /\ Start(j, "exec", "ask", reg[d], d)
  /\ UNCHANGED <<d1, pg, reaper, author, swept, odd, faults>>

Exec(j) ==
  /\ job[j].pc = "exec"
  /\ IF job[j].by \notin roles THEN Goto(j, "heal") ELSE End(j)
  /\ UNCHANGED <<d1, pg, reaper, author, swept, odd, faults>>

Heal(j) ==
  /\ job[j].pc = "heal"
  /\ RetargetAcl(job[j].db, job[j].by)
  /\ End(j)
  /\ UNCHANGED <<d1, reaper, author, swept, odd, faults>>
HealFails(j) ==
  /\ job[j].pc = "heal"
  /\ IF policy[job[j].db] = None THEN UNCHANGED faults ELSE Fault
  /\ End(j)
  /\ UNCHANGED <<d1, pg, reaper, author, swept, odd>>

---------------------------------------------------------------------------
(* Any call of a request fails, or its isolate dies: it is over.  The calls *)
(* whose failure the code catches are the actions above.                    *)

Break(j) ==
  /\ Fault
  /\ Active(j)
  /\ End(j)
  /\ UNCHANGED <<d1, pg, reaper, author, swept, odd>>

---------------------------------------------------------------------------
(* The cron.  The sweep deletes rows of anonymous tenants, by age or over   *)
(* the cap: which ones is a choice.  The schemas stay.                      *)

Sweep ==
  /\ \E S \in SUBSET {d \in Ids : reg[d] \in Anons} :
       /\ S # {}
       /\ reg' = [d \in Ids |-> IF d \in S THEN None ELSE reg[d]]
       /\ swept' = swept \cup S
  /\ UNCHANGED <<keys, adopter, pg, job, reaper, author, odd, faults>>

\* The reaper: the catalog, then the registry, then a transaction per role.
ReadCatalog ==
  /\ reaper.pc = "off"
  /\ reaper' = [pc |-> "registry", todo |-> roles,
                seen |-> [t \in Tenants |-> {d \in Ids : t \in roles /\ t \in grants[d]}]]
  /\ UNCHANGED <<d1, pg, job, author, swept, odd, faults>>

Live == {reg[d] : d \in Ids} \ {None}

ReadRegistry ==
  /\ reaper.pc = "registry"
  /\ LET orphans == reaper.todo \ Live
     IN  reaper' = IF Live = {} \/ orphans = {} THEN NoReap
                   ELSE [reaper EXCEPT !.pc = "reap", !.todo = orphans]
  /\ UNCHANGED <<d1, pg, job, author, swept, odd, faults>>

Reaped(t) ==
  LET rest == reaper.todo \ {t}
  IN  reaper' = IF rest = {} THEN NoReap ELSE [reaper EXCEPT !.todo = rest]

\* REVOKE fails for a schema dropped since, DROP ROLE for a role that is gone
\* or holds a grant the catalog did not show.
DroppableIfBare(t) == t \in roles /\ \A d \in Ids : t \notin grants[d]
Droppable(t) ==
  /\ t \in roles
  /\ \A d \in reaper.seen[t] : policy[d] # None
  /\ \A d \in Ids : t \in grants[d] => d \in reaper.seen[t]

\* The tenant has a database, or a request that is about to rely on the role.
InUse(t) == t \in Live \/ \E j \in Jobs : Active(j) /\ job[j].by = t

DropRole(t) ==
  /\ reaper.pc = "reap" /\ t \in reaper.todo
  /\ Droppable(t)
  /\ roles' = roles \ {t}
  /\ grants' = [d \in Ids |-> grants[d] \ {t}]
  /\ Reaped(t)
  /\ odd' = IF InUse(t) THEN odd \cup {"straddle"} ELSE odd
  /\ UNCHANGED <<d1, policy, job, author, swept, faults>>

DropRoleFails(t) ==
  /\ reaper.pc = "reap" /\ t \in reaper.todo
  /\ ~Droppable(t)
  /\ Reaped(t)
  /\ UNCHANGED <<d1, pg, job, author, swept, odd, faults>>

Step(j) ==
  \/ Gate(j) \/ Provision(j) \/ ProvisionAborts(j) \/ PlanFails(j) \/ ProvisionAnswerLost(j)
  \/ Register(j) \/ RegisterFails(j) \/ RegisterAnswerLost(j) \/ MintPkLive(j)
  \/ DropSchema(j) \/ Unregister(j) \/ DeleteKeys(j)
  \/ Bind(j) \/ Migrate(j) \/ AdoptApiKeys(j) \/ Retarget(j) \/ RetargetFails(j)
  \/ Exec(j) \/ Heal(j) \/ HealFails(j)
  \/ Break(j)

Reap == ReadCatalog \/ ReadRegistry \/ \E t \in Tenants : DropRole(t) \/ DropRoleFails(t)

Next ==
  \/ \E j \in Jobs : StartCreate(j) \/ Resolve(j) \/ StartAdopt(j) \/ StartAsk(j) \/ Step(j)
  \/ Sweep
  \/ Reap

Spec == Init /\ [][Next]_vars
FairSpec == Spec /\ WF_vars(Reap) /\ \A j \in Jobs : WF_vars(Step(j))

---------------------------------------------------------------------------
(* Properties                                                               *)

Job == [pc : Pcs, does : {"none", "create", "delete", "adopt", "ask"},
        by : Tenants \cup {None}, db : Ids \cup Anons \cup {None},
        aim : Ids \cup {None}, preset : BOOLEAN, seeds : BOOLEAN,
        tries : 1..MaxTries, todo : SUBSET Ids]

TypeOK ==
  /\ reg \in [Ids -> Tenants \cup {None}]
  /\ keys \in [Ids -> SUBSET Tenants]
  /\ adopter \in [Anons -> Users \cup {None}]
  /\ policy \in [Ids -> Tenants \cup {None}]
  /\ grants \in [Ids -> SUBSET Tenants]
  /\ roles \in SUBSET Tenants
  /\ job \in [Jobs -> Job]
  /\ reaper \in [pc : {"off", "registry", "reap"}, todo : SUBSET Tenants,
                 seen : [Tenants -> SUBSET Ids]]
  /\ author \in [Ids -> Tenants \cup {None}]
  /\ swept \in SUBSET Ids
  /\ odd \in SUBSET {"reuse", "overlap", "straddle"}
  /\ faults \in 0..MaxFaults

Quiet == \A j \in Jobs : ~Active(j)

\* A row whose schema is gone, with no deletion or rollback between its two halves;
\* a schema without a row, neither swept nor with a creation or rollback under way.
LostSchema(d) ==
  /\ reg[d] # None /\ policy[d] = None
  /\ ~ \E j \in Jobs : job[j].pc = "unregister" /\ job[j].db = d
LostRow(d) ==
  /\ policy[d] # None /\ reg[d] = None /\ d \notin swept
  /\ ~ \E j \in Jobs :
         job[j].does = "create" /\ job[j].db = d /\ job[j].pc \in {"register", "drop"}

\* The two stores disagree on a database, beyond what a request under way or the
\* sweep accounts for, at most once for each call that failed, answer that was lost
\* and isolate that died, however creations, rollbacks, deletions and adoptions
\* overlap.  (Two deletions of one database and a creation that mints its id
\* again break this: the second DROP SCHEMA hits the new schema, its DELETE misses
\* the row.)
StoresAgree ==
  "reuse" \notin odd => Cardinality({d \in Ids : LostSchema(d) \/ LostRow(d)}) <= faults

\* Who can read a database, through its row, a grant and the row policy, is the
\* tenant it was made for or the first user to adopt that tenant, whatever fails.
ReadersAreHeirs ==
  "reuse" \notin odd =>
    \A d \in Ids : reg[d] # None /\ policy[d] = reg[d] /\ reg[d] \in grants[d] =>
      \/ author[d] = reg[d]
      \/ author[d] \in Anons /\ adopter[author[d]] = reg[d]

\* At rest, when nothing has failed, every owner can query every database, unless
\* the reaper has dropped a role in use: adoption re-points each access list.  And
\* every key belongs to the owner, unless a creation was still minting one when
\* its device was adopted.
OwnersAreServed ==
  Quiet /\ faults = 0 =>
    \A d \in Ids : reg[d] # None =>
      /\ odd \subseteq {"overlap"} =>
           reg[d] \in roles /\ reg[d] \in grants[d] /\ policy[d] = reg[d]
      /\ odd \subseteq {"straddle"} => keys[d] \subseteq {reg[d]}

\* The role of a tenant without databases or requests is dropped in the end,
\* however its revocation was raced.
OrphanRolesGo ==
  \A t \in Tenants :
    <>[](~InUse(t) /\ Live # {}) => <>[](t \notin roles)

\* Row and schema together behave as one registry entry.
Own == INSTANCE Ownership WITH
  owner <- [d \in Ids |-> IF policy[d] = None THEN None ELSE reg[d]]
ImplementsOwnership == Own!Spec

\* role-reap.ts: "reaping a live role by mistake (a create racing this read) is
\* self-healing: the exec path recreates a missing tenant role on the next query".
\* So what the reaper took from an owner, and nothing else went wrong, is access a
\* query restores: the owner has it all, or has no role for the query to miss.
MistakenReapsHeal ==
  Quiet /\ faults = 0 /\ odd \subseteq {"straddle"} =>
    \A d \in Ids : reg[d] # None /\ reg[d] \in roles =>
      reg[d] \in grants[d] /\ policy[d] = reg[d]
=============================================================================
