------------------------- MODULE DbLifecycleProofs -------------------------
(***************************************************************************)
(* For any number of databases, tenants, requests and faults: the row and  *)
(* the schema of a database together behave as one entry of the registry   *)
(* that Ownership describes, and whoever can read it inherited it.         *)
(***************************************************************************)
EXTENDS DbLifecycle, FiniteSetTheorems, TLAPS

\* What a request's place in the code says of its record.
Wf(q) ==
  /\ q.pc \in {"gate", "tx", "register", "key", "drop", "unregister", "unkey", "exec", "heal"} =>
       q.by \in Tenants /\ q.db \in Ids
  /\ q.pc \in {"gate", "tx"} => q.aim \in Ids
  /\ q.pc \in {"bind", "migrate", "rekey", "retarget"} => q.by \in Users /\ q.db \in Anons
  /\ q.todo # {} => q.pc \in {"rekey", "retarget"}

Typed == TypeOK /\ \A i \in Jobs : Wf(job[i])

Becomes(j, q) == job' = [job EXCEPT ![j] = q]

LEMMA FreshIsJob ==
  ASSUME NEW l \in {"idle", "ended"}
  PROVE  Fresh(l) \in Job /\ Wf(Fresh(l))
<1>1. 1 \in 1..MaxTries BY BoundsAssumption
<1> QED BY <1>1 DEF Fresh, Job, Wf, Pcs

\* One request moves to a good record: all of them are good.
LEMMA Put ==
  ASSUME job \in [Jobs -> Job], \A i \in Jobs : Wf(job[i]),
         NEW j \in Jobs, NEW q \in Job, Wf(q), Becomes(j, q)
  PROVE  job' \in [Jobs -> Job] /\ \A i \in Jobs : Wf(job'[i])
  BY DEF Becomes

\* The ways a request goes on, as records.
LEMMA Moves ==
  ASSUME Typed, NEW j \in Jobs
  PROVE  /\ End(j) => Becomes(j, Fresh("ended"))
         /\ \A l \in Pcs : Goto(j, l) =>
              LET q == [job[j] EXCEPT !.pc = l]
              IN  /\ Becomes(j, q) /\ q \in Job /\ q.pc = l
                  /\ q.by = job[j].by /\ q.db = job[j].db /\ q.aim = job[j].aim
                  /\ q.todo = job[j].todo
<1>1. job[j] \in Job BY DEF Typed, TypeOK
<1>2. ASSUME NEW l \in Pcs, Goto(j, l)
      PROVE  LET q == [job[j] EXCEPT !.pc = l]
             IN  /\ Becomes(j, q) /\ q \in Job /\ q.pc = l
                 /\ q.by = job[j].by /\ q.db = job[j].db /\ q.aim = job[j].aim
                 /\ q.todo = job[j].todo
  BY <1>1, <1>2 DEF Goto, Becomes, Job
<1> QED BY <1>2 DEF End, Becomes

LEMMA EndKeeps ==
  ASSUME Typed, NEW j \in Jobs, End(j)
  PROVE  job' \in [Jobs -> Job] /\ \A i \in Jobs : Wf(job'[i])
  BY FreshIsJob, Moves, Put DEF Typed, TypeOK

LEMMA GotoKeeps ==
  ASSUME Typed, NEW j \in Jobs, NEW l \in Pcs, Goto(j, l),
         Wf([job[j] EXCEPT !.pc = l])
  PROVE  job' \in [Jobs -> Job] /\ \A i \in Jobs : Wf(job'[i])
  BY Moves, Put DEF Typed, TypeOK

Good == job' \in [Jobs -> Job] /\ \A i \in Jobs : Wf(job'[i])

\* Another try with new ids, or the end.
LEMMA ClashKeeps ==
  ASSUME Typed, NEW j \in Jobs, Clash(j), job[j].pc \in {"gate", "tx"}
  PROVE  Good
<1>1. job[j] \in Job /\ Wf(job[j]) BY DEF Typed, TypeOK
<1>2. CASE job[j].tries = MaxTries BY <1>2, EndKeeps DEF Clash, Good
<1>3. CASE job[j].tries # MaxTries
  <2>1. PICK d \in Ids :
          job' = [job EXCEPT ![j].pc = "gate", ![j].db = d, ![j].tries = @ + 1,
                             ![j].aim = IF job[j].preset THEN d ELSE @]
    BY <1>3 DEF Clash
  <2> DEFINE q == [job[j] EXCEPT !.pc = "gate", !.db = d, !.tries = job[j].tries + 1,
                                 !.aim = IF job[j].preset THEN d ELSE job[j].aim]
  <2>2. job[j].tries + 1 \in 1..MaxTries
    <3>1. job[j].tries \in 1..MaxTries BY <1>1 DEF Job
    <3> QED BY <3>1, <1>3, BoundsAssumption
  <2>3. job[j].by \in Tenants /\ job[j].aim \in Ids /\ job[j].todo = {} BY <1>1 DEF Wf
  <2>4. q \in Job BY <1>1, <2>2, <2>3 DEF Job, Pcs
  <2>5. Wf(q) BY <1>1, <2>3 DEF Wf, Job
  <2>6. Becomes(j, q) BY <2>1 DEF Becomes
  <2> QED BY <2>4, <2>5, <2>6, Put DEF Typed, TypeOK, Good
<1> QED BY <1>2, <1>3

LEMMA RetargetedKeeps ==
  ASSUME Typed, NEW j \in Jobs, job[j].pc = "retarget", NEW d \in Ids, Retargeted(j, d)
  PROVE  Good
<1>1. job[j] \in Job /\ Wf(job[j]) BY DEF Typed, TypeOK
<1>2. CASE job[j].todo \ {d} = {} BY <1>2, EndKeeps DEF Retargeted, Good
<1>3. CASE job[j].todo \ {d} # {}
  <2> DEFINE q == [job[j] EXCEPT !.todo = job[j].todo \ {d}]
  <2>1. q \in Job /\ Wf(q) BY <1>1 DEF Job, Wf
  <2>2. Becomes(j, q) BY <1>3 DEF Retargeted, Becomes
  <2> QED BY <2>1, <2>2, Put DEF Typed, TypeOK, Good
<1> QED BY <1>2, <1>3

\* Every request that starts or goes on has a good record.
LEMMA JobsStep ==
  ASSUME Typed, NEW j \in Jobs,
         StartCreate(j) \/ Resolve(j) \/ StartAdopt(j) \/ StartAsk(j) \/ Step(j)
  PROVE  Good
<1>j. job[j] \in Job /\ Wf(job[j]) BY DEF Typed, TypeOK
<1>s. ASSUME NEW l \in {"drop", "bind", "exec"}, NEW does \in {"delete", "adopt", "ask"},
             NEW t \in Tenants, NEW d \in Ids \cup Anons, Start(j, l, does, t, d),
             l = "bind" => t \in Users /\ d \in Anons, l # "bind" => d \in Ids
      PROVE  Good
  <2> DEFINE q == [Fresh(l) EXCEPT !.does = does, !.by = t, !.db = d]
  <2>0. 1 \in 1..MaxTries BY BoundsAssumption
  <2>1. q \in Job /\ q.pc = l /\ q.by = t /\ q.db = d /\ q.todo = {}
    BY <2>0 DEF Fresh, Job, Pcs
  <2>2. Becomes(j, q) BY <1>s DEF Start, Becomes
  <2> HIDE DEF q
  <2>3. Wf(q) BY <1>s, <2>1 DEF Wf
  <2> QED BY <2>1, <2>2, <2>3, Put DEF Typed, TypeOK, Good
<1>g. ASSUME NEW l \in {"tx", "register", "key", "drop", "unregister", "unkey", "retarget", "heal"},
             Goto(j, l),
             l = "retarget" => job[j].pc = "rekey",
             l # "retarget" => job[j].by \in Tenants /\ job[j].db \in Ids /\ job[j].todo = {},
             l = "tx" => job[j].aim \in Ids
      PROVE  Good
  <2> DEFINE q == [job[j] EXCEPT !.pc = l]
  <2>0. l \in Pcs BY DEF Pcs
  <2>1. /\ q \in Job /\ q.pc = l /\ q.by = job[j].by /\ q.db = job[j].db
        /\ q.aim = job[j].aim /\ q.todo = job[j].todo /\ Becomes(j, q)
    BY <1>g, <2>0, Moves
  <2> HIDE DEF q
  <2>2. Wf(q) BY <1>g, <1>j, <2>1 DEF Wf
  <2> QED BY <2>1, <2>2, Put DEF Typed, TypeOK, Good
<1>1. CASE StartCreate(j)
  <2>1. PICK t \in Tenants, d \in Ids, preset \in BOOLEAN, seeds \in BOOLEAN :
          job' = [job EXCEPT ![j] = NewCreate(t, d, preset, seeds)]
    BY <1>1, Zenon DEF StartCreate
  <2> DEFINE q == NewCreate(t, d, preset, seeds)
  <2>2. 1 \in 1..MaxTries BY BoundsAssumption
  <2>3. (seeds /\ ~preset) \in BOOLEAN OBVIOUS
  <2>4. q \in Job /\ Wf(q) BY <2>2, <2>3 DEF NewCreate, Fresh, Job, Wf, Pcs
  <2>5. Becomes(j, q) BY <2>1 DEF Becomes
  <2> QED BY <2>4, <2>5, Put DEF Typed, TypeOK, Good
<1>2. CASE Resolve(j) BY <1>2, <1>s DEF Resolve, Tenants
<1>3. CASE StartAdopt(j) BY <1>3, <1>s DEF StartAdopt, Tenants
<1>4. CASE StartAsk(j)
  <2>1. \A d \in Ids : reg[d] # None => reg[d] \in Tenants BY DEF Typed, TypeOK
  <2> QED BY <1>4, <1>s, <2>1 DEF StartAsk
<1>5. CASE Gate(j)
  <2>1. /\ job[j].by \in Tenants /\ job[j].db \in Ids /\ job[j].aim \in Ids
        /\ job[j].pc = "gate" /\ job[j].todo = {}
    BY <1>5, <1>j DEF Gate, Wf
  <2>2. CASE reg[job[j].db] # None BY <1>5, <2>1, <2>2, ClashKeeps DEF Gate
  <2>3. CASE reg[job[j].db] = None
    <3>1. Goto(j, "tx") BY <1>5, <2>3 DEF Gate
    <3> QED BY <2>1, <3>1, <1>g
  <2> QED BY <2>2, <2>3
<1>6. CASE Provision(j)
  <2>1. Goto(j, "register") /\ job[j].pc = "tx" BY <1>6 DEF Provision
  <2> QED BY <2>1, <1>g, <1>j DEF Wf
<1>7. CASE ProvisionAborts(j) \/ ProvisionAnswerLost(j)
  BY <1>7, ClashKeeps, EndKeeps DEF ProvisionAborts, ProvisionAnswerLost, Good
<1>8. CASE PlanFails(j)
  <2>1. CASE End(j) BY <2>1, EndKeeps DEF Good
  <2>2. CASE ~End(j)
    <3> DEFINE q == [job[j] EXCEPT !.pc = "gate", !.seeds = FALSE, !.tries = job[j].tries + 1]
    <3>1. /\ job[j].tries < MaxTries /\ job[j].pc = "tx"
          /\ job' = [job EXCEPT ![j].pc = "gate", ![j].seeds = FALSE, ![j].tries = @ + 1]
      BY <1>8, <2>2 DEF PlanFails
    <3>2. job[j].tries + 1 \in 1..MaxTries
      <4>1. job[j].tries \in 1..MaxTries BY <1>j DEF Job
      <4> QED BY <4>1, <3>1, BoundsAssumption
    <3>3. q \in Job /\ Wf(q) BY <1>j, <3>1, <3>2 DEF Job, Wf, Pcs
    <3>4. Becomes(j, q) BY <3>1 DEF Becomes
    <3> QED BY <3>3, <3>4, Put DEF Typed, TypeOK, Good
  <2> QED BY <2>1, <2>2
<1>9. CASE Register(j) \/ RegisterFails(j) \/ RegisterAnswerLost(j)
  <2>1. job[j].pc = "register" /\ (Goto(j, "key") \/ Goto(j, "drop"))
    BY <1>9 DEF Register, RegisterFails, RegisterAnswerLost
  <2> QED BY <2>1, <1>g, <1>j DEF Wf
<1>10. CASE MintPkLive(j) \/ DeleteKeys(j) \/ Heal(j) \/ HealFails(j) \/ Break(j)
  BY <1>10, EndKeeps DEF MintPkLive, DeleteKeys, Heal, HealFails, Break, Good
<1>11. CASE DropSchema(j)
  <2>1. job[j].pc = "drop" /\ Goto(j, "unregister") BY <1>11 DEF DropSchema
  <2> QED BY <2>1, <1>g, <1>j DEF Wf
<1>12. CASE Unregister(j)
  <2>1. job[j].pc = "unregister" /\ (Goto(j, "unkey") \/ End(j)) BY <1>12 DEF Unregister
  <2> QED BY <2>1, <1>g, <1>j, EndKeeps DEF Wf, Good
<1>13. CASE Bind(j)
  <2>1. CASE End(j) BY <2>1, EndKeeps DEF Good
  <2>2. CASE ~End(j)
    <3>1. job[j].pc = "bind" /\ Goto(j, "migrate") BY <1>13, <2>2 DEF Bind
    <3> DEFINE q == [job[j] EXCEPT !.pc = "migrate"]
    <3>0. "migrate" \in Pcs BY DEF Pcs
    <3>2. /\ q \in Job /\ q.pc = "migrate" /\ q.by = job[j].by /\ q.db = job[j].db
          /\ q.todo = job[j].todo /\ Becomes(j, q)
      BY <3>0, <3>1, Moves
    <3> HIDE DEF q
    <3>3. Wf(q) BY <1>j, <3>1, <3>2 DEF Wf
    <3> QED BY <3>2, <3>3, Put DEF Typed, TypeOK, Good
  <2> QED BY <2>1, <2>2
<1>14. CASE Migrate(j)
  <2> DEFINE mine == {d \in Ids : reg[d] = job[j].db}
             q == [job[j] EXCEPT !.pc = "rekey", !.todo = mine]
  <2>1. job[j].pc = "migrate" /\ job' = [job EXCEPT ![j].pc = "rekey", ![j].todo = mine]
    BY <1>14 DEF Migrate
  <2>2. q \in Job /\ Wf(q) BY <1>j, <2>1 DEF Job, Wf, Pcs
  <2>3. Becomes(j, q) BY <2>1 DEF Becomes
  <2> QED BY <2>2, <2>3, Put DEF Typed, TypeOK, Good
<1>15. CASE AdoptApiKeys(j)
  BY <1>15, <1>g, EndKeeps DEF AdoptApiKeys, AfterKeys, Good
<1>16. CASE Retarget(j) \/ RetargetFails(j)
  <2>1. job[j].todo \subseteq Ids BY <1>j DEF Job
  <2> QED BY <1>16, <2>1, RetargetedKeeps DEF Retarget, RetargetFails
<1>17. CASE Exec(j)
  <2>1. job[j].pc = "exec" /\ (Goto(j, "heal") \/ End(j)) BY <1>17 DEF Exec
  <2> QED BY <2>1, <1>g, <1>j, EndKeeps DEF Wf, Good
<1> QED BY <1>1, <1>2, <1>3, <1>4, <1>5, <1>6, <1>7, <1>8, <1>9, <1>10, <1>11, <1>12,
           <1>13, <1>14, <1>15, <1>16, <1>17 DEF Step

\* The requests and the reaper aside, what TypeOK says.
Stores ==
  /\ reg \in [Ids -> Tenants \cup {None}]
  /\ keys \in [Ids -> SUBSET Tenants]
  /\ adopter \in [Anons -> Users \cup {None}]
  /\ policy \in [Ids -> Tenants \cup {None}]
  /\ grants \in [Ids -> SUBSET Tenants]
  /\ roles \in SUBSET Tenants
  /\ author \in [Ids -> Tenants \cup {None}]
Ghosts ==
  /\ swept \in SUBSET Ids
  /\ odd \in SUBSET {"reuse", "overlap", "straddle"}
  /\ faults \in 0..MaxFaults
Cron == reaper \in [pc : {"off", "registry", "reap"}, todo : SUBSET Tenants,
                    seen : [Tenants -> SUBSET Ids]]

LEMMA GhostsStep ==
  ASSUME Typed, Next
  PROVE  Ghosts'
<1>f. Fault => faults' \in 0..MaxFaults
  BY BoundsAssumption DEF Typed, TypeOK, Fault
<1>o. /\ swept \in SUBSET Ids /\ faults \in 0..MaxFaults
      /\ odd \in SUBSET {"reuse", "overlap", "straddle"}
  BY DEF Typed, TypeOK
<1>1. ASSUME NEW j \in Jobs,
             StartCreate(j) \/ Resolve(j) \/ StartAdopt(j) \/ StartAsk(j) \/ Step(j)
      PROVE  Ghosts'
  <2>j. job[j] \in Job /\ Wf(job[j]) BY DEF Typed, TypeOK
  <2>c. Committed(j) /\ job[j].pc = "tx" =>
          swept' \in SUBSET Ids /\ odd' \in SUBSET {"reuse", "overlap", "straddle"}
    BY <1>o, <2>j DEF Committed, Wf
  <2>1. CASE StartCreate(j) \/ Resolve(j) \/ StartAdopt(j) \/ StartAsk(j)
    BY <2>1, <1>o DEF Ghosts, StartCreate, Resolve, StartAdopt, StartAsk
  <2>2. CASE Gate(j) \/ ProvisionAborts(j) \/ PlanFails(j)
    BY <2>2, <1>o DEF Ghosts, Gate, ProvisionAborts, PlanFails
  <2>3. CASE Provision(j) \/ ProvisionAnswerLost(j)
    BY <2>3, <1>o, <1>f, <2>c DEF Ghosts, Provision, ProvisionAnswerLost
  <2>4. CASE Register(j) \/ RegisterFails(j) \/ RegisterAnswerLost(j)
    BY <2>4, <1>o, <1>f DEF Ghosts, Register, RegisterFails, RegisterAnswerLost
  <2>5. CASE MintPkLive(j) \/ DropSchema(j) \/ Unregister(j) \/ DeleteKeys(j)
    BY <2>5, <1>o DEF Ghosts, MintPkLive, DropSchema, Unregister, DeleteKeys
  <2>6. CASE Bind(j) \/ Migrate(j) \/ AdoptApiKeys(j) \/ Retarget(j) \/ Exec(j) \/ Heal(j)
    BY <2>6, <1>o DEF Ghosts, Bind, Migrate, AdoptApiKeys, Retarget, Exec, Heal
  <2>7. CASE RetargetFails(j) \/ HealFails(j) \/ Break(j)
    BY <2>7, <1>o, <1>f DEF Ghosts, RetargetFails, HealFails, Break
  <2> QED BY <1>1, <2>1, <2>2, <2>3, <2>4, <2>5, <2>6, <2>7 DEF Step
<1>2. CASE Sweep BY <1>2, <1>o DEF Ghosts, Sweep
<1>3. CASE Reap BY <1>3, <1>o DEF Ghosts, Reap, ReadCatalog, ReadRegistry, DropRole, DropRoleFails
<1> QED BY <1>1, <1>2, <1>3 DEF Next

LEMMA StoresStep ==
  ASSUME Typed, Next
  PROVE  Stores'
<1>o. Stores BY DEF Typed, TypeOK, Stores
<1>1. ASSUME NEW j \in Jobs,
             StartCreate(j) \/ Resolve(j) \/ StartAdopt(j) \/ StartAsk(j) \/ Step(j)
      PROVE  Stores'
  <2>j. job[j] \in Job /\ Wf(job[j]) BY DEF Typed, TypeOK
  <2>r. ASSUME NEW d \in Ids, NEW t \in Tenants, RetargetAcl(d, t), UNCHANGED <<d1, author>>
        PROVE  Stores'
    BY <1>o, <2>r DEF Stores, RetargetAcl, d1
  <2>1. CASE StartCreate(j) \/ Resolve(j) \/ StartAdopt(j) \/ StartAsk(j)
    BY <2>1, <1>o DEF Stores, StartCreate, Resolve, StartAdopt, StartAsk, d1, pg
  <2>2. CASE Gate(j) \/ ProvisionAborts(j) \/ PlanFails(j)
    BY <2>2, <1>o DEF Stores, Gate, ProvisionAborts, PlanFails, d1, pg
  <2>3. CASE Provision(j) \/ ProvisionAnswerLost(j)
    <3>1. Committed(j) /\ UNCHANGED d1 /\ job[j].pc = "tx"
      BY <2>3 DEF Provision, ProvisionAnswerLost
    <3> QED BY <3>1, <1>o, <2>j DEF Stores, Committed, d1, Wf
  <2>4. CASE Register(j) \/ RegisterFails(j) \/ RegisterAnswerLost(j)
    BY <2>4, <1>o, <2>j DEF Stores, Register, RegisterFails, RegisterAnswerLost, d1, pg, Wf
  <2>5. CASE MintPkLive(j) \/ DeleteKeys(j)
    BY <2>5, <1>o, <2>j DEF Stores, MintPkLive, DeleteKeys, d1, pg, Wf
  <2>6. CASE DropSchema(j)
    BY <2>6, <1>o, <2>j DEF Stores, DropSchema, d1, pg, Wf
  <2>7. CASE Unregister(j)
    BY <2>7, <1>o, <2>j DEF Stores, Unregister, d1, pg, Wf
  <2>8. CASE Bind(j) BY <2>8, <1>o, <2>j DEF Stores, Bind, d1, pg, Wf
  <2>9. CASE Migrate(j)
    <3>1. job[j].by \in Tenants BY <2>9, <2>j DEF Migrate, Wf, Tenants
    <3> QED BY <2>9, <3>1, <1>o DEF Stores, Migrate, pg
  <2>10. CASE AdoptApiKeys(j)
    <3>1. job[j].by \in Tenants BY <2>10, <2>j DEF AdoptApiKeys, Wf, Tenants
    <3> QED BY <2>10, <3>1, <1>o DEF Stores, AdoptApiKeys, pg
  <2>11. CASE Retarget(j)
    <3>1. job[j].by \in Tenants /\ job[j].todo \subseteq Ids
      BY <2>11, <2>j DEF Retarget, Wf, Job, Tenants
    <3> QED BY <2>11, <3>1, <2>r DEF Retarget
  <2>12. CASE Heal(j)
    <3>1. job[j].by \in Tenants /\ job[j].db \in Ids BY <2>12, <2>j DEF Heal, Wf
    <3> QED BY <2>12, <3>1, <2>r DEF Heal
  <2>13. CASE RetargetFails(j) \/ Exec(j) \/ HealFails(j) \/ Break(j)
    BY <2>13, <1>o DEF Stores, RetargetFails, Exec, HealFails, Break, d1, pg
  <2> QED BY <1>1, <2>1, <2>2, <2>3, <2>4, <2>5, <2>6, <2>7, <2>8, <2>9, <2>10, <2>11, <2>12,
             <2>13 DEF Step
<1>2. CASE Sweep BY <1>2, <1>o DEF Stores, Sweep, pg
<1>3. CASE Reap
  BY <1>3, <1>o DEF Stores, Reap, ReadCatalog, ReadRegistry, DropRole, DropRoleFails, d1, pg
<1> QED BY <1>1, <1>2, <1>3 DEF Next

LEMMA CronStep ==
  ASSUME Typed, Next
  PROVE  Cron'
<1>o. Cron /\ roles \in SUBSET Tenants BY DEF Typed, TypeOK, Cron
<1>1. ASSUME NEW j \in Jobs,
             StartCreate(j) \/ Resolve(j) \/ StartAdopt(j) \/ StartAsk(j) \/ Step(j)
      PROVE  UNCHANGED reaper
  BY <1>1 DEF StartCreate, Resolve, StartAdopt, StartAsk, Step, Gate, Provision, ProvisionAborts,
     PlanFails, ProvisionAnswerLost, Register, RegisterFails, RegisterAnswerLost, MintPkLive,
     DropSchema, Unregister, DeleteKeys, Bind, Migrate, AdoptApiKeys, Retarget, RetargetFails,
     Exec, Heal, HealFails, Break
<1>2. NoReap \in [pc : {"off", "registry", "reap"}, todo : SUBSET Tenants,
                  seen : [Tenants -> SUBSET Ids]]
  BY DEF NoReap
<1>3. CASE ReadCatalog BY <1>3, <1>o DEF Cron, ReadCatalog
<1>4. CASE ReadRegistry BY <1>4, <1>o, <1>2 DEF Cron, ReadRegistry
<1>5. ASSUME NEW t \in Tenants, DropRole(t) \/ DropRoleFails(t) PROVE Cron'
  <2>1. Reaped(t) BY <1>5 DEF DropRole, DropRoleFails
  <2> QED BY <2>1, <1>o, <1>2 DEF Cron, Reaped
<1> QED BY <1>o, <1>1, <1>3, <1>4, <1>5 DEF Next, Sweep, Reap, Cron

LEMMA TypeStep ==
  ASSUME Typed, [Next]_vars
  PROVE  Typed'
<1>1. CASE Next
  <2>1. Good
    <3>1. CASE \E j \in Jobs :
                 StartCreate(j) \/ Resolve(j) \/ StartAdopt(j) \/ StartAsk(j) \/ Step(j)
      BY <3>1, JobsStep
    <3>2. CASE UNCHANGED job BY <3>2 DEF Good, Typed, TypeOK
    <3> QED BY <1>1, <3>1, <3>2 DEF Next, Sweep, Reap, ReadCatalog, ReadRegistry, DropRole,
            DropRoleFails
  <2> QED BY <1>1, <2>1, StoresStep, GhostsStep, CronStep DEF Typed, TypeOK, Good, Stores, Ghosts, Cron
<1>2. CASE UNCHANGED vars BY <1>2 DEF vars, d1, pg, Typed, TypeOK, Job
<1> QED BY <1>1, <1>2

LEMMA TypeInit == Init => Typed
<1> SUFFICES ASSUME Init PROVE Typed OBVIOUS
<1>1. Fresh("idle") \in Job /\ Wf(Fresh("idle")) BY FreshIsJob
<1>2. job \in [Jobs -> Job] /\ \A i \in Jobs : Wf(job[i])
  <2>1. job = [j \in Jobs |-> Fresh("idle")] BY DEF Init
  <2> QED BY <1>1, <2>1
<1>3. \A d \in Ids : reg[d] \in Tenants \cup {None} BY DEF Init
<1>4. keys \in [Ids -> SUBSET Tenants] /\ grants \in [Ids -> SUBSET Tenants] BY <1>3 DEF Init
<1>5. roles \in SUBSET Tenants BY <1>3 DEF Init
<1>6. faults \in 0..MaxFaults BY BoundsAssumption DEF Init
<1> QED BY <1>2, <1>4, <1>5, <1>6 DEF Init, Typed, TypeOK, NoReap

\* The variables keep their types, whatever interleaves or fails.
THEOREM LifecycleTypeCorrect == Spec => []TypeOK
<1>1. Typed => TypeOK BY DEF Typed
<1> QED BY TypeInit, TypeStep, <1>1, PTL DEF Spec

\* A request past the binding acts for the user the token is bound to.
Bound == \A i \in Jobs :
  job[i].pc \in {"migrate", "rekey", "retarget"} => adopter[job[i].db] = job[i].by

AdopterKept == \A a \in Anons : adopter[a] # None => adopter'[a] = adopter[a]
\* What the requests that go on were already at, here for Bound.
BoundKept == \A i \in Jobs :
  job'[i].pc \in {"migrate", "rekey", "retarget"} =>
    /\ job[i].pc \in {"migrate", "rekey", "retarget"}
    /\ job'[i].by = job[i].by /\ job'[i].db = job[i].db

LEMMA BoundFrame ==
  ASSUME Typed, Bound, AdopterKept, BoundKept
  PROVE  Bound'
<1> SUFFICES ASSUME NEW i \in Jobs, job'[i].pc \in {"migrate", "rekey", "retarget"}
             PROVE  adopter'[job'[i].db] = job'[i].by
  BY DEF Bound
<1>1. /\ job[i].pc \in {"migrate", "rekey", "retarget"}
      /\ job'[i].by = job[i].by /\ job'[i].db = job[i].db
  BY DEF BoundKept
<1>2. job[i].by \in Users /\ job[i].db \in Anons BY <1>1 DEF Typed, Wf
<1>3. job[i].by # None BY <1>2, TenantsAssumption
<1>4. adopter[job[i].db] = job[i].by BY <1>1 DEF Bound
<1> QED BY <1>1, <1>2, <1>3, <1>4 DEF AdopterKept

\* What may be read off a step that ends a request or sends it on.
LEMMA OneMoves ==
  ASSUME Typed, NEW j \in Jobs, NEW q, Becomes(j, q), NEW i \in Jobs
  PROVE  job'[i] = IF i = j THEN q ELSE job[i]
  BY DEF Typed, TypeOK, Becomes

LEMMA BoundStep ==
  ASSUME Typed, Bound, [Next]_vars
  PROVE  Bound'
<1>e. ASSUME NEW j \in Jobs, End(j) PROVE BoundKept
  BY <1>e, OneMoves DEF End, Becomes, BoundKept, Fresh
<1>g. ASSUME NEW j \in Jobs, NEW l \in Pcs, Goto(j, l),
             l \in {"migrate", "rekey", "retarget"} => job[j].pc \in {"migrate", "rekey", "retarget"}
      PROVE  BoundKept
  <2> DEFINE q == [job[j] EXCEPT !.pc = l]
  <2>1. Becomes(j, q) /\ q.pc = l /\ q.by = job[j].by /\ q.db = job[j].db BY <1>g, Moves
  <2> HIDE DEF q
  <2> QED BY <2>1, <1>g, OneMoves DEF BoundKept
<1>s. ASSUME NEW j \in Jobs, NEW l, l \notin {"migrate", "rekey", "retarget"}, NEW does, NEW t,
             NEW d, Start(j, l, does, t, d)
      PROVE  BoundKept
  <2> DEFINE q == [Fresh(l) EXCEPT !.does = does, !.by = t, !.db = d]
  <2>1. Becomes(j, q) BY <1>s DEF Start, Becomes
  <2>2. q.pc = l BY DEF Fresh
  <2> HIDE DEF q
  <2> QED BY <2>1, <2>2, <1>s, OneMoves DEF BoundKept
<1>c. ASSUME NEW j \in Jobs, Clash(j) PROVE BoundKept
  <2>1. CASE End(j) BY <2>1, <1>e
  <2>2. CASE ~End(j)
    <3>1. PICK d \in Ids :
            job' = [job EXCEPT ![j].pc = "gate", ![j].db = d, ![j].tries = @ + 1,
                               ![j].aim = IF job[j].preset THEN d ELSE @]
      BY <1>c, <2>2 DEF Clash
    <3>2. \A i \in Jobs : i # j => job'[i] = job[i] BY <3>1 DEF Typed, TypeOK
    <3>3. job'[j].pc = "gate" BY <3>1 DEF Typed, TypeOK, Job
    <3> QED BY <3>2, <3>3 DEF BoundKept
  <2> QED BY <2>1, <2>2
<1>r. ASSUME NEW j \in Jobs, NEW d, Retargeted(j, d), job[j].pc = "retarget" PROVE BoundKept
  <2>1. CASE End(j) BY <2>1, <1>e
  <2>2. CASE ~End(j)
    <3> DEFINE q == [job[j] EXCEPT !.todo = job[j].todo \ {d}]
    <3>1. job[j] \in Job BY DEF Typed, TypeOK
    <3>2. Becomes(j, q) BY <1>r, <2>2 DEF Retargeted, Becomes
    <3>3. q.pc = job[j].pc /\ q.by = job[j].by /\ q.db = job[j].db BY <3>1 DEF Job
    <3> HIDE DEF q
    <3> QED BY <1>r, <3>2, <3>3, OneMoves DEF BoundKept
  <2> QED BY <2>1, <2>2
<1>1. ASSUME NEW j \in Jobs,
             StartCreate(j) \/ Resolve(j) \/ StartAdopt(j) \/ StartAsk(j)
      PROVE  Bound'
  <2>1. AdopterKept
    BY <1>1 DEF AdopterKept, StartCreate, Resolve, StartAdopt, StartAsk, d1
  <2>2. CASE StartCreate(j)
    <3>1. PICK t \in Tenants, d \in Ids, preset \in BOOLEAN, seeds \in BOOLEAN :
            job' = [job EXCEPT ![j] = NewCreate(t, d, preset, seeds)]
      BY <2>2, Zenon DEF StartCreate
    <3>2. NewCreate(t, d, preset, seeds).pc = "gate" BY DEF NewCreate, Fresh
    <3>3. BoundKept BY <3>1, <3>2, OneMoves DEF Becomes, BoundKept
    <3> QED BY <2>1, <3>3, BoundFrame
  <2>3. CASE Resolve(j) \/ StartAdopt(j) \/ StartAsk(j)
    <3>1. BoundKept BY <2>3, <1>s DEF Resolve, StartAdopt, StartAsk
    <3> QED BY <2>1, <3>1, BoundFrame
  <2> QED BY <1>1, <2>2, <2>3
<1>2. ASSUME NEW j \in Jobs, Step(j), ~Bind(j) PROVE Bound'
  <2>1. AdopterKept
    BY <1>2 DEF AdopterKept, Step, Gate, Provision, ProvisionAborts, PlanFails,
       ProvisionAnswerLost, Register, RegisterFails, RegisterAnswerLost, MintPkLive, DropSchema,
       Unregister, DeleteKeys, Migrate, AdoptApiKeys, Retarget, RetargetFails, Exec, Heal,
       HealFails, Break, d1
  <2>2. CASE Gate(j) \/ ProvisionAborts(j)
    <3>1. "tx" \in Pcs BY DEF Pcs
    <3> QED BY <2>1, <2>2, <3>1, <1>c, <1>e, <1>g, BoundFrame DEF Gate, ProvisionAborts
  <2>3. CASE PlanFails(j)
    <3>1. CASE End(j) BY <2>1, <3>1, <1>e, BoundFrame
    <3>2. CASE ~End(j)
      <4>1. job' = [job EXCEPT ![j].pc = "gate", ![j].seeds = FALSE, ![j].tries = @ + 1]
        BY <2>3, <3>2 DEF PlanFails
      <4>2. \A i \in Jobs : i # j => job'[i] = job[i] BY <4>1 DEF Typed, TypeOK
      <4>3. job'[j].pc = "gate" BY <4>1 DEF Typed, TypeOK, Job
      <4>4. BoundKept BY <4>2, <4>3 DEF BoundKept
      <4> QED BY <2>1, <4>4, BoundFrame
    <3> QED BY <3>1, <3>2
  <2>4. CASE \/ Provision(j) \/ Register(j) \/ RegisterFails(j) \/ RegisterAnswerLost(j)
             \/ DropSchema(j) \/ Unregister(j) \/ Exec(j)
    <3>1. {"register", "key", "drop", "unregister", "unkey", "heal"} \subseteq Pcs BY DEF Pcs
    <3>2. End(j) \/ \E l \in {"register", "key", "drop", "unregister", "unkey", "heal"} : Goto(j, l)
      BY <2>4 DEF Provision, Register, RegisterFails, RegisterAnswerLost, DropSchema, Unregister,
         Exec
    <3> QED BY <2>1, <3>1, <3>2, <1>e, <1>g, BoundFrame
  <2>5. CASE \/ ProvisionAnswerLost(j) \/ MintPkLive(j) \/ DeleteKeys(j) \/ Heal(j) \/ HealFails(j)
             \/ Break(j)
    BY <2>1, <2>5, <1>e, BoundFrame
       DEF ProvisionAnswerLost, MintPkLive, DeleteKeys, Heal, HealFails, Break
  <2>6. CASE Migrate(j)
    <3> DEFINE mine == {d \in Ids : reg[d] = job[j].db}
               q == [job[j] EXCEPT !.pc = "rekey", !.todo = mine]
    <3>1. job[j] \in Job /\ job[j].pc = "migrate" /\ Becomes(j, q)
      BY <2>6 DEF Migrate, Becomes, Typed, TypeOK
    <3>2. q.by = job[j].by /\ q.db = job[j].db BY <3>1 DEF Job
    <3> HIDE DEF q
    <3>3. BoundKept BY <3>1, <3>2, OneMoves DEF BoundKept
    <3> QED BY <2>1, <3>3, BoundFrame
  <2>7. CASE AdoptApiKeys(j)
    <3>1. "retarget" \in Pcs BY DEF Pcs
    <3> QED BY <2>1, <2>7, <3>1, <1>e, <1>g, BoundFrame DEF AdoptApiKeys, AfterKeys
  <2>8. CASE Retarget(j) \/ RetargetFails(j)
    BY <2>1, <2>8, <1>r, BoundFrame DEF Retarget, RetargetFails
  <2> QED BY <1>2, <2>2, <2>3, <2>4, <2>5, <2>6, <2>7, <2>8 DEF Step
<1>3. ASSUME NEW j \in Jobs, Bind(j) PROVE Bound'
  <2>1. job[j].pc = "bind" /\ job[j].by \in Users /\ job[j].db \in Anons
    BY <1>3 DEF Bind, Typed, Wf
  <2>2. adopter' = [adopter EXCEPT ![job[j].db] = IF @ = None THEN job[j].by ELSE @]
    BY <1>3 DEF Bind
  <2>3. AdopterKept BY <2>1, <2>2 DEF AdopterKept, Typed, TypeOK
  <2>4. CASE End(j) BY <2>3, <2>4, <1>e, BoundFrame
  <2>5. CASE ~End(j)
    <3>1. Goto(j, "migrate") /\ adopter'[job[j].db] = job[j].by BY <1>3, <2>5 DEF Bind
    <3>2. "migrate" \in Pcs BY DEF Pcs
    <3> DEFINE q == [job[j] EXCEPT !.pc = "migrate"]
    <3>3. Becomes(j, q) /\ q.by = job[j].by /\ q.db = job[j].db BY <3>1, <3>2, Moves
    <3> HIDE DEF q
    <3>4. job'[j].by = job[j].by /\ job'[j].db = job[j].db BY <3>3, OneMoves
    <3>5. ASSUME NEW i \in Jobs, i # j, job'[i].pc \in {"migrate", "rekey", "retarget"}
          PROVE  adopter'[job'[i].db] = job'[i].by
      <4>1. job'[i] = job[i] BY <3>3, <3>5, OneMoves
      <4>2. job[i].by \in Users /\ job[i].db \in Anons BY <3>5, <4>1 DEF Typed, Wf
      <4>3. adopter[job[i].db] = job[i].by BY <3>5, <4>1 DEF Bound
      <4>4. job[i].by # None BY <4>2, TenantsAssumption
      <4> QED BY <4>1, <4>2, <4>3, <4>4, <2>3 DEF AdopterKept
    <3> QED BY <3>1, <3>4, <3>5 DEF Bound
  <2> QED BY <2>4, <2>5
<1>4. CASE UNCHANGED <<adopter, job>> BY <1>4 DEF Bound
<1>5. Sweep \/ Reap \/ UNCHANGED vars => UNCHANGED <<adopter, job>>
  BY DEF Sweep, Reap, ReadCatalog, ReadRegistry, DropRole, DropRoleFails, vars, d1
<1> QED BY <1>1, <1>2, <1>3, <1>4, <1>5 DEF Next

\* The registry entry a row and a schema make together.
Owner == [d \in Ids |-> IF policy[d] = None THEN None ELSE reg[d]]
OwnStep == [Own!Next]_<<Owner, adopter>>

LEMMA OwnStutters ==
  ASSUME UNCHANGED <<reg, policy, adopter>>
  PROVE  OwnStep
  BY DEF OwnStep, Owner

\* One database appears, disappears or stays as it is.
LEMMA OwnOne ==
  ASSUME Typed, Typed', UNCHANGED adopter, NEW d \in Ids,
         Owner[d] = None \/ Owner'[d] = None,
         \A e \in Ids \ {d} : reg'[e] = reg[e] /\ policy'[e] = policy[e]
  PROVE  OwnStep
<1> DEFINE x == Owner
           y == Owner'
<1>1. x \in [Ids -> Tenants \cup {None}] /\ y \in [Ids -> Tenants \cup {None}]
  BY DEF Owner, Typed, TypeOK
<1>2. \A e \in Ids \ {d} : y[e] = x[e] BY DEF Owner
<1>3. y = [x EXCEPT ![d] = y[d]] BY <1>1, <1>2
<1>4. CASE x[d] = y[d]
  <2>1. y = x BY <1>1, <1>3, <1>4
  <2> QED BY <2>1 DEF OwnStep
<1>5. CASE x[d] # y[d] /\ x[d] = None
  <2>1. y[d] \in Own!Tenants BY <1>1, <1>5 DEF Own!Tenants, Tenants
  <2>2. Own!Create(d) BY <1>3, <1>5, <2>1 DEF Own!Create, Owner
  <2> QED BY <2>2 DEF OwnStep, Own!Next
<1>6. CASE x[d] # y[d] /\ y[d] = None
  <2>1. Own!Delete(d) BY <1>3, <1>6 DEF Own!Delete, Owner
  <2> QED BY <2>1 DEF OwnStep, Own!Next
<1> QED BY <1>4, <1>5, <1>6

LEMMA OwnMigrates ==
  ASSUME Typed, Bound, NEW j \in Jobs, Migrate(j)
  PROVE  OwnStep
<1>0. job[j].db \in Anons /\ job[j].by \in Users /\ adopter[job[j].db] = job[j].by
  BY DEF Migrate, Typed, Wf, Bound
<1>1. PICK a \in Anons, u \in Users : a = job[j].db /\ u = job[j].by BY <1>0
<1>2. /\ reg' = [d \in Ids |-> IF reg[d] = a THEN u ELSE reg[d]]
      /\ UNCHANGED <<adopter, policy>>
  BY <1>1 DEF Migrate, pg
<1>3. u # None /\ a # None /\ adopter[a] = u BY <1>0, <1>1, TenantsAssumption
<1>4. Owner' = [d \in Ids |-> IF Owner[d] = a THEN adopter[a] ELSE Owner[d]]
  BY <1>2, <1>3 DEF Owner
<1>5. Own!Adopt(a) BY <1>2, <1>3, <1>4 DEF Own!Adopt, Owner
<1> QED BY <1>5 DEF OwnStep, Own!Next

LEMMA OwnSweeps ==
  ASSUME Typed, Sweep
  PROVE  OwnStep
<1>1. PICK S \in SUBSET {d \in Ids : reg[d] \in Anons} :
        reg' = [d \in Ids |-> IF d \in S THEN None ELSE reg[d]]
  BY DEF Sweep
<1>2. UNCHANGED <<adopter, policy>> BY DEF Sweep, pg
<1> DEFINE T == {d \in S : policy[d] # None}
<1>3. T \in SUBSET {d \in Ids : Owner[d] \in Anons} BY <1>1 DEF Owner
<1>4. Owner' = [d \in Ids |-> IF d \in T THEN None ELSE Owner[d]] BY <1>1, <1>2 DEF Owner
<1>5. Own!Evict BY <1>2, <1>3, <1>4 DEF Own!Evict, Owner
<1> QED BY <1>5 DEF OwnStep, Own!Next

LEMMA OwnBinds ==
  ASSUME Typed, NEW j \in Jobs, Bind(j)
  PROVE  OwnStep
<1> DEFINE a == job[j].db
           u == job[j].by
<1>1. a \in Anons /\ u \in Users BY DEF Bind, Typed, Wf
<1>2. /\ adopter' = [adopter EXCEPT ![a] = IF @ = None THEN u ELSE @]
      /\ UNCHANGED <<reg, policy>>
  BY DEF Bind, pg
<1> HIDE DEF a, u
<1>3. UNCHANGED Owner BY <1>2 DEF Owner
<1>4. CASE adopter[a] = None
  <2>1. Own!Bind(a) BY <1>1, <1>2, <1>3, <1>4 DEF Own!Bind, Owner
  <2> QED BY <1>1, <2>1 DEF OwnStep, Own!Next
<1>5. CASE adopter[a] # None
  <2>1. UNCHANGED adopter BY <1>1, <1>2, <1>5 DEF Typed, TypeOK
  <2> QED BY <1>3, <2>1 DEF OwnStep
<1> QED BY <1>4, <1>5

\* Re-pointing the policies of a schema that is there changes no entry.
LEMMA OwnRetargets ==
  ASSUME Typed, Typed', NEW d \in Ids, NEW t \in Tenants, RetargetAcl(d, t), UNCHANGED d1
  PROVE  OwnStep
<1>1. policy[d] # None /\ policy' = [policy EXCEPT ![d] = t] /\ UNCHANGED <<reg, adopter>>
  BY DEF RetargetAcl, d1
<1>2. t # None BY TenantsAssumption DEF Tenants
<1>3. UNCHANGED Owner BY <1>1, <1>2 DEF Owner, Typed, TypeOK
<1> QED BY <1>1, <1>3 DEF OwnStep

LEMMA OwnNext ==
  ASSUME Typed, Typed', Bound, [Next]_vars
  PROVE  OwnStep
<1>1. ASSUME NEW j \in Jobs, Step(j) PROVE OwnStep
  <2>j. job[j] \in Job /\ Wf(job[j]) BY DEF Typed, TypeOK
  <2>1. CASE Provision(j) \/ ProvisionAnswerLost(j)
    <3>1. /\ Committed(j) /\ job[j].pc = "tx" /\ UNCHANGED <<reg, adopter>>
      BY <2>1 DEF Provision, ProvisionAnswerLost, d1
    <3>2. job[j].db \in Ids BY <3>1, <2>j DEF Wf
    <3>3. Owner[job[j].db] = None BY <3>1, <3>2 DEF Committed, Owner
    <3>4. \A e \in Ids \ {job[j].db} : reg'[e] = reg[e] /\ policy'[e] = policy[e]
      BY <3>1 DEF Committed, Typed, TypeOK
    <3> QED BY <3>1, <3>2, <3>3, <3>4, OwnOne
  <2>2. CASE Register(j) \/ RegisterAnswerLost(j)
    <3>1. CASE UNCHANGED reg
      BY <2>2, <3>1, OwnStutters DEF Register, RegisterAnswerLost, pg
    <3>2. CASE ~UNCHANGED reg
      <4>1. /\ job[j].pc = "register" /\ reg[job[j].db] = None
            /\ reg' = [reg EXCEPT ![job[j].db] = job[j].by] /\ UNCHANGED <<policy, adopter>>
        BY <2>2, <3>2 DEF Register, RegisterAnswerLost, pg
      <4>2. job[j].db \in Ids BY <4>1, <2>j DEF Wf
      <4>3. Owner[job[j].db] = None BY <4>1, <4>2 DEF Owner
      <4>4. \A e \in Ids \ {job[j].db} : reg'[e] = reg[e] /\ policy'[e] = policy[e]
        BY <4>1 DEF Typed, TypeOK
      <4> QED BY <4>1, <4>2, <4>3, <4>4, OwnOne
    <3> QED BY <3>1, <3>2
  <2>3. CASE DropSchema(j)
    <3>1. /\ job[j].pc = "drop" /\ policy' = [policy EXCEPT ![job[j].db] = None]
          /\ UNCHANGED <<reg, adopter>>
      BY <2>3 DEF DropSchema, d1
    <3>2. job[j].db \in Ids BY <3>1, <2>j DEF Wf
    <3>3. Owner'[job[j].db] = None BY <3>1, <3>2 DEF Owner, Typed, TypeOK
    <3>4. \A e \in Ids \ {job[j].db} : reg'[e] = reg[e] /\ policy'[e] = policy[e]
      BY <3>1 DEF Typed, TypeOK
    <3> QED BY <3>1, <3>2, <3>3, <3>4, OwnOne
  <2>4. CASE Unregister(j)
    <3>1. /\ job[j].pc = "unregister" /\ reg' = [reg EXCEPT ![job[j].db] = None]
          /\ UNCHANGED <<policy, adopter>>
      BY <2>4 DEF Unregister, pg
    <3>2. job[j].db \in Ids BY <3>1, <2>j DEF Wf
    <3>3. Owner'[job[j].db] = None BY <3>1, <3>2 DEF Owner, Typed, TypeOK
    <3>4. \A e \in Ids \ {job[j].db} : reg'[e] = reg[e] /\ policy'[e] = policy[e]
      BY <3>1 DEF Typed, TypeOK
    <3> QED BY <3>1, <3>2, <3>3, <3>4, OwnOne
  <2>5. CASE Retarget(j)
    <3>1. job[j].by \in Tenants /\ job[j].todo \subseteq Ids
      BY <2>5, <2>j DEF Retarget, Wf, Job, Tenants
    <3> QED BY <2>5, <3>1, OwnRetargets DEF Retarget
  <2>6. CASE Heal(j)
    <3>1. job[j].by \in Tenants /\ job[j].db \in Ids BY <2>6, <2>j DEF Heal, Wf
    <3> QED BY <2>6, <3>1, OwnRetargets DEF Heal
  <2>7. CASE Bind(j) BY <2>7, OwnBinds
  <2>8. CASE Migrate(j) BY <2>8, OwnMigrates
  <2>9. CASE \/ Gate(j) \/ ProvisionAborts(j) \/ PlanFails(j) \/ RegisterFails(j) \/ MintPkLive(j)
             \/ DeleteKeys(j) \/ AdoptApiKeys(j) \/ RetargetFails(j) \/ Exec(j) \/ HealFails(j)
             \/ Break(j)
    <3>1. UNCHANGED <<reg, policy, adopter>>
      BY <2>9 DEF Gate, ProvisionAborts, PlanFails, RegisterFails, MintPkLive, DeleteKeys,
         AdoptApiKeys, RetargetFails, Exec, HealFails, Break, d1, pg
    <3> QED BY <3>1, OwnStutters
  <2> QED BY <1>1, <2>1, <2>2, <2>3, <2>4, <2>5, <2>6, <2>7, <2>8, <2>9 DEF Step
<1>2. ASSUME NEW j \in Jobs, StartCreate(j) \/ Resolve(j) \/ StartAdopt(j) \/ StartAsk(j)
      PROVE  OwnStep
  <2>1. UNCHANGED <<reg, policy, adopter>>
    BY <1>2 DEF StartCreate, Resolve, StartAdopt, StartAsk, d1, pg
  <2> QED BY <2>1, OwnStutters
<1>3. CASE Sweep BY <1>3, OwnSweeps
<1>4. CASE Reap \/ UNCHANGED vars
  <2>1. UNCHANGED <<reg, policy, adopter>>
    BY <1>4 DEF Reap, ReadCatalog, ReadRegistry, DropRole, DropRoleFails, vars, d1, pg
  <2> QED BY <2>1, OwnStutters
<1> QED BY <1>1, <1>2, <1>3, <1>4 DEF Next

LEMMA OwnInit == Init => Own!Init
<1> SUFFICES ASSUME Init PROVE Own!Init OBVIOUS
<1>1. policy = reg /\ reg \in [Ids -> Tenants \cup {None}] BY DEF Init
<1> QED BY <1>1 DEF Init, Own!Init, Own!Tenants, Tenants

\* Row and schema, written one after the other by requests that interleave and
\* fail, are together one entry of a registry with atomic operations.
THEOREM RowAndSchemaAreOne == Spec => ImplementsOwnership
<1>1. Init => Bound
  BY DEF Init, Bound, Fresh
<1>2. OwnStep => [Own!Next]_<<[d \in Ids |-> IF policy[d] = None THEN None ELSE reg[d]], adopter>>
  BY DEF OwnStep, Owner
<1> QED BY TypeInit, TypeStep, <1>1, BoundStep, OwnInit, OwnNext, <1>2, PTL
       DEF Spec, ImplementsOwnership, Own!Spec

\* Tenant t is the one the schema of d was made for, or the first to adopt it.
Heir(d, t) == author[d] = t \/ (author[d] \in Anons /\ adopter[author[d]] = t)

\* Request i will make its tenant the owner of d, or the one its policies name.
Holds(i, d) ==
  \/ job[i].pc \in {"register", "exec", "heal"} /\ job[i].db = d
  \/ d \in job[i].todo

\* Why ReadersAreHeirs holds: all that can ever be put into the two stores for a
\* database names an heir, unless the id was reused.
Heirs ==
  "reuse" \notin odd => \A d \in Ids : policy[d] # None =>
    /\ reg[d] # None => Heir(d, reg[d])
    /\ \A i \in Jobs : Holds(i, d) => Heir(d, job[i].by)

OddKept == "reuse" \in odd => "reuse" \in odd'
\* A schema that is there after a step was there before it, made for the same tenant.
SchemaKept == \A d \in Ids : policy'[d] # None => policy[d] # None /\ author'[d] = author[d]
RegKept == \A d \in Ids : reg'[d] # None =>
  reg'[d] = reg[d] \/ \E i \in Jobs : Holds(i, d) /\ reg'[d] = job[i].by
HoldKept == \A i \in Jobs, d \in Ids : Holds(i, d)' =>
  \/ Holds(i, d) /\ job'[i].by = job[i].by
  \/ reg[d] # None /\ job'[i].by = reg[d]

\* Where nobody has made a schema or adopted the rows, the heirs stay the heirs.
LEMMA HeirsFrame ==
  ASSUME Typed, Typed', Heirs, OddKept, AdopterKept, SchemaKept, RegKept, HoldKept
  PROVE  Heirs'
<1> SUFFICES ASSUME "reuse" \notin odd', NEW d \in Ids, policy'[d] # None
             PROVE  /\ reg'[d] # None => Heir(d, reg[d])'
                    /\ \A i \in Jobs : Holds(i, d)' => Heir(d, job[i].by)'
  BY DEF Heirs
<1>1. "reuse" \notin odd /\ policy[d] # None /\ author'[d] = author[d] BY DEF OddKept, SchemaKept
<1>2. /\ reg[d] # None => Heir(d, reg[d])
      /\ \A i \in Jobs : Holds(i, d) => Heir(d, job[i].by)
  BY <1>1 DEF Heirs
<1>3. ASSUME NEW t, t # None, Heir(d, t) PROVE author'[d] = t \/ (author'[d] \in Anons /\ adopter'[author'[d]] = t)
  BY <1>1, <1>3 DEF Heir, AdopterKept
<1>4. ASSUME NEW i \in Jobs, Holds(i, d) PROVE job[i].by # None
  <2>1. job[i].by \in Tenants BY <1>4 DEF Holds, Typed, Wf, Tenants
  <2> QED BY <2>1, TenantsAssumption DEF Tenants
<1>5. reg'[d] # None => Heir(d, reg[d])'
  BY <1>2, <1>3, <1>4 DEF RegKept, Heir
<1>6. ASSUME NEW i \in Jobs, Holds(i, d)' PROVE Heir(d, job[i].by)'
  BY <1>6, <1>2, <1>3, <1>4 DEF HoldKept, Heir
<1> QED BY <1>5, <1>6

\* A step that ends a request or sends it on takes up no database.
LEMMA EndHolds ==
  ASSUME Typed, NEW j \in Jobs, End(j)
  PROVE  HoldKept
<1>1. \A i \in Jobs : i # j => job'[i] = job[i] BY DEF End, Typed, TypeOK
<1>2. job'[j].pc = "ended" /\ job'[j].todo = {} BY DEF End, Fresh, Typed, TypeOK
<1> QED BY <1>1, <1>2 DEF HoldKept, Holds

LEMMA GotoHolds ==
  ASSUME Typed, NEW j \in Jobs, NEW l \in Pcs, Goto(j, l),
         l \in {"register", "exec", "heal"} => job[j].pc \in {"register", "exec", "heal"}
  PROVE  HoldKept
<1> DEFINE q == [job[j] EXCEPT !.pc = l]
<1>1. /\ Becomes(j, q) /\ q.pc = l /\ q.by = job[j].by /\ q.db = job[j].db
      /\ q.todo = job[j].todo
  BY Moves
<1> HIDE DEF q
<1>2. \A i \in Jobs : job'[i] = IF i = j THEN q ELSE job[i] BY <1>1, OneMoves
<1> QED BY <1>1, <1>2 DEF HoldKept, Holds

LEMMA StartHolds ==
  ASSUME Typed, NEW j \in Jobs, NEW l, NEW does, NEW t, NEW e, Start(j, l, does, t, e),
         l = "exec" => reg[e] # None /\ t = reg[e], l \notin {"register", "heal"}
  PROVE  HoldKept
<1> DEFINE q == [Fresh(l) EXCEPT !.does = does, !.by = t, !.db = e]
<1>1. Becomes(j, q) BY DEF Start, Becomes
<1>2. q.pc = l /\ q.by = t /\ q.db = e /\ q.todo = {} BY DEF Fresh
<1> HIDE DEF q
<1>3. \A i \in Jobs : job'[i] = IF i = j THEN q ELSE job[i] BY <1>1, OneMoves
<1> QED BY <1>2, <1>3 DEF HoldKept, Holds

LEMMA ClashHolds ==
  ASSUME Typed, NEW j \in Jobs, Clash(j), job[j].pc \in {"gate", "tx"}
  PROVE  HoldKept
<1>1. CASE End(j) BY <1>1, EndHolds
<1>2. CASE ~End(j)
  <2>1. PICK d \in Ids :
          job' = [job EXCEPT ![j].pc = "gate", ![j].db = d, ![j].tries = @ + 1,
                             ![j].aim = IF job[j].preset THEN d ELSE @]
    BY <1>2 DEF Clash
  <2>2. \A i \in Jobs : i # j => job'[i] = job[i] BY <2>1 DEF Typed, TypeOK
  <2>3. job'[j].pc = "gate" /\ job'[j].todo = job[j].todo BY <2>1 DEF Typed, TypeOK, Job
  <2>4. job[j].todo = {} BY DEF Typed, Wf
  <2> QED BY <2>2, <2>3, <2>4 DEF HoldKept, Holds
<1> QED BY <1>1, <1>2

LEMMA RetargetedHolds ==
  ASSUME Typed, NEW j \in Jobs, job[j].pc = "retarget", NEW e, Retargeted(j, e)
  PROVE  HoldKept
<1>1. CASE End(j) BY <1>1, EndHolds
<1>2. CASE ~End(j)
  <2> DEFINE q == [job[j] EXCEPT !.todo = job[j].todo \ {e}]
  <2>1. Becomes(j, q) BY <1>2 DEF Retargeted, Becomes
  <2>2. job[j] \in Job BY DEF Typed, TypeOK
  <2>3. q.pc = job[j].pc /\ q.by = job[j].by /\ q.todo \subseteq job[j].todo BY <2>2 DEF Job
  <2> HIDE DEF q
  <2>4. \A i \in Jobs : job'[i] = IF i = j THEN q ELSE job[i] BY <2>1, OneMoves
  <2> QED BY <2>3, <2>4 DEF HoldKept, Holds
<1> QED BY <1>1, <1>2

LEMMA RetargetSchemas ==
  ASSUME Typed, NEW d \in Ids, NEW t, RetargetAcl(d, t), UNCHANGED author
  PROVE  SchemaKept
  BY DEF RetargetAcl, SchemaKept, Typed, TypeOK

\* The new schema is its author's, and nobody has a claim to it from before.
LEMMA HeirsCommit ==
  ASSUME Typed, Typed', Heirs, NEW j \in Jobs, job[j].pc = "tx", Committed(j), UNCHANGED d1,
         \A i \in Jobs : i # j => job'[i] = job[i],
         job'[j].todo = {}, job'[j].pc = "register" => job'[j].by = job[j].by /\ job'[j].db = job[j].db,
         job'[j].pc \notin {"exec", "heal"}
  PROVE  Heirs'
<1> SUFFICES ASSUME "reuse" \notin odd', NEW d \in Ids, policy'[d] # None
             PROVE  /\ reg'[d] # None => Heir(d, reg[d])'
                    /\ \A i \in Jobs : Holds(i, d)' => Heir(d, job[i].by)'
  BY DEF Heirs
<1>1. job[j].db \in Ids BY DEF Typed, Wf
<1>2. "reuse" \notin odd /\ ~Reused(job[j].db) BY DEF Committed
<1>3. UNCHANGED <<reg, adopter>> BY DEF d1
<1>4. CASE d = job[j].db
  <2>1. author'[d] = job[j].by BY <1>1, <1>4 DEF Committed, Typed, TypeOK
  <2>2. reg'[d] = None BY <1>2, <1>3, <1>4 DEF Reused
  <2>3. ASSUME NEW i \in Jobs, i # j PROVE ~Holds(i, d)'
    <3>1. job'[i] = job[i] BY <2>3
    <3>2. ASSUME Holds(i, d) PROVE Active(i) /\ job[i].pc \notin {"gate", "tx"}
      BY <3>2 DEF Holds, Active, Typed, Wf
    <3> QED BY <1>2, <1>4, <3>1, <3>2 DEF Reused, Holds
  <2> QED BY <2>1, <2>2, <2>3 DEF Heir, Holds
<1>5. CASE d # job[j].db
  <2>1. policy[d] # None /\ author'[d] = author[d] BY <1>1, <1>5 DEF Committed, Typed, TypeOK
  <2>2. /\ reg[d] # None => Heir(d, reg[d])
        /\ \A i \in Jobs : Holds(i, d) => Heir(d, job[i].by)
    BY <1>2, <2>1 DEF Heirs
  <2>3. ~Holds(j, d)' BY <1>5 DEF Holds
  <2>4. \A i \in Jobs : Holds(i, d)' => Holds(i, d) /\ job'[i].by = job[i].by BY <2>3 DEF Holds
  <2> QED BY <1>3, <2>1, <2>2, <2>4 DEF Heir
<1> QED BY <1>4, <1>5

\* The rows of a token go to the user it is bound to, who is an heir wherever the
\* token was.
LEMMA HeirsMigrate ==
  ASSUME Typed, Typed', Bound, Heirs, NEW j \in Jobs, Migrate(j)
  PROVE  Heirs'
<1>0. job[j].db \in Anons /\ job[j].by \in Users /\ adopter[job[j].db] = job[j].by
  BY DEF Migrate, Typed, Wf, Bound
<1>1. PICK a \in Anons, u \in Users : a = job[j].db /\ u = job[j].by BY <1>0
<1> DEFINE mine == {d \in Ids : reg[d] = a}
           q == [job[j] EXCEPT !.pc = "rekey", !.todo = mine]
<1>2. /\ reg' = [d \in Ids |-> IF d \in mine THEN u ELSE reg[d]] /\ Becomes(j, q)
      /\ UNCHANGED <<adopter, policy, author, odd>>
  BY <1>1 DEF Migrate, pg, Becomes, Typed, TypeOK
<1>3. q.pc = "rekey" /\ q.by = u /\ q.todo = mine
  <2>1. job[j] \in Job BY DEF Typed, TypeOK
  <2> QED BY <1>1, <2>1 DEF Job
<1> HIDE DEF q
<1>4. \A i \in Jobs : job'[i] = IF i = j THEN q ELSE job[i] BY <1>2, OneMoves
<1>5. ASSUME "reuse" \notin odd, NEW d \in mine, policy[d] # None
      PROVE  author[d] = a
  <2>1. Heir(d, a)
    <3>1. reg[d] = a /\ d \in Ids /\ a # None BY <1>5, TenantsAssumption
    <3> QED BY <1>5, <3>1 DEF Heirs
  <2>2. \A b \in Anons : adopter[b] # a
    <3>1. \A b \in Anons : adopter[b] \in Users \cup {None} BY DEF Typed, TypeOK
    <3> QED BY <3>1, TenantsAssumption
  <2> QED BY <2>1, <2>2 DEF Heir
<1> SUFFICES ASSUME "reuse" \notin odd', NEW d \in Ids, policy'[d] # None
             PROVE  /\ reg'[d] # None => Heir(d, reg[d])'
                    /\ \A i \in Jobs : Holds(i, d)' => Heir(d, job[i].by)'
  BY DEF Heirs
<1>6. "reuse" \notin odd /\ policy[d] # None /\ author'[d] = author[d] BY <1>2
<1>7. /\ reg[d] # None => Heir(d, reg[d])
      /\ \A i \in Jobs : Holds(i, d) => Heir(d, job[i].by)
  BY <1>6 DEF Heirs
<1>8. d \in mine => author'[d] = a /\ adopter'[a] = u BY <1>0, <1>1, <1>2, <1>5, <1>6
<1>9. reg'[d] # None => Heir(d, reg[d])'
  <2>1. CASE d \in mine BY <2>1, <1>2, <1>8 DEF Heir
  <2>2. CASE d \notin mine BY <2>2, <1>2, <1>7 DEF Heir
  <2> QED BY <2>1, <2>2
<1>10. ASSUME NEW i \in Jobs, Holds(i, d)' PROVE Heir(d, job[i].by)'
  <2>1. CASE i = j
    <3>1. d \in mine BY <1>3, <1>4, <1>10, <2>1 DEF Holds
    <3> QED BY <3>1, <1>3, <1>4, <1>8, <2>1 DEF Heir
  <2>2. CASE i # j
    <3>1. job'[i] = job[i] BY <1>4, <2>2
    <3>2. Holds(i, d) BY <1>10, <3>1 DEF Holds
    <3> QED BY <3>1, <3>2, <1>2, <1>7 DEF Heir
  <2> QED BY <2>1, <2>2
<1> QED BY <1>9, <1>10

LEMMA HeirsStep ==
  ASSUME Typed, Typed', Bound, Heirs, [Next]_vars
  PROVE  Heirs'
<1>1. ASSUME NEW j \in Jobs, StartCreate(j) \/ Resolve(j) \/ StartAdopt(j) \/ StartAsk(j)
      PROVE  Heirs'
  <2>1. AdopterKept /\ SchemaKept /\ RegKept /\ OddKept
    BY <1>1 DEF AdopterKept, SchemaKept, RegKept, OddKept, StartCreate, Resolve, StartAdopt,
       StartAsk, d1, pg
  <2>2. CASE StartCreate(j)
    <3>1. PICK t \in Tenants, d \in Ids, preset \in BOOLEAN, seeds \in BOOLEAN :
            job' = [job EXCEPT ![j] = NewCreate(t, d, preset, seeds)]
      BY <2>2, Zenon DEF StartCreate
    <3> DEFINE q == NewCreate(t, d, preset, seeds)
    <3>2. q.pc = "gate" /\ q.todo = {} BY DEF NewCreate, Fresh
    <3> HIDE DEF q
    <3>3. \A i \in Jobs : job'[i] = IF i = j THEN q ELSE job[i]
      BY <3>1, OneMoves DEF Becomes, q
    <3>4. HoldKept BY <3>2, <3>3 DEF HoldKept, Holds
    <3> QED BY <2>1, <3>4, HeirsFrame
  <2>3. CASE Resolve(j) \/ StartAdopt(j) \/ StartAsk(j)
    <3>1. HoldKept BY <2>3, StartHolds DEF Resolve, StartAdopt, StartAsk
    <3> QED BY <2>1, <3>1, HeirsFrame
  <2> QED BY <1>1, <2>2, <2>3
<1>2. ASSUME NEW j \in Jobs, Step(j) PROVE Heirs'
  <2>j. job[j] \in Job /\ Wf(job[j]) BY DEF Typed, TypeOK
  <2>l. {"tx", "register", "key", "drop", "unregister", "unkey", "migrate", "retarget", "heal"}
          \subseteq Pcs
    BY DEF Pcs
  <2>1. CASE Provision(j)
    <3>1. Committed(j) /\ job[j].pc = "tx" /\ UNCHANGED d1 /\ Goto(j, "register")
      BY <2>1 DEF Provision
    <3> DEFINE q == [job[j] EXCEPT !.pc = "register"]
    <3>2. /\ Becomes(j, q) /\ q.pc = "register" /\ q.by = job[j].by /\ q.db = job[j].db
          /\ q.todo = job[j].todo
      BY <3>1, <2>l, Moves
    <3> HIDE DEF q
    <3>3. \A i \in Jobs : job'[i] = IF i = j THEN q ELSE job[i] BY <3>2, OneMoves
    <3>4. job[j].todo = {} BY <3>1, <2>j DEF Wf
    <3> QED BY <3>1, <3>2, <3>3, <3>4, HeirsCommit
  <2>2. CASE ProvisionAnswerLost(j)
    <3>1. Committed(j) /\ job[j].pc = "tx" /\ UNCHANGED d1 /\ End(j)
      BY <2>2 DEF ProvisionAnswerLost, d1
    <3>2. \A i \in Jobs : i # j => job'[i] = job[i] BY <3>1 DEF End, Typed, TypeOK
    <3>3. job'[j].pc = "ended" /\ job'[j].todo = {} BY <3>1 DEF End, Fresh, Typed, TypeOK
    <3> QED BY <3>1, <3>2, <3>3, HeirsCommit
  <2>3. CASE Migrate(j) BY <2>3, HeirsMigrate
  <2>4. CASE Gate(j) \/ ProvisionAborts(j) \/ PlanFails(j)
    <3>1. AdopterKept /\ SchemaKept /\ RegKept /\ OddKept
      BY <2>4 DEF AdopterKept, SchemaKept, RegKept, OddKept, Gate, ProvisionAborts, PlanFails, d1, pg
    <3>2. CASE Gate(j) \/ ProvisionAborts(j)
      <4>1. HoldKept BY <3>2, <2>l, ClashHolds, EndHolds, GotoHolds DEF Gate, ProvisionAborts
      <4> QED BY <3>1, <4>1, HeirsFrame
    <3>3. CASE PlanFails(j) /\ ~End(j)
      <4>1. /\ job' = [job EXCEPT ![j].pc = "gate", ![j].seeds = FALSE, ![j].tries = @ + 1]
            /\ job[j].todo = {}
        BY <3>3, <2>j DEF PlanFails, Wf
      <4>2. \A i \in Jobs : i # j => job'[i] = job[i] BY <4>1 DEF Typed, TypeOK
      <4>3. job'[j].pc = "gate" /\ job'[j].todo = {} BY <4>1, <2>j DEF Typed, TypeOK, Job
      <4>4. HoldKept BY <4>2, <4>3 DEF HoldKept, Holds
      <4> QED BY <3>1, <4>4, HeirsFrame
    <3>4. CASE End(j) BY <3>1, <3>4, EndHolds, HeirsFrame
    <3> QED BY <2>4, <3>2, <3>3, <3>4
  <2>5. CASE Register(j) \/ RegisterAnswerLost(j)
    <3>1. job[j].pc = "register" /\ (Goto(j, "key") \/ Goto(j, "drop"))
      BY <2>5 DEF Register, RegisterAnswerLost
    <3>2. HoldKept BY <3>1, <2>l, GotoHolds
    <3>3. AdopterKept /\ SchemaKept /\ OddKept
      BY <2>5 DEF AdopterKept, SchemaKept, OddKept, Register, RegisterAnswerLost, pg
    <3>4. UNCHANGED reg \/ reg' = [reg EXCEPT ![job[j].db] = job[j].by]
      BY <2>5 DEF Register, RegisterAnswerLost
    <3>5. RegKept BY <3>1, <3>4 DEF RegKept, Holds, Typed, TypeOK
    <3> QED BY <3>2, <3>3, <3>5, HeirsFrame
  <2>6. CASE DropSchema(j) \/ Unregister(j)
    <3>1. HoldKept BY <2>6, <2>l, GotoHolds, EndHolds DEF DropSchema, Unregister
    <3>2. job[j].db \in Ids BY <2>6, <2>j DEF DropSchema, Unregister, Wf
    <3>3. AdopterKept /\ OddKept
      BY <2>6 DEF AdopterKept, OddKept, DropSchema, Unregister, d1
    <3>4. SchemaKept
      BY <2>6, <3>2 DEF SchemaKept, DropSchema, Unregister, pg, Typed, TypeOK
    <3>5. RegKept
      BY <2>6, <3>2 DEF RegKept, DropSchema, Unregister, d1, Typed, TypeOK
    <3> QED BY <3>1, <3>3, <3>4, <3>5, HeirsFrame
  <2>7. CASE Bind(j)
    <3>1. job[j].pc = "bind" /\ (Goto(j, "migrate") \/ End(j)) BY <2>7 DEF Bind
    <3>2. HoldKept BY <3>1, <2>l, GotoHolds, EndHolds
    <3>3. AdopterKept BY <2>7 DEF Bind, AdopterKept, Typed, TypeOK
    <3>4. SchemaKept /\ RegKept /\ OddKept BY <2>7 DEF Bind, SchemaKept, RegKept, OddKept, pg
    <3> QED BY <3>2, <3>3, <3>4, HeirsFrame
  <2>8. CASE Retarget(j) \/ RetargetFails(j)
    <3>1. job[j].pc = "retarget" /\ \E e \in job[j].todo : Retargeted(j, e)
      BY <2>8 DEF Retarget, RetargetFails
    <3>2. HoldKept BY <3>1, RetargetedHolds
    <3>3. AdopterKept /\ RegKept /\ OddKept
      BY <2>8 DEF AdopterKept, RegKept, OddKept, Retarget, RetargetFails, d1
    <3>4. job[j].todo \subseteq Ids BY <2>j DEF Job
    <3>5. Retarget(j) => SchemaKept BY <3>4, RetargetSchemas DEF Retarget
    <3>6. RetargetFails(j) => SchemaKept BY DEF RetargetFails, SchemaKept, pg
    <3> QED BY <2>8, <3>2, <3>3, <3>5, <3>6, HeirsFrame
  <2>9. CASE Heal(j)
    <3>1. HoldKept BY <2>9, EndHolds DEF Heal
    <3>2. AdopterKept /\ RegKept /\ OddKept BY <2>9 DEF AdopterKept, RegKept, OddKept, Heal, d1
    <3>3. job[j].db \in Ids BY <2>9, <2>j DEF Heal, Wf
    <3>4. SchemaKept BY <2>9, <3>3, RetargetSchemas DEF Heal
    <3> QED BY <3>1, <3>2, <3>4, HeirsFrame
  <2>10. CASE \/ RegisterFails(j) \/ MintPkLive(j) \/ DeleteKeys(j) \/ AdoptApiKeys(j) \/ Exec(j)
              \/ HealFails(j) \/ Break(j)
    <3>1. AdopterKept /\ SchemaKept /\ RegKept /\ OddKept
      BY <2>10 DEF AdopterKept, SchemaKept, RegKept, OddKept, RegisterFails, MintPkLive,
         DeleteKeys, AdoptApiKeys, Exec, HealFails, Break, d1, pg
    <3>2. End(j) \/ Goto(j, "drop") \/ Goto(j, "retarget") \/ (Goto(j, "heal") /\ job[j].pc = "exec")
      BY <2>10 DEF RegisterFails, MintPkLive, DeleteKeys, AdoptApiKeys, AfterKeys, Exec,
         HealFails, Break
    <3>3. HoldKept BY <3>2, <2>l, EndHolds, GotoHolds
    <3> QED BY <3>1, <3>3, HeirsFrame
  <2> QED BY <1>2, <2>1, <2>2, <2>3, <2>4, <2>5, <2>6, <2>7, <2>8, <2>9, <2>10 DEF Step
<1>3. CASE Sweep \/ Reap \/ UNCHANGED vars
  <2>1. HoldKept
    <3>1. UNCHANGED job
      BY <1>3 DEF Sweep, Reap, ReadCatalog, ReadRegistry, DropRole, DropRoleFails, vars
    <3> QED BY <3>1 DEF HoldKept, Holds
  <2>2. AdopterKept /\ SchemaKept /\ RegKept /\ OddKept
    BY <1>3 DEF AdopterKept, SchemaKept, RegKept, OddKept, Sweep, Reap, ReadCatalog, ReadRegistry,
       DropRole, DropRoleFails, vars, d1, pg
  <2> QED BY <2>1, <2>2, HeirsFrame
<1> QED BY <1>1, <1>2, <1>3 DEF Next

LEMMA HeirsInit == Init => Heirs
<1> SUFFICES ASSUME Init PROVE Heirs OBVIOUS
<1>1. author = reg BY DEF Init
<1>2. \A i \in Jobs, d \in Ids : ~Holds(i, d) BY DEF Init, Holds, Fresh
<1> QED BY <1>1, <1>2 DEF Heirs, Heir

\* Whoever row, grant and row policy let in is the tenant the schema was made for
\* or the first user to adopt that tenant, whatever interleaves or fails, unless an
\* id is minted again while something of its former holder is still around.
THEOREM OnlyHeirsRead == Spec => []ReadersAreHeirs
<1>1. Init => Bound BY DEF Init, Bound, Fresh
<1>2. Heirs => ReadersAreHeirs BY DEF Heirs, Heir, ReadersAreHeirs
<1> QED BY TypeInit, TypeStep, <1>1, BoundStep, HeirsInit, HeirsStep, <1>2, PTL DEF Spec

(***************************************************************************)
(* As long as nothing fails, a step is one of the following, in what it    *)
(* makes of the request that takes it and of the two stores.               *)
(***************************************************************************)

Only(j) == \A i \in Jobs \ {j} : job'[i] = job[i]
Same(j) == job'[j].by = job[j].by /\ job'[j].db = job[j].db /\ job'[j].does = job[j].does
Ended(j) == Only(j) /\ job'[j].pc = "ended" /\ job'[j].does = "none" /\ job'[j].todo = {}
Goes(j, l) == Only(j) /\ Same(j) /\ job'[j].pc = l /\ job'[j].todo = job[j].todo
Begins(j, l, does, t, d) ==
  /\ Only(j) /\ job[j].pc = "idle" /\ job'[j].pc = l
  /\ job'[j].does = does /\ job'[j].by = t /\ job'[j].db = d /\ job'[j].todo = {}

acl == <<policy, grants, roles>>
Still == UNCHANGED <<reg, keys, acl, swept, odd>>

\* The row, the keys or the access list of d, and of no other database.
RegAt(d, t) == \A e \in Ids : reg'[e] = IF e = d THEN t ELSE reg[e]
KeysAt(d, S) == \A e \in Ids : keys'[e] = IF e = d THEN S ELSE keys[e]
AclAt(d, t, S) == \A e \in Ids : /\ policy'[e] = IF e = d THEN t ELSE policy[e]
                                 /\ grants'[e] = IF e = d THEN S ELSE grants[e]

Quits(j) == job[j].pc \in {"gate", "tx", "bind", "exec", "heal"} /\ Ended(j) /\ Still
Plans(j) ==
  /\ Only(j) /\ job'[j].pc \in {"gate", "tx"} /\ job'[j].does = "create" /\ job'[j].todo = {}
  /\ UNCHANGED <<reg, keys, acl, swept>> /\ odd \subseteq odd'
  /\ \/ job[j].pc \in {"gate", "tx"} /\ job'[j].by = job[j].by /\ job[j].does = "create"
     \/ /\ job[j].pc = "idle"
        /\ "overlap" \in odd' \/ \A i \in Jobs : job[i].does = "adopt" => job[i].db # job'[j].by
Commits(j) ==
  /\ job[j].pc = "tx" /\ Goes(j, "register") /\ UNCHANGED <<reg, keys>>
  /\ policy[job[j].db] = None /\ AclAt(job[j].db, job[j].by, {job[j].by})
  /\ roles' = roles \cup {job[j].by}
  /\ odd \subseteq odd' /\ (Reused(job[j].db) => "reuse" \in odd')
Registers(j) ==
  /\ job[j].pc = "register" /\ reg[job[j].db] = None /\ Goes(j, "key")
  /\ RegAt(job[j].db, job[j].by) /\ UNCHANGED <<keys, acl, swept, odd>>
Backs(j) == job[j].pc = "register" /\ reg[job[j].db] # None /\ Goes(j, "drop") /\ Still
Mints(j) ==
  /\ job[j].pc = "key" /\ Ended(j) /\ UNCHANGED <<reg, acl, swept, odd>>
  /\ KeysAt(job[j].db, keys[job[j].db] \cup {job[j].by})
Resolves(j) == Still /\ \E d \in Ids : reg[d] \in Users /\ Begins(j, "drop", "delete", reg[d], d)
Asks(j) == Still /\ \E d \in Ids : reg[d] # None /\ Begins(j, "exec", "ask", reg[d], d)
Adopts(j) ==
  /\ UNCHANGED <<reg, keys, acl, swept>> /\ odd \subseteq odd'
  /\ \E a \in Anons, u \in Users :
       /\ Begins(j, "bind", "adopt", u, a)
       /\ "overlap" \in odd' \/ \A i \in Jobs : job[i].does = "create" => job[i].by # a
Drops(j) ==
  /\ job[j].pc = "drop" /\ Goes(j, "unregister") /\ AclAt(job[j].db, None, {})
  /\ UNCHANGED <<reg, keys, roles, swept, odd>>
Unregisters(j) ==
  /\ job[j].pc = "unregister" /\ (Ended(j) \/ Goes(j, "unkey")) /\ RegAt(job[j].db, None)
  /\ UNCHANGED <<keys, acl, swept, odd>>
Unkeys(j) ==
  /\ job[j].pc = "unkey" /\ Ended(j) /\ KeysAt(job[j].db, {}) /\ UNCHANGED <<reg, acl, swept, odd>>
Binds(j) == job[j].pc = "bind" /\ Goes(j, "migrate") /\ Still
Migrates(j) ==
  /\ job[j].pc = "migrate" /\ Only(j) /\ Same(j) /\ job'[j].pc = "rekey"
  /\ job'[j].todo = {d \in Ids : reg[d] = job[j].db}
  /\ \A d \in Ids : reg'[d] = IF reg[d] = job[j].db THEN job[j].by ELSE reg[d]
  /\ UNCHANGED <<keys, acl, swept, odd>>
Rekeys(j) ==
  /\ job[j].pc = "rekey"
  /\ IF job[j].todo = {} THEN Ended(j) ELSE Goes(j, "retarget")
  /\ \A d \in Ids : keys'[d] = {IF t = job[j].db THEN job[j].by ELSE t : t \in keys[d]}
  /\ UNCHANGED <<reg, acl, swept, odd>>
Leaves(j, d) ==
  /\ d \in job[j].todo
  /\ \/ Ended(j) /\ job[j].todo = {d}
     \/ Only(j) /\ Same(j) /\ job'[j].pc = "retarget" /\ job'[j].todo = job[j].todo \ {d}
Mends(d, t) ==
  /\ policy[d] # None /\ AclAt(d, t, grants[d] \cup {t}) /\ roles' = roles \cup {t}
  /\ UNCHANGED <<reg, keys, swept, odd>>
Retargets(j) ==
  /\ job[j].pc = "retarget"
  /\ \E d \in Ids : Leaves(j, d) /\ (Mends(d, job[j].by) \/ (policy[d] = None /\ Still))
Ails(j) == job[j].pc = "exec" /\ job[j].by \notin roles /\ Goes(j, "heal") /\ Still
Heals(j) == job[j].pc = "heal" /\ Ended(j) /\ Mends(job[j].db, job[j].by)

Turn(j) ==
  \/ Quits(j) \/ Plans(j) \/ Commits(j) \/ Registers(j) \/ Backs(j) \/ Mints(j)
  \/ Resolves(j) \/ Asks(j) \/ Adopts(j) \/ Drops(j) \/ Unregisters(j) \/ Unkeys(j)
  \/ Binds(j) \/ Migrates(j) \/ Rekeys(j) \/ Retargets(j) \/ Ails(j) \/ Heals(j)

Sweeps ==
  /\ UNCHANGED <<job, keys, acl, odd>> /\ swept \subseteq swept'
  /\ \A d \in Ids : reg'[d] = reg[d] \/ (reg'[d] = None /\ d \in swept')
Reaps ==
  /\ UNCHANGED <<job, reg, keys, policy, swept>> /\ odd \subseteq odd'
  /\ \E t \in Tenants :
       /\ roles' = roles \ {t} /\ \A d \in Ids : grants'[d] = grants[d] \ {t}
       /\ InUse(t) => "straddle" \in odd'
Waits == Still /\ UNCHANGED job

\* What a request does follows from where it is.
Does ==
  faults = 0 => \A j \in Jobs :
    /\ job[j].pc \in {"gate", "tx", "register", "key"} => job[j].does = "create"
    /\ job[j].pc \in {"bind", "migrate", "rekey", "retarget"} => job[j].does = "adopt"

LEMMA Finished ==
  ASSUME Typed, NEW j \in Jobs, End(j)
  PROVE  Ended(j)
<1>1. Becomes(j, Fresh("ended")) BY DEF End, Becomes
<1>2. \A i \in Jobs : job'[i] = IF i = j THEN Fresh("ended") ELSE job[i] BY <1>1, OneMoves
<1> QED BY <1>2 DEF Ended, Only, Fresh

LEMMA Went ==
  ASSUME Typed, NEW j \in Jobs, NEW l, Goto(j, l)
  PROVE  Goes(j, l)
<1> DEFINE q == [job[j] EXCEPT !.pc = l]
<1>1. Becomes(j, q) BY DEF Goto, Becomes
<1>2. job[j] \in Job BY DEF Typed, TypeOK
<1>3. /\ q.pc = l /\ q.by = job[j].by /\ q.db = job[j].db /\ q.does = job[j].does
      /\ q.todo = job[j].todo
  BY <1>2 DEF Job
<1> HIDE DEF q
<1>4. \A i \in Jobs : job'[i] = IF i = j THEN q ELSE job[i] BY <1>1, OneMoves
<1> QED BY <1>3, <1>4 DEF Goes, Only, Same

LEMMA Begun ==
  ASSUME Typed, NEW j \in Jobs, NEW l, NEW does, NEW t, NEW d, Start(j, l, does, t, d)
  PROVE  Begins(j, l, does, t, d)
<1> DEFINE q == [Fresh(l) EXCEPT !.does = does, !.by = t, !.db = d]
<1>1. Becomes(j, q) /\ job[j].pc = "idle" BY DEF Start, Becomes
<1>2. q.pc = l /\ q.does = does /\ q.by = t /\ q.db = d /\ q.todo = {} BY DEF Fresh
<1> HIDE DEF q
<1>3. \A i \in Jobs : job'[i] = IF i = j THEN q ELSE job[i] BY <1>1, OneMoves
<1> QED BY <1>1, <1>2, <1>3 DEF Begins, Only

LEMMA Retried ==
  ASSUME Typed, NEW j \in Jobs, Clash(j), job[j].pc \in {"gate", "tx"}, job[j].does = "create",
         Still
  PROVE  Quits(j) \/ Plans(j)
<1>1. CASE End(j) BY <1>1, Finished DEF Quits
<1>2. CASE ~End(j)
  <2>1. PICK d \in Ids :
          job' = [job EXCEPT ![j].pc = "gate", ![j].db = d, ![j].tries = @ + 1,
                             ![j].aim = IF job[j].preset THEN d ELSE @]
    BY <1>2 DEF Clash
  <2>2. Only(j) BY <2>1 DEF Only, Typed, TypeOK
  <2>3. /\ job'[j].pc = "gate" /\ job'[j].todo = job[j].todo /\ job'[j].does = job[j].does
        /\ job'[j].by = job[j].by
    BY <2>1 DEF Typed, TypeOK, Job
  <2>4. job[j].todo = {} BY DEF Typed, Wf
  <2> QED BY <2>2, <2>3, <2>4 DEF Plans, Still
<1> QED BY <1>1, <1>2

LEMMA Planned ==
  ASSUME Typed, NEW j \in Jobs, job[j].pc \in {"gate", "tx"} => job[j].does = "create",
         StartCreate(j) \/ Gate(j) \/ ProvisionAborts(j) \/ PlanFails(j)
  PROVE  Quits(j) \/ Plans(j)
<1>j. job[j] \in Job /\ Wf(job[j]) BY DEF Typed, TypeOK
<1>1. CASE StartCreate(j)
  <2>1. PICK t \in Tenants, d \in Ids, preset \in BOOLEAN, seeds \in BOOLEAN :
          /\ job' = [job EXCEPT ![j] = NewCreate(t, d, preset, seeds)]
          /\ odd' = odd \cup {"overlap" : i \in {i \in Jobs : job[i].does = "adopt" /\ job[i].db = t}}
    BY <1>1, Zenon DEF StartCreate
  <2> DEFINE q == NewCreate(t, d, preset, seeds)
  <2>2. q.pc = "gate" /\ q.does = "create" /\ q.by = t /\ q.todo = {}
    BY DEF NewCreate, Fresh
  <2>3. Becomes(j, q) BY <2>1 DEF Becomes
  <2> HIDE DEF q
  <2>4. \A i \in Jobs : job'[i] = IF i = j THEN q ELSE job[i] BY <2>3, OneMoves
  <2>5. "overlap" \in odd' \/ \A i \in Jobs : job[i].does = "adopt" => job[i].db # t BY <2>1
  <2>6. job[j].pc = "idle" /\ UNCHANGED <<reg, keys, acl, swept>> /\ odd \subseteq odd'
    BY <1>1, <2>1 DEF StartCreate, d1, pg, acl
  <2> QED BY <2>2, <2>4, <2>5, <2>6 DEF Plans, Only
<1>2. CASE Gate(j)
  <2>1. Still /\ job[j].pc = "gate" BY <1>2 DEF Gate, Still, d1, pg, acl
  <2>2. CASE Clash(j) BY <1>j, <2>1, <2>2, Retried
  <2>3. CASE ~Clash(j)
    <3>1. Goes(j, "tx") BY <1>2, <2>3, Went DEF Gate
    <3>2. job[j].todo = {} BY <1>j, <2>1 DEF Wf
    <3> QED BY <2>1, <3>1, <3>2 DEF Plans, Goes, Same, Still
  <2> QED BY <2>2, <2>3
<1>3. CASE ProvisionAborts(j)
  <2>1. Still /\ job[j].pc = "tx" BY <1>3 DEF ProvisionAborts, Still, d1, pg, acl
  <2>2. CASE Clash(j) BY <1>j, <2>1, <2>2, Retried
  <2>3. CASE ~Clash(j) BY <1>3, <2>1, <2>3, Finished DEF ProvisionAborts, Quits
  <2> QED BY <2>2, <2>3
<1>4. CASE PlanFails(j)
  <2>1. Still /\ job[j].pc = "tx" BY <1>4 DEF PlanFails, Still, d1, pg, acl
  <2>2. CASE End(j) BY <2>1, <2>2, Finished DEF Quits
  <2>3. CASE ~End(j)
    <3>1. job' = [job EXCEPT ![j].pc = "gate", ![j].seeds = FALSE, ![j].tries = @ + 1]
      BY <1>4, <2>3 DEF PlanFails
    <3>2. Only(j) BY <3>1 DEF Only, Typed, TypeOK
    <3>3. /\ job'[j].pc = "gate" /\ job'[j].todo = job[j].todo /\ job'[j].does = job[j].does
          /\ job'[j].by = job[j].by
      BY <1>j, <3>1 DEF Typed, TypeOK, Job
    <3>4. job[j].todo = {} BY <1>j, <2>1 DEF Wf
    <3> QED BY <2>1, <3>2, <3>3, <3>4 DEF Plans, Still
  <2> QED BY <2>2, <2>3
<1> QED BY <1>1, <1>2, <1>3, <1>4

LEMMA LeftOne ==
  ASSUME Typed, NEW j \in Jobs, NEW d \in job[j].todo, job[j].pc = "retarget", Retargeted(j, d)
  PROVE  Leaves(j, d)
<1>j. job[j] \in Job BY DEF Typed, TypeOK
<1>1. CASE job[j].todo \ {d} = {}
  <2>1. End(j) /\ job[j].todo = {d} BY <1>1 DEF Retargeted
  <2> QED BY <2>1, Finished DEF Leaves
<1>2. CASE job[j].todo \ {d} # {}
  <2> DEFINE q == [job[j] EXCEPT !.todo = job[j].todo \ {d}]
  <2>1. Becomes(j, q) BY <1>2 DEF Retargeted, Becomes
  <2>2. /\ q.pc = "retarget" /\ q.by = job[j].by /\ q.db = job[j].db /\ q.does = job[j].does
        /\ q.todo = job[j].todo \ {d}
    BY <1>j DEF Job
  <2> HIDE DEF q
  <2>3. \A i \in Jobs : job'[i] = IF i = j THEN q ELSE job[i] BY <2>1, OneMoves
  <2> QED BY <2>2, <2>3 DEF Leaves, Only, Same
<1> QED BY <1>1, <1>2

LEMMA Mended ==
  ASSUME Typed, NEW d \in Ids, NEW t, RetargetAcl(d, t), UNCHANGED <<d1, swept, odd>>
  PROVE  Mends(d, t)
  BY DEF Typed, TypeOK, RetargetAcl, Mends, AclAt, d1

\* Every step that fails nothing is of one of these kinds.
LEMMA Turns ==
  ASSUME Typed, Does, [Next]_vars, faults' = 0
  PROVE  faults = 0 /\ ((\E j \in Jobs : Turn(j)) \/ Sweeps \/ Reaps \/ Waits)
<1>0. faults \in Nat /\ faults = 0 /\ ~Fault
  <2>1. faults \in Nat BY DEF Typed, TypeOK
  <2>2. ~Fault BY <2>1 DEF Fault
  <2>3. faults' = faults BY <2>2, Zenon DEF Next, StartCreate, Resolve, StartAdopt, StartAsk, Step, Gate,
     Provision, ProvisionAborts, PlanFails, ProvisionAnswerLost, Register, RegisterFails,
     RegisterAnswerLost, MintPkLive, DropSchema, Unregister, DeleteKeys, Bind, Migrate,
     AdoptApiKeys, Retarget, RetargetFails, Exec, Heal, HealFails, Break, Sweep, Reap,
     ReadCatalog, ReadRegistry, DropRole, DropRoleFails, vars
  <2> QED BY <2>1, <2>2, <2>3
<1>1. ASSUME NEW j \in Jobs,
             StartCreate(j) \/ Resolve(j) \/ StartAdopt(j) \/ StartAsk(j) \/ Step(j)
      PROVE  Turn(j)
  <2>j. job[j] \in Job /\ Wf(job[j]) BY DEF Typed, TypeOK
  <2>d. job[j].pc \in {"gate", "tx"} => job[j].does = "create" BY <1>0 DEF Does
  <2>1. CASE StartCreate(j) \/ Gate(j) \/ ProvisionAborts(j) \/ PlanFails(j)
    BY <2>1, <2>d, Planned DEF Turn
  <2>2. CASE Resolve(j)
    <3>1. PICK d \in Ids : reg[d] \in Users /\ Start(j, "drop", "delete", reg[d], d)
      BY <2>2 DEF Resolve
    <3>2. Still BY <2>2 DEF Resolve, Still, d1, pg, acl
    <3> QED BY <3>1, <3>2, Begun DEF Turn, Resolves
  <2>3. CASE StartAdopt(j)
    <3>1. PICK a \in Anons, u \in Users :
            /\ Start(j, "bind", "adopt", u, a)
            /\ odd' = odd \cup {"overlap" : i \in {i \in Jobs : job[i].does = "create" /\ job[i].by = a}}
      BY <2>3 DEF StartAdopt
    <3>2. UNCHANGED <<reg, keys, acl, swept>> BY <2>3 DEF StartAdopt, d1, pg, acl
    <3>3. "overlap" \in odd' \/ \A i \in Jobs : job[i].does = "create" => job[i].by # a BY <3>1
    <3>4. Begins(j, "bind", "adopt", u, a) BY <3>1, Begun
    <3>5. odd \subseteq odd' BY <3>1
    <3>6. Adopts(j) BY <3>2, <3>3, <3>4, <3>5 DEF Adopts
    <3> QED BY <3>6 DEF Turn
  <2>4. CASE StartAsk(j)
    <3>1. PICK d \in Ids : reg[d] # None /\ Start(j, "exec", "ask", reg[d], d)
      BY <2>4 DEF StartAsk
    <3>2. Still BY <2>4 DEF StartAsk, Still, d1, pg, acl
    <3> QED BY <3>1, <3>2, Begun DEF Turn, Asks
  <2>5. CASE Provision(j)
    <3>1. /\ job[j].pc = "tx" /\ Committed(j) /\ Goes(j, "register")
          /\ UNCHANGED <<reg, keys>>
      BY <2>5, Went DEF Provision, d1
    <3>2. odd \subseteq odd' /\ (Reused(job[j].db) => "reuse" \in odd') BY <3>1 DEF Committed
    <3>3. AclAt(job[j].db, job[j].by, {job[j].by})
      BY <3>1 DEF Committed, AclAt, Typed, TypeOK
    <3>4. policy[job[j].db] = None /\ roles' = roles \cup {job[j].by} BY <3>1 DEF Committed
    <3> QED BY <3>1, <3>2, <3>3, <3>4 DEF Turn, Commits
  <2>6. CASE Register(j)
    <3>1. job[j].pc = "register" /\ UNCHANGED <<keys, acl, swept, odd>>
      BY <2>6 DEF Register, pg, acl
    <3>2. CASE reg[job[j].db] = None
      <4>1. reg' = [reg EXCEPT ![job[j].db] = job[j].by] /\ Goes(j, "key")
        BY <2>6, <3>2, Went DEF Register
      <4>2. RegAt(job[j].db, job[j].by) BY <4>1 DEF RegAt, Typed, TypeOK
      <4> QED BY <3>1, <3>2, <4>1, <4>2 DEF Turn, Registers
    <3>3. CASE reg[job[j].db] # None
      BY <2>6, <3>1, <3>3, Went DEF Register, Turn, Backs, Still
    <3> QED BY <3>2, <3>3
  <2>7. CASE MintPkLive(j)
    <3>1. job[j].pc = "key" /\ Ended(j) /\ UNCHANGED <<reg, acl, swept, odd>>
      BY <2>7, Finished DEF MintPkLive, pg, acl
    <3>2. KeysAt(job[j].db, keys[job[j].db] \cup {job[j].by})
      BY <2>7 DEF MintPkLive, KeysAt, Typed, TypeOK
    <3> QED BY <3>1, <3>2 DEF Turn, Mints
  <2>8. CASE DropSchema(j)
    <3>1. /\ job[j].pc = "drop" /\ Goes(j, "unregister") /\ UNCHANGED <<reg, keys, roles, swept, odd>>
      BY <2>8, Went DEF DropSchema, d1
    <3>2. AclAt(job[j].db, None, {}) BY <2>8 DEF DropSchema, AclAt, Typed, TypeOK
    <3> QED BY <3>1, <3>2 DEF Turn, Drops
  <2>9. CASE Unregister(j)
    <3>1. /\ job[j].pc = "unregister" /\ (Ended(j) \/ Goes(j, "unkey"))
          /\ UNCHANGED <<keys, acl, swept, odd>>
      BY <2>9, Finished, Went DEF Unregister, pg, acl
    <3>2. RegAt(job[j].db, None) BY <2>9 DEF Unregister, RegAt, Typed, TypeOK
    <3> QED BY <3>1, <3>2 DEF Turn, Unregisters
  <2>10. CASE DeleteKeys(j)
    <3>1. job[j].pc = "unkey" /\ Ended(j) /\ UNCHANGED <<reg, acl, swept, odd>>
      BY <2>10, Finished DEF DeleteKeys, pg, acl
    <3>2. KeysAt(job[j].db, {}) BY <2>10 DEF DeleteKeys, KeysAt, Typed, TypeOK
    <3> QED BY <3>1, <3>2 DEF Turn, Unkeys
  <2>11. CASE Bind(j)
    <3>1. job[j].pc = "bind" /\ Still BY <2>11 DEF Bind, Still, pg, acl
    <3>2. Ended(j) \/ Goes(j, "migrate") BY <2>11, Finished, Went DEF Bind
    <3> QED BY <3>1, <3>2 DEF Turn, Quits, Binds
  <2>12. CASE Migrate(j)
    <3> DEFINE mine == {d \in Ids : reg[d] = job[j].db}
               q == [job[j] EXCEPT !.pc = "rekey", !.todo = mine]
    <3>1. job[j].pc = "migrate" /\ Becomes(j, q) /\ UNCHANGED <<keys, acl, swept, odd>>
      BY <2>12 DEF Migrate, Becomes, pg, acl
    <3>2. /\ q.pc = "rekey" /\ q.by = job[j].by /\ q.db = job[j].db /\ q.does = job[j].does
          /\ q.todo = mine
      BY <2>j DEF Job
    <3>3. \A d \in Ids : reg'[d] = IF reg[d] = job[j].db THEN job[j].by ELSE reg[d]
      BY <2>12 DEF Migrate
    <3> HIDE DEF q
    <3>4. \A i \in Jobs : job'[i] = IF i = j THEN q ELSE job[i] BY <3>1, OneMoves
    <3> QED BY <3>1, <3>2, <3>3, <3>4 DEF Turn, Migrates, Only, Same
  <2>13. CASE AdoptApiKeys(j)
    <3>1. job[j].pc = "rekey" /\ UNCHANGED <<reg, acl, swept, odd>>
      BY <2>13 DEF AdoptApiKeys, pg, acl
    <3>2. IF job[j].todo = {} THEN Ended(j) ELSE Goes(j, "retarget")
      BY <2>13, Finished, Went DEF AdoptApiKeys, AfterKeys
    <3>3. \A d \in Ids : keys'[d] = {IF t = job[j].db THEN job[j].by ELSE t : t \in keys[d]}
      BY <2>13 DEF AdoptApiKeys
    <3> QED BY <3>1, <3>2, <3>3 DEF Turn, Rekeys
  <2>14. CASE Retarget(j)
    <3>1. PICK d \in job[j].todo : RetargetAcl(d, job[j].by) /\ Retargeted(j, d)
      BY <2>14 DEF Retarget
    <3>2. d \in Ids BY <2>j DEF Job
    <3>3. job[j].pc = "retarget" /\ UNCHANGED <<d1, swept, odd>> BY <2>14 DEF Retarget
    <3> QED BY <3>1, <3>2, <3>3, Mended, LeftOne DEF Turn, Retargets
  <2>15. CASE RetargetFails(j)
    <3>1. PICK d \in job[j].todo : policy[d] = None /\ Retargeted(j, d)
      BY <1>0, <2>15 DEF RetargetFails
    <3>2. d \in Ids BY <2>j DEF Job
    <3>3. job[j].pc = "retarget" /\ Still BY <2>15 DEF RetargetFails, Still, d1, pg, acl
    <3> QED BY <3>1, <3>2, <3>3, LeftOne DEF Turn, Retargets
  <2>16. CASE Exec(j)
    <3>1. job[j].pc = "exec" /\ Still BY <2>16 DEF Exec, Still, d1, pg, acl
    <3>2. Ended(j) \/ (Goes(j, "heal") /\ job[j].by \notin roles) BY <2>16, Finished, Went DEF Exec
    <3> QED BY <3>1, <3>2 DEF Turn, Quits, Ails
  <2>17. CASE Heal(j)
    <3>1. job[j].pc = "heal" /\ Ended(j) BY <2>17, Finished DEF Heal
    <3>2. job[j].db \in Ids BY <2>j, <3>1 DEF Wf
    <3>3. Mends(job[j].db, job[j].by) BY <2>17, <3>2, Mended DEF Heal
    <3> QED BY <3>1, <3>3 DEF Turn, Heals
  <2>18. CASE HealFails(j)
    BY <2>18, Finished DEF HealFails, Turn, Quits, Still, d1, pg, acl
  <2> QED BY <1>0, <1>1, <2>1, <2>2, <2>3, <2>4, <2>5, <2>6, <2>7, <2>8, <2>9, <2>10, <2>11,
             <2>12, <2>13, <2>14, <2>15, <2>16, <2>17, <2>18
          DEF Step, ProvisionAnswerLost, RegisterFails, RegisterAnswerLost, Break
<1>2. CASE Sweep
  <2>1. PICK S \in SUBSET {d \in Ids : reg[d] \in Anons} :
          reg' = [d \in Ids |-> IF d \in S THEN None ELSE reg[d]] /\ swept' = swept \cup S
    BY <1>2 DEF Sweep
  <2>2. \A d \in Ids : reg'[d] = reg[d] \/ (reg'[d] = None /\ d \in swept') BY <2>1
  <2> QED BY <1>0, <1>2, <2>1, <2>2 DEF Sweep, Sweeps, acl, pg
<1>3. ASSUME NEW t \in Tenants, DropRole(t) PROVE Reaps
  BY <1>3 DEF DropRole, Reaps, d1
<1>4. CASE ReadCatalog \/ ReadRegistry \/ \E t \in Tenants : DropRoleFails(t)
  BY <1>4 DEF ReadCatalog, ReadRegistry, DropRoleFails, Waits, Still, d1, pg, acl
<1>5. CASE UNCHANGED vars BY <1>5 DEF vars, Waits, Still, d1, pg, acl
<1> QED BY <1>0, <1>1, <1>2, <1>3, <1>4, <1>5 DEF Next, Reap

(***************************************************************************)
(* The two stores agree.                                                   *)
(***************************************************************************)

Calm == faults = 0 /\ "reuse" \notin odd

\* Request i has d in hand.
Claims(i, d) ==
  \/ /\ job[i].pc \in {"register", "key", "drop", "unregister", "unkey", "exec", "heal"}
     /\ job[i].db = d
  \/ d \in job[i].todo

\* Between a schema and its row a create has the database to itself.
Alone ==
  Calm => \A j \in Jobs : job[j].pc = "register" =>
    /\ policy[job[j].db] # None /\ reg[job[j].db] = None /\ keys[job[j].db] = {}
    /\ \A i \in Jobs \ {j} : ~Claims(i, job[j].db)

\* What is being deleted stays deleted, and was a user's.
Leaving ==
  Calm => \A j \in Jobs :
    /\ job[j].pc = "unregister" => policy[job[j].db] = None
    /\ job[j].pc \in {"drop", "unregister"} => reg[job[j].db] \in Users \cup {None}

\* What a user has adopted or asks is the user's until it is gone.
Named ==
  Calm => \A j \in Jobs :
    /\ \A d \in job[j].todo : reg[d] \in {None, job[j].by}
    /\ job[j].pc \in {"exec", "heal"} /\ job[j].by \in Users => reg[job[j].db] \in {None, job[j].by}

LEMMA NoneApart ==
  /\ None \notin Tenants /\ None \notin Anons /\ None \notin Users
  /\ \A t \in Tenants : t \in Anons \/ t \in Users
  /\ \A t \in Anons : t \notin Users /\ t \in Tenants
  /\ \A t \in Users : t \in Tenants
  BY TenantsAssumption DEF Tenants

\* The kinds, for a proof that takes each by itself.
LEMMA DoesStep ==
  ASSUME Typed, Does, [Next]_vars
  PROVE  Does'
<1> SUFFICES ASSUME faults' = 0 PROVE Does' BY DEF Does
<1>1. faults = 0 /\ ((\E j \in Jobs : Turn(j)) \/ Sweeps \/ Reaps \/ Waits) BY Turns
<1>2. \A i \in Jobs :
        /\ job[i].pc \in {"gate", "tx", "register", "key"} => job[i].does = "create"
        /\ job[i].pc \in {"bind", "migrate", "rekey", "retarget"} => job[i].does = "adopt"
  BY <1>1 DEF Does
<1>3. ASSUME NEW j \in Jobs, Turn(j) PROVE Does'
  <2>1. Only(j)
    BY <1>3 DEF Turn, Quits, Plans, Commits, Registers, Backs, Mints, Resolves, Asks, Adopts, Drops,
       Unregisters, Unkeys, Binds, Migrates, Rekeys, Retargets, Ails, Heals, Ended, Goes, Begins, Leaves
  <2>2. /\ job'[j].pc \in {"gate", "tx", "register", "key"} => job'[j].does = "create"
        /\ job'[j].pc \in {"bind", "migrate", "rekey", "retarget"} => job'[j].does = "adopt"
    BY <1>2, <1>3 DEF Turn, Quits, Plans, Commits, Registers, Backs, Mints, Resolves, Asks, Adopts,
       Drops, Unregisters, Unkeys, Binds, Migrates, Rekeys, Retargets, Ails, Heals, Ended, Goes,
       Begins, Leaves, Same
  <2> QED BY <1>2, <2>1, <2>2 DEF Does, Only
<1>4. CASE UNCHANGED job BY <1>2, <1>4 DEF Does
<1> QED BY <1>1, <1>3, <1>4 DEF Sweeps, Reaps, Waits

LEMMA AloneStep ==
  ASSUME Typed, Typed', Does, Alone, [Next]_vars
  PROVE  Alone'
<1> SUFFICES ASSUME Calm' PROVE Alone' BY DEF Alone
<1>1. faults = 0 /\ ((\E j \in Jobs : Turn(j)) \/ Sweeps \/ Reaps \/ Waits)
  BY Turns DEF Calm
<1> SUFFICES ASSUME NEW j \in Jobs, job'[j].pc = "register", NEW d \in Ids, job'[j].db = d
             PROVE  /\ policy'[d] # None /\ reg'[d] = None /\ keys'[d] = {}
                    /\ \A i \in Jobs \ {j} : ~Claims(i, d)'
  <2>1. \A j \in Jobs : job'[j].pc = "register" => job'[j].db \in Ids BY DEF Typed, Wf
  <2> QED BY <2>1 DEF Alone, Claims
<1>w. \A i \in Jobs : job[i].todo # {} => job[i].pc \in {"rekey", "retarget"} BY DEF Typed, Wf
<1>t. reg[d] \in Tenants \cup {None} /\ policy[d] \in Tenants \cup {None} BY DEF Typed, TypeOK
<1>2. ASSUME job[j].pc = "register", job[j].db = d, "reuse" \notin odd
      PROVE  /\ policy[d] # None /\ reg[d] = None /\ keys[d] = {}
             /\ \A i \in Jobs \ {j} : ~Claims(i, d)
  BY <1>1, <1>2 DEF Alone, Calm
<1>3. ASSUME NEW k \in Jobs, Turn(k)
      PROVE  /\ policy'[d] # None /\ reg'[d] = None /\ keys'[d] = {}
             /\ \A i \in Jobs \ {j} : ~Claims(i, d)'
  <2>0. "reuse" \notin odd
    BY <1>3 DEF Calm, Turn, Quits, Plans, Commits, Registers, Backs, Mints, Resolves, Asks, Adopts, Drops,
       Unregisters, Unkeys, Binds, Migrates, Rekeys, Retargets, Ails, Heals, Still, Mends
  <2>1. CASE k = j
    <3>1. Commits(j)
      BY <1>3, <2>1 DEF Turn, Quits, Plans, Registers, Backs, Mints, Resolves, Asks, Adopts, Drops,
       Unregisters, Unkeys, Binds, Migrates, Rekeys, Retargets, Ails, Heals, Ended, Goes, Begins, Leaves
    <3>2. /\ job[j].db = d /\ ~Reused(d) /\ Only(j) /\ UNCHANGED <<reg, keys>>
          /\ policy'[d] = job[j].by /\ job[j].by \in Tenants
      BY <3>1 DEF Commits, Goes, Same, AclAt, Calm, Typed, Wf
    <3>3. \A i \in Jobs \ {j} : ~Claims(i, d)
      BY <1>w, <3>2 DEF Reused, Claims, Active
    <3> QED BY <3>2, <3>3, NoneApart DEF Only, Claims, Reused
  <2>2. CASE k # j
    <3>0. job'[j] = job[j] /\ \A i \in Jobs \ {k} : job'[i] = job[i]
      BY <1>3, <2>2 DEF Only, Turn, Quits, Plans, Commits, Registers, Backs, Mints, Resolves, Asks, Adopts, Drops,
       Unregisters, Unkeys, Binds, Migrates, Rekeys, Retargets, Ails, Heals, Ended, Goes, Begins, Leaves
    <3>1. /\ policy[d] # None /\ reg[d] = None /\ keys[d] = {}
          /\ \A i \in Jobs \ {j} : ~Claims(i, d)
      BY <3>0, <1>2, <2>0
    <3>2. ~Claims(k, d)' /\ policy'[d] # None /\ reg'[d] = None /\ keys'[d] = {}
      <4>k. ~Claims(k, d) BY <2>2, <3>1
      <4>1. CASE \/ Quits(k) \/ Plans(k) \/ Registers(k) \/ Backs(k) \/ Mints(k) \/ Drops(k)
                 \/ Unregisters(k) \/ Unkeys(k) \/ Binds(k) \/ Ails(k) \/ Heals(k)
        BY <1>w, <3>1, <4>k, <4>1 DEF Claims, Quits, Plans, Registers, Backs, Mints, Drops,
           Unregisters, Unkeys, Binds, Ails, Heals, Still, acl, Ended, Goes, Same, RegAt, KeysAt, AclAt,
           Mends
      <4>2. CASE Commits(k)
        BY <1>w, <3>1, <4>k, <4>2 DEF Claims, Commits, Goes, Same, AclAt
      <4>3. CASE Resolves(k) \/ Asks(k)
        BY <3>1, <4>3, NoneApart DEF Claims, Resolves, Asks, Begins, Still, acl
      <4>4. CASE Adopts(k) BY <3>1, <4>4 DEF Claims, Adopts, Begins, acl
      <4>5. CASE Migrates(k)
        <5>1. job[k].db \in Anons BY <4>5 DEF Migrates, Typed, Wf
        <5> QED BY <3>1, <4>5, <5>1, NoneApart DEF Claims, Migrates, acl, Same
      <4>6. CASE Rekeys(k)
        <5>1. ~Claims(k, d)' BY <4>6, <4>k DEF Claims, Rekeys, Ended, Goes
        <5>2. keys'[d] = {}
          <6>1. keys'[d] = {IF t = job[k].db THEN job[k].by ELSE t : t \in keys[d]}
            BY <4>6 DEF Rekeys
          <6> QED BY <3>1, <6>1
        <5> QED BY <3>1, <4>6, <5>1, <5>2 DEF Rekeys, acl
      <4>7. CASE Retargets(k)
        <5>1. PICK e \in Ids : Leaves(k, e) /\ (Mends(e, job[k].by) \/ (policy[e] = None /\ Still))
          BY <4>7 DEF Retargets
        <5>2. e # d BY <5>1, <4>k DEF Leaves, Claims
        <5> QED BY <3>1, <4>k, <5>1, <5>2, <4>7 DEF Claims, Leaves, Ended, Same, Mends, AclAt, Still, acl, Retargets
      <4> QED BY <1>3, <4>1, <4>2, <4>3, <4>4, <4>5, <4>6, <4>7 DEF Turn
    <3>3. \A i \in Jobs \ {j} : ~Claims(i, d)'
      BY <3>0, <3>1, <3>2 DEF Claims
    <3> QED BY <3>2, <3>3
  <2> QED BY <2>1, <2>2
<1>4. ASSUME Sweeps \/ Reaps \/ Waits
      PROVE  /\ policy'[d] # None /\ reg'[d] = None /\ keys'[d] = {}
             /\ \A i \in Jobs \ {j} : ~Claims(i, d)'
  <2>1. UNCHANGED <<job, policy, keys>> /\ odd \subseteq odd'
    BY <1>4 DEF Sweeps, Reaps, Waits, Still, acl
  <2>2. reg'[d] = reg[d] \/ reg'[d] = None
    BY <1>4 DEF Sweeps, Reaps, Waits, Still
  <2>3. job[j].pc = "register" /\ job[j].db = d /\ "reuse" \notin odd BY <2>1 DEF Calm
  <2> QED BY <1>2, <2>1, <2>2, <2>3 DEF Claims
<1> QED BY <1>1, <1>3, <1>4

LEMMA OneTurns ==
  ASSUME NEW j \in Jobs, Turn(j)
  PROVE  Only(j) /\ odd \subseteq odd'
<1>1. Only(j)
  BY DEF Turn, Quits, Plans, Commits, Registers, Backs, Mints, Resolves, Asks, Adopts, Drops,
     Unregisters, Unkeys, Binds, Migrates, Rekeys, Retargets, Ails, Heals, Ended, Goes, Begins, Leaves
<1>2. odd \subseteq odd'
  BY DEF Turn, Quits, Plans, Commits, Registers, Backs, Mints, Resolves, Asks, Adopts, Drops,
     Unregisters, Unkeys, Binds, Migrates, Rekeys, Retargets, Ails, Heals, Still, Mends
<1> QED BY <1>1, <1>2

\* Nobody but the create that owns it makes a row for d or a schema.
LEMMA FirstRows ==
  ASSUME Typed, Alone, Calm, NEW j \in Jobs, Turn(j), NEW d \in Ids
  PROVE  /\ \/ reg'[d] = reg[d]
            \/ reg'[d] = None
            \/ Registers(j) /\ job[j].db = d /\ reg[d] = None /\ reg'[d] = job[j].by
            \/ Migrates(j) /\ reg[d] = job[j].db /\ reg'[d] = job[j].by
         /\ \/ policy'[d] # None => policy[d] # None
            \/ Commits(j) /\ job[j].db = d
<1>1. CASE \/ Quits(j) \/ Plans(j) \/ Backs(j) \/ Mints(j) \/ Resolves(j) \/ Asks(j) \/ Adopts(j)
           \/ Unkeys(j) \/ Binds(j) \/ Rekeys(j) \/ Ails(j)
  BY <1>1 DEF Quits, Plans, Backs, Mints, Resolves, Asks, Adopts, Unkeys, Binds, Rekeys, Ails, Still, acl
<1>2. CASE Registers(j) \/ Unregisters(j) BY <1>2 DEF Registers, Unregisters, RegAt, acl
<1>3. CASE Commits(j) \/ Drops(j) BY <1>3 DEF Commits, Drops, AclAt, acl
<1>4. CASE Migrates(j) BY <1>4 DEF Migrates, acl
<1>5. CASE Retargets(j) BY <1>5 DEF Retargets, Mends, AclAt, Still, acl
<1>6. CASE Heals(j) BY <1>6 DEF Heals, Mends, AclAt
<1> QED BY <1>1, <1>2, <1>3, <1>4, <1>5, <1>6 DEF Turn

LEMMA LeavingStep ==
  ASSUME Typed, Typed', Does, Alone, Leaving, [Next]_vars
  PROVE  Leaving'
<1> SUFFICES ASSUME Calm', NEW i \in Jobs, NEW d \in Ids, job'[i].db = d,
                    job'[i].pc \in {"drop", "unregister"}
             PROVE  /\ job'[i].pc = "unregister" => policy'[d] = None
                    /\ reg'[d] \in Users \cup {None}
  <2>1. \A j \in Jobs : job'[j].pc \in {"drop", "unregister"} => job'[j].db \in Ids BY DEF Typed, Wf
  <2> QED BY <2>1 DEF Leaving
<1>1. faults = 0 /\ ((\E j \in Jobs : Turn(j)) \/ Sweeps \/ Reaps \/ Waits)
  BY Turns DEF Calm
<1>2. ASSUME "reuse" \notin odd, job[i].db = d
      PROVE  /\ job[i].pc = "unregister" => policy[d] = None
             /\ job[i].pc \in {"drop", "unregister"} => reg[d] \in Users \cup {None}
  BY <1>1, <1>2 DEF Leaving, Calm
<1>3. ASSUME NEW j \in Jobs, Turn(j)
      PROVE  /\ job'[i].pc = "unregister" => policy'[d] = None
             /\ reg'[d] \in Users \cup {None}
  <2>0. Only(j) /\ Calm BY <1>1, <1>3, OneTurns DEF Calm
  <2>1. CASE j = i
    <3>1. Drops(j) \/ Resolves(j) \/ Backs(j)
      BY <1>3, <2>1 DEF Turn, Quits, Plans, Commits, Registers, Mints, Asks, Adopts,
       Unregisters, Unkeys, Binds, Migrates, Rekeys, Retargets, Ails, Heals, Ended, Goes, Begins, Leaves
    <3>2. ~Backs(j) BY <2>0 DEF Backs, Alone
    <3>3. CASE Drops(j) BY <1>2, <2>0, <2>1, <3>3 DEF Drops, Goes, Same, AclAt, Calm
    <3>4. CASE Resolves(j) BY <2>1, <3>4 DEF Resolves, Begins, Still
    <3> QED BY <3>1, <3>2, <3>3, <3>4
  <2>2. CASE j # i
    <3>0. job'[i] = job[i] BY <2>0, <2>2 DEF Only
    <3>1. Claims(i, d) BY <3>0 DEF Claims
    <3>2. /\ job[i].pc = "unregister" => policy[d] = None
          /\ reg[d] \in Users \cup {None}
      BY <1>2, <2>0, <3>0 DEF Calm
    <3>3. ~(Commits(j) /\ job[j].db = d)
      <4> SUFFICES ASSUME Commits(j), job[j].db = d PROVE FALSE OBVIOUS
      <4>1. Reused(d) BY <3>0 DEF Reused, Active
      <4> QED BY <4>1 DEF Commits, Calm
    <3>4. ~(Registers(j) /\ job[j].db = d)
      BY <2>0, <2>2, <3>1 DEF Registers, Alone
    <3>5. ~(Migrates(j) /\ reg[d] = job[j].db)
      <4>1. Migrates(j) => job[j].db \in Anons BY DEF Migrates, Typed, Wf
      <4> QED BY <3>2, <4>1, NoneApart
    <3> QED BY <1>3, <2>0, <3>0, <3>2, <3>3, <3>4, <3>5, FirstRows
  <2> QED BY <2>1, <2>2
<1>4. CASE Sweeps \/ Reaps \/ Waits
  <2>1. UNCHANGED <<job, policy>> /\ odd \subseteq odd'
    BY <1>4 DEF Sweeps, Reaps, Waits, Still, acl
  <2>2. reg'[d] = reg[d] \/ reg'[d] = None
    BY <1>4 DEF Sweeps, Reaps, Waits, Still
  <2> QED BY <1>2, <2>1, <2>2 DEF Calm
<1> QED BY <1>1, <1>3, <1>4

(***************************************************************************)
(* The losses are counted, whatever fails: a step loses a database only as *)
(* the one fault it is, and only the request that fails can lose it.       *)
(***************************************************************************)

Unmixed == "reuse" \notin odd
Mid == {"register", "drop", "unregister"}
Lost == {d \in Ids : LostSchema(d) \/ LostRow(d)}

\* Between the writes to the two stores: a create has made the schema and has
\* the database to itself, and what is being unregistered has no schema.
Paired ==
  /\ \A j \in Jobs : job[j].pc \in {"gate", "tx", "register"} => job[j].does = "create"
  /\ Unmixed => \A j \in Jobs :
       /\ job[j].pc = "register" =>
            /\ policy[job[j].db] # None /\ reg[job[j].db] = None
            /\ \A i \in Jobs \ {j} : job[i].pc \in Mid => job[i].db # job[j].db
       /\ job[j].pc = "unregister" => policy[job[j].db] = None

Counted == Unmixed => IsFiniteSet(Lost) /\ Cardinality(Lost) <= faults

\* A step that loses nothing, and one that may lose d.
LEMMA CountedKept ==
  ASSUME Typed, Typed', Counted, odd \subseteq odd', faults <= faults',
         Unmixed' => Lost' \subseteq Lost
  PROVE  Counted'
<1> SUFFICES ASSUME Unmixed' PROVE IsFiniteSet(Lost') /\ Cardinality(Lost') <= faults'
  BY DEF Counted
<1>1. Unmixed BY DEF Unmixed
<1>2. IsFiniteSet(Lost) /\ Cardinality(Lost) <= faults /\ Lost' \in SUBSET Lost BY <1>1 DEF Counted
<1>3. IsFiniteSet(Lost') /\ Cardinality(Lost') <= Cardinality(Lost) BY <1>2, FS_Subset
<1>4. Cardinality(Lost) \in Nat /\ Cardinality(Lost') \in Nat BY <1>2, <1>3, FS_CardinalityType
<1>5. faults \in Nat /\ faults' \in Nat BY BoundsAssumption DEF Typed, TypeOK
<1> QED BY <1>2, <1>3, <1>4, <1>5

LEMMA CountedOne ==
  ASSUME Typed, Typed', Counted, odd \subseteq odd', Fault, NEW d,
         Unmixed' => Lost' \subseteq Lost \cup {d}
  PROVE  Counted'
<1> SUFFICES ASSUME Unmixed' PROVE IsFiniteSet(Lost') /\ Cardinality(Lost') <= faults'
  BY DEF Counted
<1>1. Unmixed BY DEF Unmixed
<1>2. IsFiniteSet(Lost) /\ Cardinality(Lost) <= faults /\ Lost' \in SUBSET (Lost \cup {d})
  BY <1>1 DEF Counted
<1>3. Cardinality(Lost) \in Nat BY <1>2, FS_CardinalityType
<1>4. /\ IsFiniteSet(Lost \cup {d})
      /\ Cardinality(Lost \cup {d}) = IF d \in Lost THEN Cardinality(Lost) ELSE Cardinality(Lost) + 1
  BY <1>2, FS_AddElement
<1>5. IsFiniteSet(Lost') /\ Cardinality(Lost') <= Cardinality(Lost \cup {d}) BY <1>2, <1>4, FS_Subset
<1>6. Cardinality(Lost') \in Nat BY <1>5, FS_CardinalityType
<1>7. faults \in Nat /\ faults' = faults + 1 BY BoundsAssumption DEF Typed, TypeOK, Fault
<1> QED BY <1>2, <1>3, <1>4, <1>5, <1>6, <1>7

\* A step of request j that ends it, or takes it elsewhere, between no two writes.
Steady(j) ==
  \/ job'[j].pc \notin Mid /\ job[j].pc \notin Mid
  \/ job'[j] = job[j]
NonesKept ==
  \A d \in Ids : (reg'[d] = None <=> reg[d] = None) /\ (policy'[d] = None <=> policy[d] = None)
\* A step that takes no request from or to a place between two writes, and makes or
\* deletes no row or schema.
Apart ==
  /\ \A i \in Jobs : Steady(i)
  /\ \A i \in Jobs : job'[i].pc \in {"gate", "tx"} => job'[i].does = "create"
  /\ NonesKept
  /\ swept' = swept /\ odd \subseteq odd' /\ faults <= faults'

LEMMA ApartKeeps ==
  ASSUME Typed, Typed', Paired, Counted, Apart
  PROVE  Paired' /\ Counted'
<1>1. \A i \in Jobs : job[i].pc \in Mid => job[i].db \in Ids BY DEF Typed, Wf, Mid
<1>2. Unmixed' => Unmixed BY DEF Apart, Unmixed
<1>3. \A i \in Jobs : job'[i].pc \in Mid \/ job[i].pc \in Mid => job'[i] = job[i]
  BY DEF Apart, Steady
<1>4. \A i \in Jobs : job'[i].pc = "register" => job'[i].does = "create"
  BY <1>3 DEF Paired, Mid
<1>5. Paired' BY <1>1, <1>2, <1>3, <1>4 DEF Paired, Apart, NonesKept, Mid
<1>6. Lost' \subseteq Lost
  BY <1>3 DEF Lost, LostSchema, LostRow, Apart, NonesKept, Mid
<1> QED BY <1>5, <1>6, CountedKept DEF Apart

\* The record of a request that ends, or that tries again.
LEMMA EndSteady ==
  ASSUME Typed, NEW j \in Jobs, End(j), job[j].pc \notin Mid, Paired
  PROVE  /\ \A i \in Jobs : Steady(i)
         /\ \A i \in Jobs : job'[i].pc \in {"gate", "tx"} => job'[i].does = "create"
<1>1. Ended(j) BY Finished
<1> QED BY <1>1 DEF Ended, Only, Steady, Mid, Paired

LEMMA GoesSteady ==
  ASSUME Typed, NEW j \in Jobs, NEW l, Goto(j, l), l \notin Mid, job[j].pc \notin Mid, Paired,
         l \in {"gate", "tx"} => job[j].pc \in {"gate", "tx"}
  PROVE  /\ \A i \in Jobs : Steady(i)
         /\ \A i \in Jobs : job'[i].pc \in {"gate", "tx"} => job'[i].does = "create"
<1>1. Goes(j, l) BY Went
<1> QED BY <1>1 DEF Goes, Only, Same, Steady, Mid, Paired

LEMMA StartSteady ==
  ASSUME Typed, NEW j \in Jobs, NEW l \in {"bind", "exec"}, NEW does, NEW t, NEW d,
         Start(j, l, does, t, d), Paired
  PROVE  /\ \A i \in Jobs : Steady(i)
         /\ \A i \in Jobs : job'[i].pc \in {"gate", "tx"} => job'[i].does = "create"
<1>1. Begins(j, l, does, t, d) BY Begun
<1> QED BY <1>1 DEF Begins, Only, Steady, Mid, Paired

LEMMA RetrySteady ==
  ASSUME Typed, NEW j \in Jobs, Paired,
         \/ job[j].pc \in {"gate", "tx"} /\ Clash(j)
         \/ StartCreate(j) \/ PlanFails(j)
         \/ job[j].pc = "retarget" /\ \E d \in Ids : Retargeted(j, d)
  PROVE  /\ \A i \in Jobs : Steady(i)
         /\ \A i \in Jobs : job'[i].pc \in {"gate", "tx"} => job'[i].does = "create"
<1>1. CASE End(j)
  <2>1. job[j].pc \notin Mid BY DEF Mid, StartCreate, PlanFails
  <2> QED BY <1>1, <2>1, EndSteady
<1>2. CASE ~End(j)
  <2>0. job[j] \in Job BY DEF Typed, TypeOK
  <2>1. /\ \A i \in Jobs \ {j} : job'[i] = job[i]
        /\ job[j].pc \notin Mid /\ job'[j].pc \notin Mid
        /\ job'[j].pc \in {"gate", "tx"} => job'[j].does = "create"
    <3>1. CASE job[j].pc \in {"gate", "tx"} /\ Clash(j)
      <4>1. PICK d \in Ids :
              job' = [job EXCEPT ![j].pc = "gate", ![j].db = d, ![j].tries = @ + 1,
                                 ![j].aim = IF job[j].preset THEN d ELSE @]
        BY <1>2, <3>1 DEF Clash
      <4> QED BY <2>0, <3>1, <4>1 DEF Typed, TypeOK, Job, Mid, Paired
    <3>2. CASE StartCreate(j)
      <4>1. PICK t \in Tenants, d \in Ids, preset \in BOOLEAN, seeds \in BOOLEAN :
              job' = [job EXCEPT ![j] = NewCreate(t, d, preset, seeds)]
        BY <3>2, Zenon DEF StartCreate
      <4>2. LET q == NewCreate(t, d, preset, seeds) IN q.pc = "gate" /\ q.does = "create"
        BY DEF NewCreate, Fresh
      <4> QED BY <3>2, <4>1, <4>2 DEF StartCreate, Typed, TypeOK, Mid
    <3>3. CASE PlanFails(j)
      <4>1. /\ job' = [job EXCEPT ![j].pc = "gate", ![j].seeds = FALSE, ![j].tries = @ + 1]
            /\ job[j].pc = "tx"
        BY <1>2, <3>3 DEF PlanFails
      <4> QED BY <2>0, <4>1 DEF Typed, TypeOK, Job, Mid, Paired
    <3>4. CASE job[j].pc = "retarget" /\ \E d \in Ids : Retargeted(j, d)
      <4>1. PICK d \in Ids : job' = [job EXCEPT ![j].todo = job[j].todo \ {d}]
        BY <1>2, <3>4 DEF Retargeted
      <4> QED BY <2>0, <3>4, <4>1 DEF Typed, TypeOK, Job, Mid
    <3> QED BY <3>1, <3>2, <3>3, <3>4
  <2> QED BY <2>1 DEF Steady, Paired
<1> QED BY <1>1, <1>2

LEMMA MendKeepsNones ==
  ASSUME Typed, NEW d, NEW t \in Tenants, RetargetAcl(d, t), UNCHANGED reg
  PROVE  NonesKept
  BY NoneApart DEF RetargetAcl, NonesKept, Typed, TypeOK

\* The steps that are apart.
LEMMA ApartSteps ==
  ASSUME Typed, Paired, NEW j \in Jobs,
         \/ StartCreate(j) \/ StartAdopt(j) \/ StartAsk(j) \/ Gate(j) \/ ProvisionAborts(j)
         \/ PlanFails(j) \/ MintPkLive(j) \/ DeleteKeys(j) \/ Bind(j) \/ Migrate(j)
         \/ AdoptApiKeys(j) \/ Retarget(j) \/ RetargetFails(j) \/ Exec(j) \/ Heal(j) \/ HealFails(j)
         \/ Break(j) /\ job[j].pc \notin Mid
  PROVE  Apart
<1> DEFINE Jobs1 == /\ \A i \in Jobs : Steady(i)
                    /\ \A i \in Jobs : job'[i].pc \in {"gate", "tx"} => job'[i].does = "create"
           Rest == NonesKept /\ swept' = swept /\ odd \subseteq odd' /\ faults <= faults'
<1>f. faults \in Nat /\ (Fault => faults' = faults + 1)
  BY BoundsAssumption DEF Typed, TypeOK, Fault
<1>w. job[j].todo \subseteq Ids BY DEF Typed, TypeOK, Job
<1>1. CASE StartCreate(j) \/ StartAdopt(j) \/ StartAsk(j)
  <2>1. Jobs1 BY <1>1, RetrySteady, StartSteady DEF StartAdopt, StartAsk
  <2>2. Rest BY <1>1, <1>f DEF StartCreate, StartAdopt, StartAsk, NonesKept, d1, pg
  <2> QED BY <2>1, <2>2 DEF Apart
<1>2. CASE Gate(j) \/ ProvisionAborts(j) \/ PlanFails(j)
  <2>1. Jobs1
    <3>1. CASE Gate(j) BY <3>1, RetrySteady, GoesSteady DEF Gate, Mid
    <3>2. CASE ProvisionAborts(j) BY <3>2, RetrySteady, EndSteady DEF ProvisionAborts, Mid
    <3>3. CASE PlanFails(j) BY <3>3, RetrySteady
    <3> QED BY <1>2, <3>1, <3>2, <3>3
  <2>2. Rest BY <1>2, <1>f DEF Gate, ProvisionAborts, PlanFails, NonesKept, d1, pg
  <2> QED BY <2>1, <2>2 DEF Apart
<1>3. CASE MintPkLive(j) \/ DeleteKeys(j)
  <2>1. Jobs1 BY <1>3, EndSteady DEF MintPkLive, DeleteKeys, Mid
  <2>2. Rest BY <1>3, <1>f DEF MintPkLive, DeleteKeys, NonesKept, pg
  <2> QED BY <2>1, <2>2 DEF Apart
<1>4. CASE Bind(j) \/ AdoptApiKeys(j)
  <2>1. Jobs1 BY <1>4, EndSteady, GoesSteady DEF Bind, AdoptApiKeys, AfterKeys, Mid
  <2>2. Rest BY <1>4, <1>f DEF Bind, AdoptApiKeys, NonesKept, pg
  <2> QED BY <2>1, <2>2 DEF Apart
<1>5. CASE Migrate(j)
  <2>1. job' = [job EXCEPT ![j].pc = "rekey", ![j].todo = {d \in Ids : reg[d] = job[j].db}]
        /\ job[j].pc = "migrate"
    BY <1>5 DEF Migrate
  <2>2. job[j] \in Job BY DEF Typed, TypeOK
  <2>3. Jobs1
    BY <2>1, <2>2 DEF Typed, TypeOK, Job, Steady, Mid, Paired
  <2>4. job[j].by # None /\ job[j].db # None
    BY <2>1, NoneApart DEF Typed, Wf
  <2>5. Rest BY <1>5, <1>f, <2>4 DEF Migrate, NonesKept, pg
  <2> QED BY <2>3, <2>5 DEF Apart
<1>6. CASE Retarget(j) \/ RetargetFails(j)
  <2>1. Jobs1 BY <1>6, <1>w, RetrySteady DEF Retarget, RetargetFails
  <2>2. job[j].by \in Tenants BY <1>6 DEF Retarget, RetargetFails, Typed, Wf, Tenants
  <2>3. NonesKept
    <3>1. CASE Retarget(j) BY <3>1, <2>2, MendKeepsNones DEF Retarget, d1
    <3>2. CASE RetargetFails(j) BY <3>2 DEF RetargetFails, NonesKept, d1, pg
    <3> QED BY <1>6, <3>1, <3>2
  <2>4. Rest BY <1>6, <1>f, <2>3 DEF Retarget, RetargetFails
  <2> QED BY <2>1, <2>4 DEF Apart
<1>7. CASE Exec(j) \/ HealFails(j)
  <2>1. Jobs1 BY <1>7, EndSteady, GoesSteady DEF Exec, HealFails, Mid
  <2>2. Rest BY <1>7, <1>f DEF Exec, HealFails, NonesKept, d1, pg
  <2> QED BY <2>1, <2>2 DEF Apart
<1>8. CASE Heal(j)
  <2>1. Jobs1 BY <1>8, EndSteady DEF Heal, Mid
  <2>2. job[j].by \in Tenants BY <1>8 DEF Heal, Typed, Wf
  <2>3. Rest BY <1>8, <1>f, <2>2, MendKeepsNones DEF Heal, d1
  <2> QED BY <2>1, <2>3 DEF Apart
<1>9. CASE Break(j) /\ job[j].pc \notin Mid
  <2>1. Jobs1 BY <1>9, EndSteady DEF Break
  <2>2. Rest BY <1>9, <1>f DEF Break, NonesKept, d1, pg
  <2> QED BY <2>1, <2>2 DEF Apart
<1> QED BY <1>1, <1>2, <1>3, <1>4, <1>5, <1>6, <1>7, <1>8, <1>9

\* The schema is there, and its request goes to the row or is cut off.
LEMMA CommitKeeps ==
  ASSUME Typed, Typed', Paired, Counted, NEW j \in Jobs, Provision(j) \/ ProvisionAnswerLost(j)
  PROVE  Paired' /\ Counted'
<1> DEFINE d == job[j].db
<1>1. /\ job[j].pc = "tx" /\ policy[d] = None /\ UNCHANGED reg /\ d \in Ids
      /\ job[j].by \in Tenants /\ job[j].does = "create"
      /\ \A e \in Ids : policy'[e] = IF e = d THEN job[j].by ELSE policy[e]
      /\ swept' = swept \ {d} /\ odd \subseteq odd'
      /\ Reused(d) => "reuse" \in odd'
  BY DEF Provision, ProvisionAnswerLost, Committed, d1, Typed, TypeOK, Wf, Paired
<1>2. (Provision(j) /\ faults' = faults /\ Goes(j, "register"))
      \/ (ProvisionAnswerLost(j) /\ Fault /\ Ended(j))
  BY Finished, Went DEF Provision, ProvisionAnswerLost
<1>3. Only(j) /\ (job'[j].pc = "register" => job'[j].db = d /\ job'[j].does = "create")
      /\ job'[j].pc \in {"register", "ended"}
  BY <1>1, <1>2 DEF Goes, Ended, Same
<1>4. ASSUME Unmixed'
      PROVE  /\ Unmixed /\ reg[d] = None /\ policy'[d] # None
             /\ \A i \in Jobs : job[i].pc \in Mid => job[i].db # d
  BY <1>1, <1>4, NoneApart DEF Unmixed, Reused, Active, Mid
<1>5. Paired'
  <2>1. \A i \in Jobs : job'[i].pc \in {"gate", "tx", "register"} => job'[i].does = "create"
    BY <1>3 DEF Paired, Only
  <2>2. ASSUME Unmixed', NEW i \in Jobs, job'[i].pc = "register"
        PROVE  /\ policy'[job'[i].db] # None /\ reg'[job'[i].db] = None
               /\ \A k \in Jobs \ {i} : job'[k].pc \in Mid => job'[k].db # job'[i].db
    <3>1. CASE i = j BY <1>1, <1>3, <1>4, <2>2, <3>1 DEF Only
    <3>2. CASE i # j
      <4>1. job'[i] = job[i] /\ job[i].db # d /\ job[i].db \in Ids
        BY <1>3, <1>4, <2>2, <3>2 DEF Only, Mid, Typed, Wf
      <4> QED BY <1>1, <1>3, <1>4, <2>2, <4>1 DEF Only, Paired, Mid
    <3> QED BY <3>1, <3>2
  <2>3. ASSUME Unmixed', NEW i \in Jobs, job'[i].pc = "unregister"
        PROVE  policy'[job'[i].db] = None
    <3>1. job'[i] = job[i] BY <1>3, <2>3 DEF Only
    <3>2. job[i].db # d /\ job[i].db \in Ids BY <1>4, <2>3, <3>1 DEF Mid, Typed, Wf
    <3> QED BY <1>1, <1>4, <2>3, <3>1, <3>2 DEF Paired
  <2> QED BY <2>1, <2>2, <2>3 DEF Paired
<1>6. \A e \in Ids \ {d} : e \in Lost' => e \in Lost
  BY <1>1, <1>3 DEF Lost, LostSchema, LostRow, Only
<1>7. Lost' \subseteq Lost \cup {d} BY <1>6 DEF Lost
<1>8. CASE Provision(j) /\ faults' = faults /\ Goes(j, "register")
  <2>1. Unmixed' => d \notin Lost'
    BY <1>1, <1>3, <1>4, <1>8 DEF Lost, LostSchema, LostRow, Goes
  <2>2. Unmixed' => Lost' \subseteq Lost BY <2>1, <1>7
  <2>3. faults <= faults' BY <1>8, BoundsAssumption DEF Typed, TypeOK
  <2>4. odd \subseteq odd' BY <1>1
  <2>5. Counted' BY <2>2, <2>3, <2>4, CountedKept
  <2> QED BY <1>5, <2>5
<1>9. CASE ProvisionAnswerLost(j) /\ Fault /\ Ended(j)
  BY <1>1, <1>5, <1>7, <1>9, CountedOne
<1> QED BY <1>2, <1>8, <1>9

\* The registration succeeds, fails or is answered to nobody.
LEMMA RegisterKeeps ==
  ASSUME Typed, Typed', Paired, Counted, NEW j \in Jobs,
         Register(j) \/ RegisterFails(j) \/ RegisterAnswerLost(j)
  PROVE  Paired' /\ Counted'
<1> DEFINE d == job[j].db
<1>0. job[j].pc = "register" /\ d \in Ids /\ job[j].by # None /\ job[j].does = "create"
  BY NoneApart DEF Register, RegisterFails, RegisterAnswerLost, Typed, Wf, Paired
<1>1. /\ UNCHANGED <<policy, swept, odd>> /\ \A e \in Ids \ {d} : reg'[e] = reg[e]
      /\ faults <= faults'
  <2>1. faults \in Nat /\ (Fault => faults' = faults + 1)
    BY BoundsAssumption DEF Typed, TypeOK, Fault
  <2> QED BY <2>1 DEF Register, RegisterFails, RegisterAnswerLost, pg, d1, Typed, TypeOK
<1>2. Unmixed => /\ policy[d] # None /\ reg[d] = None
                 /\ \A i \in Jobs \ {j} : job[i].pc \in Mid => job[i].db # d
  BY <1>0 DEF Paired
<1>3. /\ Only(j) /\ job'[j].pc \in {"key", "drop"} /\ job'[j].db = d /\ job'[j].does = "create"
      /\ Unmixed => reg'[d] # None \/ job'[j].pc = "drop"
  <2>1. CASE Goto(j, "drop") BY <1>0, <2>1, Went DEF Goes, Same
  <2>2. CASE Register(j) /\ Goto(j, "key")
    <3>1. Goes(j, "key") BY <2>2, Went
    <3>2. Unmixed => reg'[d] = job[j].by BY <1>0, <1>2, <2>2 DEF Register, Typed, TypeOK
    <3> QED BY <1>0, <3>1, <3>2 DEF Goes, Same
  <2> QED BY <2>1, <2>2 DEF Register, RegisterFails, RegisterAnswerLost
<1>4. Paired'
  <2>1. \A i \in Jobs : job'[i].pc \in {"gate", "tx", "register"} => job'[i].does = "create"
    BY <1>3 DEF Paired, Only
  <2>2. ASSUME Unmixed', NEW i \in Jobs, job'[i].pc = "register"
        PROVE  /\ policy'[job'[i].db] # None /\ reg'[job'[i].db] = None
               /\ \A k \in Jobs \ {i} : job'[k].pc \in Mid => job'[k].db # job'[i].db
    <3>0. Unmixed BY <1>1, <2>2 DEF Unmixed
    <3>1. job'[i] = job[i] /\ i # j BY <1>3, <2>2 DEF Only
    <3>2. job[i].db # d /\ job[i].db \in Ids BY <1>0, <1>2, <2>2, <3>0, <3>1 DEF Mid, Typed, Wf
    <3>3. /\ policy[job[i].db] # None /\ reg[job[i].db] = None
          /\ \A k \in Jobs \ {i} : job[k].pc \in Mid => job[k].db # job[i].db
      BY <2>2, <3>0, <3>1 DEF Paired
    <3>4. \A k \in Jobs \ {i} : job'[k].pc \in Mid => job'[k].db # job'[i].db
      BY <1>3, <3>1, <3>2, <3>3 DEF Only
    <3> QED BY <1>1, <3>1, <3>2, <3>3, <3>4
  <2>3. ASSUME Unmixed', NEW i \in Jobs, job'[i].pc = "unregister"
        PROVE  policy'[job'[i].db] = None
    BY <1>1, <1>3, <2>3 DEF Only, Paired, Unmixed
  <2> QED BY <2>1, <2>2, <2>3 DEF Paired
<1>5. Unmixed => Lost' \subseteq Lost
  <2> SUFFICES ASSUME Unmixed, NEW e \in Ids, e \in Lost' PROVE e \in Lost BY DEF Lost
  <2>1. CASE e = d BY <1>0, <1>1, <1>2, <1>3, <2>1 DEF Lost, LostSchema, LostRow
  <2>2. CASE e # d BY <1>0, <1>1, <1>3, <2>2 DEF Lost, LostSchema, LostRow, Only
  <2> QED BY <2>1, <2>2
<1> QED BY <1>1, <1>4, <1>5, CountedKept DEF Unmixed

\* The schema goes, then the row.
LEMMA DropKeeps ==
  ASSUME Typed, Typed', Paired, Counted, NEW j \in Jobs, DropSchema(j) \/ Unregister(j)
  PROVE  Paired' /\ Counted'
<1> DEFINE d == job[j].db
<1>0. job[j].pc \in {"drop", "unregister"} /\ d \in Ids
  BY DEF DropSchema, Unregister, Typed, Wf
<1>1. /\ UNCHANGED <<swept, odd, faults>>
      /\ \A e \in Ids \ {d} : reg'[e] = reg[e] /\ policy'[e] = policy[e]
      /\ Unmixed => policy'[d] = None
  BY <1>0 DEF DropSchema, Unregister, pg, d1, Typed, TypeOK, Paired
<1>2. /\ Only(j) /\ job'[j].pc \in {"unregister", "unkey", "ended"}
      /\ job'[j].pc = "unregister" => job'[j].db = d
      /\ job'[j].pc = "unregister" \/ reg'[d] = None
  <2>1. CASE DropSchema(j) BY <2>1, Went DEF DropSchema, Goes, Same
  <2>2. CASE Unregister(j)
    <3>1. Ended(j) \/ Goes(j, "unkey") BY <2>2, Finished, Went DEF Unregister
    <3>2. reg'[d] = None BY <1>0, <2>2 DEF Unregister, Typed, TypeOK
    <3> QED BY <3>1, <3>2 DEF Ended, Goes
  <2> QED BY <2>1, <2>2
<1>4. Paired'
  <2>1. \A i \in Jobs : job'[i].pc \in {"gate", "tx", "register"} => job'[i].does = "create"
    BY <1>2 DEF Paired, Only
  <2>2. ASSUME Unmixed', NEW i \in Jobs, job'[i].pc = "register"
        PROVE  /\ policy'[job'[i].db] # None /\ reg'[job'[i].db] = None
               /\ \A k \in Jobs \ {i} : job'[k].pc \in Mid => job'[k].db # job'[i].db
    <3>0. Unmixed BY <1>1, <2>2 DEF Unmixed
    <3>1. job'[i] = job[i] /\ i # j BY <1>2, <2>2 DEF Only
    <3>3. /\ policy[job[i].db] # None /\ reg[job[i].db] = None
          /\ \A k \in Jobs \ {i} : job[k].pc \in Mid => job[k].db # job[i].db
      BY <2>2, <3>0, <3>1 DEF Paired
    <3>2. job[i].db # d /\ job[i].db \in Ids BY <1>0, <2>2, <3>1, <3>3 DEF Mid, Typed, Wf
    <3>4. \A k \in Jobs \ {i} : job'[k].pc \in Mid => job'[k].db # job'[i].db
      BY <1>2, <3>1, <3>2, <3>3 DEF Only, Mid
    <3> QED BY <1>1, <3>1, <3>2, <3>3, <3>4
  <2>3. ASSUME Unmixed', NEW i \in Jobs, job'[i].pc = "unregister"
        PROVE  policy'[job'[i].db] = None
    <3>0. Unmixed BY <1>1, <2>3 DEF Unmixed
    <3>1. CASE i = j BY <1>1, <1>2, <2>3, <3>0, <3>1
    <3>2. CASE i # j
      <4>1. job'[i] = job[i] /\ policy[job[i].db] = None /\ job[i].db \in Ids
        BY <1>2, <2>3, <3>0, <3>2 DEF Only, Paired, Typed, Wf
      <4> QED BY <1>1, <3>0, <4>1
    <3> QED BY <3>1, <3>2
  <2> QED BY <2>1, <2>2, <2>3 DEF Paired
<1>5. Unmixed => Lost' \subseteq Lost
  <2> SUFFICES ASSUME Unmixed, NEW e \in Ids, e \in Lost' PROVE e \in Lost BY DEF Lost
  <2>1. CASE e = d BY <1>1, <1>2, <2>1 DEF Lost, LostSchema, LostRow
  <2>2. CASE e # d BY <1>0, <1>1, <1>2, <2>2 DEF Lost, LostSchema, LostRow, Only
  <2> QED BY <2>1, <2>2
<1>6. faults <= faults' BY <1>1, BoundsAssumption DEF Typed, TypeOK
<1> QED BY <1>1, <1>4, <1>5, <1>6, CountedKept DEF Unmixed

\* A request dies between two writes.
LEMMA BreakKeeps ==
  ASSUME Typed, Typed', Paired, Counted, NEW j \in Jobs, Break(j), job[j].pc \in Mid
  PROVE  Paired' /\ Counted'
<1>1. Ended(j) /\ Fault /\ UNCHANGED <<reg, policy, swept, odd>>
  BY Finished DEF Break, d1, pg
<1>2. Paired' BY <1>1 DEF Paired, Ended, Only, Mid, Unmixed
<1>3. \A e \in Ids \ {job[j].db} : e \in Lost' => e \in Lost
  BY <1>1 DEF Lost, LostSchema, LostRow, Ended, Only
<1>4. Lost' \subseteq Lost \cup {job[j].db} BY <1>3 DEF Lost
<1> QED BY <1>1, <1>2, <1>4, CountedOne

LEMMA ResolveKeeps ==
  ASSUME Typed, Typed', Paired, Counted, NEW j \in Jobs, Resolve(j)
  PROVE  Paired' /\ Counted'
<1>1. PICK d \in Ids : reg[d] \in Users /\ Begins(j, "drop", "delete", reg[d], d)
  BY Begun DEF Resolve
<1>2. UNCHANGED <<reg, policy, swept, odd, faults>> BY DEF Resolve, d1, pg
<1>3. reg[d] # None BY <1>1, NoneApart
<1>4. Paired'
  <2>1. \A i \in Jobs : job'[i].pc \in {"gate", "tx", "register"} => job'[i].does = "create"
    BY <1>1 DEF Paired, Begins, Only
  <2>2. ASSUME Unmixed', NEW i \in Jobs, job'[i].pc = "register"
        PROVE  /\ policy'[job'[i].db] # None /\ reg'[job'[i].db] = None
               /\ \A k \in Jobs \ {i} : job'[k].pc \in Mid => job'[k].db # job'[i].db
    <3>1. job'[i] = job[i] /\ i # j /\ Unmixed BY <1>1, <1>2, <2>2 DEF Begins, Only, Unmixed
    <3>2. /\ policy[job[i].db] # None /\ reg[job[i].db] = None
          /\ \A k \in Jobs \ {i} : job[k].pc \in Mid => job[k].db # job[i].db
      BY <2>2, <3>1 DEF Paired
    <3> QED BY <1>1, <1>2, <1>3, <3>1, <3>2 DEF Begins, Only
  <2>3. ASSUME Unmixed', NEW i \in Jobs, job'[i].pc = "unregister"
        PROVE  policy'[job'[i].db] = None
    BY <1>1, <1>2, <2>3 DEF Begins, Only, Paired, Unmixed
  <2> QED BY <2>1, <2>2, <2>3 DEF Paired
<1>5. Lost' \subseteq Lost
  <2> SUFFICES ASSUME NEW e \in Ids, e \in Lost' PROVE e \in Lost BY DEF Lost
  <2>1. \A i \in Jobs : job[i].pc # "idle" => job'[i] = job[i] BY <1>1 DEF Begins, Only
  <2>2. \A i \in Jobs : job[i].pc \in Mid => job'[i] = job[i] BY <2>1 DEF Mid
  <2> QED BY <1>2, <2>2 DEF Lost, LostSchema, LostRow, Mid
<1>6. faults <= faults' BY <1>2, BoundsAssumption DEF Typed, TypeOK
<1> QED BY <1>2, <1>4, <1>5, <1>6, CountedKept

LEMMA CronKeeps ==
  ASSUME Typed, Typed', Paired, Counted, Sweep \/ Reap \/ UNCHANGED vars
  PROVE  Paired' /\ Counted'
<1>1. /\ UNCHANGED <<job, policy, faults>> /\ odd \subseteq odd' /\ swept \subseteq swept'
      /\ \A d \in Ids : reg'[d] = reg[d] \/ (reg'[d] = None /\ d \in swept')
  BY DEF Sweep, Reap, ReadCatalog, ReadRegistry, DropRole, DropRoleFails, vars, d1, pg
<1>2. Paired'
  <2>1. \A i \in Jobs : job[i].pc = "register" => job[i].db \in Ids BY DEF Typed, Wf
  <2> QED BY <1>1, <2>1 DEF Paired, Unmixed
<1>3. Lost' \subseteq Lost BY <1>1 DEF Lost, LostSchema, LostRow
<1>4. faults <= faults' BY <1>1, BoundsAssumption DEF Typed, TypeOK
<1> QED BY <1>1, <1>2, <1>3, <1>4, CountedKept

LEMMA CountedStep ==
  ASSUME Typed, Typed', Paired, Counted, [Next]_vars
  PROVE  Paired' /\ Counted'
<1>1. ASSUME NEW j \in Jobs,
             StartCreate(j) \/ Resolve(j) \/ StartAdopt(j) \/ StartAsk(j) \/ Step(j)
      PROVE  Paired' /\ Counted'
  <2>1. CASE Provision(j) \/ ProvisionAnswerLost(j) BY <2>1, CommitKeeps
  <2>2. CASE Register(j) \/ RegisterFails(j) \/ RegisterAnswerLost(j) BY <2>2, RegisterKeeps
  <2>3. CASE DropSchema(j) \/ Unregister(j) BY <2>3, DropKeeps
  <2>4. CASE Resolve(j) BY <2>4, ResolveKeeps
  <2>5. CASE Break(j) /\ job[j].pc \in Mid BY <2>5, BreakKeeps
  <2>6. CASE \/ StartCreate(j) \/ StartAdopt(j) \/ StartAsk(j) \/ Gate(j) \/ ProvisionAborts(j)
             \/ PlanFails(j) \/ MintPkLive(j) \/ DeleteKeys(j) \/ Bind(j) \/ Migrate(j)
             \/ AdoptApiKeys(j) \/ Retarget(j) \/ RetargetFails(j) \/ Exec(j) \/ Heal(j) \/ HealFails(j)
             \/ Break(j) /\ job[j].pc \notin Mid
    BY <2>6, ApartSteps, ApartKeeps
  <2> QED BY <1>1, <2>1, <2>2, <2>3, <2>4, <2>5, <2>6 DEF Step
<1>2. CASE Sweep \/ Reap \/ UNCHANGED vars BY <1>2, CronKeeps
<1> QED BY <1>1, <1>2 DEF Next

LEMMA AgreeInit == Init => Does /\ Alone /\ Leaving /\ Paired /\ Counted
<1> SUFFICES ASSUME Init PROVE Does /\ Alone /\ Leaving /\ Paired /\ Counted OBVIOUS
<1>1. \A j \in Jobs : job[j].pc = "idle" BY DEF Init, Fresh
<1>2. policy = reg /\ faults = 0 BY DEF Init
<1>3. Lost = {} BY <1>2 DEF Lost, LostSchema, LostRow
<1>4. Counted BY <1>2, <1>3, FS_EmptySet DEF Counted
<1> QED BY <1>1, <1>2, <1>4 DEF Does, Alone, Leaving, Paired

\* While nothing has failed, nothing is lost.
LEMMA CalmAgrees ==
  ASSUME Counted, Calm, NEW d \in Ids, reg[d] # None, policy[d] = None
  PROVE  \E j \in Jobs : job[j].pc = "unregister" /\ job[j].db = d
<1>1. IsFiniteSet(Lost) /\ Cardinality(Lost) <= 0 BY DEF Counted, Calm, Unmixed
<1>2. Cardinality(Lost) \in Nat BY <1>1, FS_CardinalityType
<1>3. Cardinality(Lost) = 0 BY <1>1, <1>2
<1>4. Lost = {} BY <1>1, <1>3, FS_EmptySet
<1> QED BY <1>4 DEF Lost, LostSchema

\* As long as no id is minted again too early, each disagreement of the two stores
\* that no request under way and no sweep accounts for is the doing of a fault of its
\* own, in any interleaving of requests and cron and for any number of faults.
THEOREM RowAndSchemaAgree == Spec => []StoresAgree
<1>1. Counted => StoresAgree BY DEF Counted, Unmixed, Lost, StoresAgree
<1>2. Typed /\ Paired /\ Counted /\ [Next]_vars => (Typed /\ Paired /\ Counted)'
  BY TypeStep, CountedStep
<1> QED BY TypeInit, AgreeInit, <1>1, <1>2, PTL DEF Spec

(***************************************************************************)
(* Every owner is served, once all is quiet.                               *)
(***************************************************************************)

LEMMA NamedStep ==
  ASSUME Typed, Typed', Does, Alone, Named, [Next]_vars
  PROVE  Named'
<1>1. ASSUME faults' = 0
      PROVE  faults = 0 /\ ((\E j \in Jobs : Turn(j)) \/ Sweeps \/ Reaps \/ Waits)
  BY <1>1, Turns
<1> SUFFICES ASSUME Calm', NEW i \in Jobs, NEW d \in Ids,
                    \/ d \in job'[i].todo
                    \/ job'[i].pc \in {"exec", "heal"} /\ job'[i].by \in Users /\ job'[i].db = d
             PROVE  reg'[d] \in {None, job'[i].by}
  <2>1. \A j \in Jobs : job'[j].todo \subseteq Ids /\ (job'[j].pc \in {"exec", "heal"} => job'[j].db \in Ids)
    BY DEF Typed, TypeOK, Job, Wf
  <2> QED BY <2>1 DEF Named
<1>2. ASSUME "reuse" \notin odd,
             \/ d \in job[i].todo
             \/ job[i].pc \in {"exec", "heal"} /\ job[i].by \in Users /\ job[i].db = d
      PROVE  reg[d] \in {None, job[i].by}
  BY <1>1, <1>2 DEF Named, Calm
<1>3. ASSUME NEW j \in Jobs, Turn(j) PROVE reg'[d] \in {None, job'[i].by}
  <2>0. Only(j) /\ Calm BY <1>1, <1>3, OneTurns DEF Calm
  <2>1. CASE j = i
    <3>w. job[i].todo # {} => job[i].pc \in {"rekey", "retarget"} BY DEF Typed, Wf
    <3>1. Asks(i) \/ Migrates(i) \/ Rekeys(i) \/ Retargets(i) \/ Ails(i)
      BY <1>3, <2>1, <3>w DEF Turn, Quits, Plans, Commits, Registers, Backs, Mints, Resolves, Adopts, Drops,
         Unregisters, Unkeys, Binds, Heals, Ended, Goes, Begins
    <3>2. CASE Asks(i) BY <3>2 DEF Asks, Begins, Still
    <3>3. CASE Migrates(i)
      BY <3>3 DEF Migrates, Same
    <3>4. CASE Rekeys(i) BY <1>2, <2>0, <3>4 DEF Rekeys, Ended, Goes, Same, Calm
    <3>5. CASE Retargets(i)
      <4>1. d \in job[i].todo /\ job'[i].by = job[i].by /\ UNCHANGED reg
        BY <3>5 DEF Retargets, Leaves, Ended, Same, Mends, Still
      <4> QED BY <1>2, <2>0, <4>1 DEF Calm
    <3>6. CASE Ails(i) BY <1>2, <2>0, <3>6 DEF Ails, Goes, Same, Still, Calm
    <3> QED BY <3>1, <3>2, <3>3, <3>4, <3>5, <3>6
  <2>2. CASE j # i
    <3>0. job'[i] = job[i] BY <2>0, <2>2 DEF Only
    <3>1. Claims(i, d) /\ reg[d] \in {None, job[i].by} BY <1>2, <2>0, <3>0 DEF Claims, Calm
    <3>2. job[i].by \in Users
      <4>1. job[i].todo # {} => job[i].by \in Users BY DEF Typed, Wf
      <4> QED BY <3>0, <4>1
    <3>4. ~(Registers(j) /\ job[j].db = d)
      BY <2>0, <2>2, <3>1 DEF Registers, Alone
    <3>5. ~(Migrates(j) /\ reg[d] = job[j].db)
      <4>1. Migrates(j) => job[j].db \in Anons BY DEF Migrates, Typed, Wf
      <4> QED BY <3>1, <3>2, <4>1, NoneApart
    <3> QED BY <1>3, <2>0, <3>0, <3>1, <3>4, <3>5, FirstRows
  <2> QED BY <2>1, <2>2
<1>4. CASE Sweeps \/ Reaps \/ Waits
  <2>1. UNCHANGED job /\ odd \subseteq odd'
    BY <1>4 DEF Sweeps, Reaps, Waits, Still, acl
  <2>2. reg'[d] = reg[d] \/ reg'[d] = None
    BY <1>4 DEF Sweeps, Reaps, Waits, Still
  <2> QED BY <1>2, <2>1, <2>2 DEF Calm
<1> QED BY <1>1, <1>3, <1>4 DEF Calm

Serves(d, t) == t \in roles /\ t \in grants[d] /\ policy[d] = t

\* The database is a user's and on its way out, or its adoption is on the way.
Coming(d) ==
  /\ reg[d] \in Users
  /\ \E j \in Jobs :
       \/ job[j].pc = "unregister" /\ job[j].db = d
       \/ job[j].pc \in {"rekey", "retarget"} /\ d \in job[j].todo /\ job[j].by = reg[d]

\* Nothing has failed, no id was minted again too early, no role dropped in use.
Smooth == faults = 0 /\ odd \subseteq {"overlap"}
Serving ==
  Smooth =>
    /\ \A d \in Ids : reg[d] # None => Serves(d, reg[d]) \/ Coming(d)
    /\ \A j \in Jobs :
         /\ job[j].pc = "register" => Serves(job[j].db, job[j].by)
         /\ job[j].pc = "exec" /\ job[j].by \in Anons => job[j].by \in roles
         /\ job[j].pc = "heal" => job[j].by \in Users

\* A tenant that is served still is, unless the step drops the schema or points it
\* at another tenant.
LEMMA ServesOn ==
  ASSUME Typed, Typed', NEW j \in Jobs, Turn(j), NEW d \in Ids, NEW t \in Tenants, Serves(d, t),
         ~(Drops(j) /\ job[j].db = d),
         Heals(j) /\ job[j].db = d => job[j].by = t,
         Retargets(j) /\ d \in job[j].todo => job[j].by = t
  PROVE  Serves(d, t)'
<1>1. CASE Commits(j)
  <2>1. policy[d] # None BY NoneApart DEF Serves
  <2> QED BY <1>1, <2>1 DEF Commits, AclAt, Serves
<1>2. CASE Drops(j) BY <1>2 DEF Drops, AclAt, Serves
<1>3. CASE Retargets(j)
  <2>1. PICK e \in Ids : Leaves(j, e) /\ (Mends(e, job[j].by) \/ (policy[e] = None /\ Still))
    BY <1>3 DEF Retargets
  <2> QED BY <1>3, <2>1 DEF Leaves, Mends, AclAt, Still, acl, Serves
<1>4. CASE Heals(j) BY <1>4 DEF Heals, Mends, AclAt, Serves
<1> QED BY <1>1, <1>2, <1>3, <1>4 DEF Turn, Quits, Plans, Registers, Backs, Mints, Resolves, Asks,
        Adopts, Unregisters, Unkeys, Binds, Migrates, Rekeys, Ails, Still, acl, Serves

LEMMA SmoothIsCalm == Smooth => Calm
  BY DEF Smooth, Calm

\* What the tenants of requests may rely on.
LEMMA ServingJobs ==
  ASSUME Typed, Typed', Does, Alone, Leaving, Serving, Smooth, Smooth', NEW j \in Jobs, Turn(j),
         NEW i \in Jobs
  PROVE  /\ job'[i].pc = "register" => Serves(job[i].db, job[i].by)'
         /\ job'[i].pc = "exec" /\ job'[i].by \in Anons => job'[i].by \in roles'
         /\ job'[i].pc = "heal" => job'[i].by \in Users
<1>0. Only(j) /\ Calm /\ Calm' BY OneTurns, SmoothIsCalm DEF Smooth, Calm
<1>r. \A t : t \in roles => t \in roles'
  BY DEF Turn, Quits, Plans, Commits, Registers, Backs, Mints, Resolves, Asks, Adopts, Drops,
     Unregisters, Unkeys, Binds, Migrates, Rekeys, Retargets, Ails, Heals, Still, Mends, acl
<1>1. CASE i # j
  <2>1. job'[i] = job[i] BY <1>0, <1>1 DEF Only
  <2>2. ASSUME job[i].pc = "register" PROVE Serves(job[i].db, job[i].by)'
    <3>1. PICK d \in Ids, t \in Tenants : d = job[i].db /\ t = job[i].by
      BY <2>2 DEF Typed, Wf
    <3>2. Serves(d, t) BY <2>2, <3>1 DEF Serving
    <3>3. ~Claims(j, d) BY <1>0, <1>1, <2>2, <3>1 DEF Alone
    <3>4. Serves(d, t)' BY <3>2, <3>3, ServesOn DEF Claims, Drops, Heals
    <3> QED BY <2>1, <3>1, <3>4 DEF Serves
  <2> QED BY <1>r, <2>1, <2>2 DEF Serving
<1>2. CASE i = j
  <2>1. CASE job'[j].pc = "register"
    <3>1. Commits(j)
      BY <2>1 DEF Turn, Quits, Plans, Registers, Backs, Mints, Resolves, Asks, Adopts, Drops,
         Unregisters, Unkeys, Binds, Migrates, Rekeys, Retargets, Ails, Heals, Ended, Goes, Begins, Leaves
    <3>2. job[j].db \in Ids BY <3>1 DEF Commits, Typed, Wf
    <3>3. Serves(job[j].db, job[j].by)'
      BY <3>1, <3>2 DEF Commits, Goes, Same, AclAt, Serves
    <3> QED BY <1>2, <2>1, <3>3
  <2>2. CASE job'[j].pc = "exec"
    <3>1. Asks(j)
      BY <2>2 DEF Turn, Quits, Plans, Commits, Registers, Backs, Mints, Resolves, Adopts, Drops,
         Unregisters, Unkeys, Binds, Migrates, Rekeys, Retargets, Ails, Heals, Ended, Goes, Begins, Leaves
    <3>2. PICK d \in Ids : reg[d] # None /\ job'[j].by = reg[d] BY <3>1 DEF Asks, Begins
    <3>3. Serves(d, reg[d]) \/ reg[d] \in Users BY <3>2 DEF Serving, Coming
    <3> QED BY <1>2, <1>r, <2>2, <3>2, <3>3, NoneApart DEF Serves
  <2>3. CASE job'[j].pc = "heal"
    <3>1. Ails(j)
      BY <2>3 DEF Turn, Quits, Plans, Commits, Registers, Backs, Mints, Resolves, Asks, Adopts, Drops,
         Unregisters, Unkeys, Binds, Migrates, Rekeys, Retargets, Heals, Ended, Goes, Begins, Leaves
    <3>2. job[j].by \in Tenants /\ job[j].by \notin roles BY <3>1 DEF Ails, Typed, Wf
    <3>3. job[j].by \notin Anons BY <3>1, <3>2 DEF Ails, Serving
    <3> QED BY <1>2, <2>3, <3>1, <3>2, <3>3, NoneApart DEF Ails, Goes, Same
  <2> QED BY <1>2, <2>1, <2>2, <2>3
<1> QED BY <1>1, <1>2

LEMMA ServingDbs ==
  ASSUME Typed, Typed', Does, Alone, Leaving, Counted, Named, Serving, Smooth, Smooth',
         NEW j \in Jobs, Turn(j), NEW d \in Ids, reg'[d] # None
  PROVE  Serves(d, reg[d])' \/ Coming(d)'
<1>0. Only(j) /\ Calm /\ Calm' BY OneTurns, SmoothIsCalm DEF Smooth, Calm
<1>1. CASE Registers(j) /\ job[j].db = d
  <2>1. Serves(d, job[j].by) BY <1>1 DEF Registers, Serving
  <2>2. reg'[d] = job[j].by /\ UNCHANGED acl BY <1>1 DEF Registers, RegAt
  <2> QED BY <2>1, <2>2 DEF Serves, acl
<1>2. CASE Migrates(j) /\ reg[d] = job[j].db
  <2>1. job[j].by \in Users BY <1>2 DEF Migrates, Typed, Wf
  <2>2. reg'[d] = job[j].by /\ job'[j].by = job[j].by /\ job'[j].pc = "rekey" /\ d \in job'[j].todo
    BY <1>2 DEF Migrates, Same
  <2> QED BY <2>1, <2>2 DEF Coming
<1>3. CASE ~(Registers(j) /\ job[j].db = d) /\ ~(Migrates(j) /\ reg[d] = job[j].db)
  <2>1. reg'[d] = reg[d] BY <1>0, <1>3, FirstRows
  <2>2. PICK t \in Tenants : t = reg[d] BY <2>1 DEF Typed, TypeOK
  <2>3. t # None BY NoneApart
  <2>4. CASE Serves(d, t)
    <3>1. CASE Drops(j) /\ job[j].db = d
      <4>1. reg[d] \in Users BY <1>0, <2>2, <2>3, <3>1 DEF Drops, Leaving
      <4>2. job'[j].pc = "unregister" /\ job'[j].db = d BY <3>1 DEF Drops, Goes, Same
      <4> QED BY <2>1, <4>1, <4>2 DEF Coming
    <3>2. CASE ~(Drops(j) /\ job[j].db = d)
      <4>1. Heals(j) /\ job[j].db = d => job[j].by = t
        <5> HAVE Heals(j) /\ job[j].db = d
        <5>1. job[j].pc = "heal" /\ job[j].by \in Users BY DEF Heals, Serving
        <5> QED BY <1>0, <2>2, <2>3, <5>1 DEF Named
      <4>2. Retargets(j) /\ d \in job[j].todo => job[j].by = t
        BY <1>0, <2>2, <2>3 DEF Named
      <4>3. Serves(d, t)' BY <2>4, <3>2, <4>1, <4>2, ServesOn
      <4> QED BY <2>1, <2>2, <4>3 DEF Serves
    <3> QED BY <3>1, <3>2
  <2>5. CASE Coming(d)
    <3>1. PICK i \in Jobs :
            \/ job[i].pc = "unregister" /\ job[i].db = d
            \/ job[i].pc \in {"rekey", "retarget"} /\ d \in job[i].todo /\ job[i].by = reg[d]
      BY <2>5 DEF Coming
    <3>u. reg'[d] \in Users BY <2>1, <2>5 DEF Coming
    <3>2. CASE i # j BY <1>0, <2>1, <3>u, <3>1, <3>2 DEF Coming, Only
    <3>3. CASE i = j
      <4>1. Unregisters(j) \/ Rekeys(j) \/ Retargets(j)
        BY <3>1, <3>3 DEF Turn, Quits, Plans, Commits, Registers, Backs, Mints, Resolves, Asks, Adopts,
           Drops, Unkeys, Binds, Migrates, Ails, Heals, Begins
      <4>2. ~Unregisters(j) BY <3>1, <3>3 DEF Unregisters, RegAt
      <4>3. CASE Rekeys(j)
        <5>1. job'[j].pc = "retarget" /\ d \in job'[j].todo /\ job'[j].by = reg'[d]
          BY <2>1, <3>1, <3>3, <4>3 DEF Rekeys, Goes, Same
        <5> QED BY <3>u, <5>1 DEF Coming
      <4>4. CASE Retargets(j)
        <5>1. PICK e \in Ids : Leaves(j, e) /\ (Mends(e, job[j].by) \/ (policy[e] = None /\ Still))
          BY <4>4 DEF Retargets
        <5>2. d \in job[j].todo /\ job[j].by = reg[d] /\ job[j].pc = "retarget"
          BY <3>1, <3>3, <4>4 DEF Retargets
        <5>3. CASE e # d
          <6>1. job'[j].pc = "retarget" /\ d \in job'[j].todo /\ job'[j].by = reg'[d]
            BY <2>1, <5>1, <5>2, <5>3 DEF Leaves, Same
          <6> QED BY <3>u, <6>1 DEF Coming
        <5>4. CASE e = d /\ Mends(e, job[j].by)
          BY <2>1, <5>2, <5>4 DEF Mends, AclAt, Serves
        <5>5. CASE e = d /\ policy[e] = None
          <6>1. PICK k \in Jobs : job[k].pc = "unregister" /\ job[k].db = d
            BY <1>0, <2>2, <2>3, <5>5, CalmAgrees
          <6>2. job'[k] = job[k] BY <1>0, <5>2, <6>1 DEF Only
          <6> QED BY <3>u, <6>1, <6>2 DEF Coming
        <5> QED BY <5>1, <5>3, <5>4, <5>5
      <4> QED BY <4>1, <4>2, <4>3, <4>4
    <3> QED BY <3>2, <3>3
  <2> QED BY <2>2, <2>3, <2>4, <2>5 DEF Serving
<1> QED BY <1>1, <1>2, <1>3

LEMMA ServingReaps ==
  ASSUME Typed, Serving, Smooth, Smooth', Reaps
  PROVE  Serving'
<1>1. PICK t \in Tenants :
        /\ roles' = roles \ {t} /\ \A d \in Ids : grants'[d] = grants[d] \ {t}
        /\ InUse(t) => "straddle" \in odd'
  BY DEF Reaps
<1>2. UNCHANGED <<job, reg, policy>> BY DEF Reaps
<1>3. ~InUse(t) BY <1>1 DEF Smooth
<1>4. \A d \in Ids : reg[d] # t BY <1>3, NoneApart DEF InUse, Live
<1>5. \A j \in Jobs : job[j].pc \in {"register", "exec"} => job[j].by # t
  BY <1>3 DEF InUse, Active
<1>6. ASSUME NEW d \in Ids, reg[d] # None PROVE Serves(d, reg[d])' \/ Coming(d)'
  <2>1. CASE Serves(d, reg[d]) BY <1>1, <1>2, <1>4, <2>1 DEF Serves
  <2>2. CASE Coming(d) BY <1>2, <2>2 DEF Coming
  <2> QED BY <1>6, <2>1, <2>2 DEF Serving
<1>7. ASSUME NEW j \in Jobs
      PROVE  /\ job[j].pc = "register" => Serves(job[j].db, job[j].by)'
             /\ job[j].pc = "exec" /\ job[j].by \in Anons => job[j].by \in roles'
             /\ job[j].pc = "heal" => job[j].by \in Users
  <2>1. job[j].pc = "register" => job[j].db \in Ids BY DEF Typed, Wf
  <2> QED BY <1>1, <1>2, <1>5, <2>1 DEF Serving, Serves
<1> QED BY <1>2, <1>6, <1>7 DEF Serving

LEMMA ServingStep ==
  ASSUME Typed, Typed', Does, Alone, Leaving, Counted, Named, Serving, [Next]_vars
  PROVE  Serving'
<1> SUFFICES ASSUME Smooth' PROVE Serving' BY DEF Serving
<1>1. faults = 0 /\ ((\E j \in Jobs : Turn(j)) \/ Sweeps \/ Reaps \/ Waits)
  BY Turns DEF Smooth
<1>2. ASSUME NEW j \in Jobs, Turn(j) PROVE Serving'
  <2>1. Smooth BY <1>1, <1>2, OneTurns DEF Smooth
  <2>2. \A d \in Ids : reg'[d] # None => Serves(d, reg[d])' \/ Coming(d)'
    BY <1>2, <2>1, ServingDbs
  <2>3. \A i \in Jobs :
          /\ job'[i].pc = "register" => Serves(job[i].db, job[i].by)'
          /\ job'[i].pc = "exec" /\ job'[i].by \in Anons => job'[i].by \in roles'
          /\ job'[i].pc = "heal" => job'[i].by \in Users
    BY <1>2, <2>1, ServingJobs
  <2> QED BY <2>2, <2>3 DEF Serving
<1>3. CASE Sweeps \/ Waits
  <2>1. UNCHANGED <<job, acl, odd>> BY <1>3 DEF Sweeps, Waits, Still
  <2>2. \A d \in Ids : reg'[d] # None => reg'[d] = reg[d] BY <1>3 DEF Sweeps, Waits, Still
  <2>3. Smooth BY <1>1, <2>1 DEF Smooth
  <2> QED BY <2>1, <2>2, <2>3 DEF Serving, Serves, Coming, acl
<1>4. CASE Reaps
  <2>1. Smooth BY <1>1, <1>4 DEF Smooth, Reaps
  <2> QED BY <1>4, <2>1, ServingReaps
<1> QED BY <1>1, <1>2, <1>3, <1>4

\* Nothing has failed, no id was minted again too early, no device was adopted with
\* a create of its under way.
Orderly == faults = 0 /\ odd \subseteq {"straddle"}

\* No create of a device goes with its adoption.
Separate == \A i, j \in Jobs :
  job[i].does = "create" /\ job[j].does = "adopt" => job[i].by # job[j].db
\* The key a create is about to mint is the first, and the owner's.
FirstKey == \A i \in Jobs : job[i].pc = "key" =>
  /\ reg[job[i].db] \in {None, job[i].by} /\ keys[job[i].db] = {}
  /\ \A j \in Jobs \ {i} : ~(job[j].pc = "key" /\ job[j].db = job[i].db)
\* Once its rows are moved a device has none.
Moved == \A j \in Jobs : job[j].pc = "rekey" => \A d \in Ids : reg[d] # job[j].db
\* A key is the owner's, or an adoption is about to make it so.
KeyFits(d, t) ==
  \/ t = reg[d]
  \/ \E j \in Jobs : job[j].pc = "rekey" /\ job[j].db = t /\ job[j].by = reg[d]
AllFit == \A d \in Ids : reg[d] # None => \A t \in keys[d] : KeyFits(d, t)

Keyed == Orderly => Separate /\ FirstKey /\ Moved /\ AllFit

LEMMA OrderlyIsCalm == Orderly => Calm
  BY DEF Orderly, Calm

LEMMA SeparateStep ==
  ASSUME Separate, Orderly', NEW k \in Jobs, Turn(k)
  PROVE  Separate'
<1>1. Only(k) BY OneTurns
<1>2. job'[k].does = "create" =>
        \/ job[k].does = "create" /\ job'[k].by = job[k].by
        \/ \A i \in Jobs : job[i].does = "adopt" => job[i].db # job'[k].by
  BY DEF Orderly, Turn, Quits, Plans, Commits, Registers, Backs, Mints, Resolves, Asks, Adopts, Drops,
     Unregisters, Unkeys, Binds, Migrates, Rekeys, Retargets, Ails, Heals, Ended, Goes, Begins, Leaves, Same
<1>3. job'[k].does = "adopt" =>
        \/ job[k].does = "adopt" /\ job'[k].db = job[k].db
        \/ \A i \in Jobs : job[i].does = "create" => job[i].by # job'[k].db
  BY DEF Orderly, Turn, Quits, Plans, Commits, Registers, Backs, Mints, Resolves, Asks, Adopts, Drops,
     Unregisters, Unkeys, Binds, Migrates, Rekeys, Retargets, Ails, Heals, Ended, Goes, Begins, Leaves, Same
<1> QED BY <1>1, <1>2, <1>3 DEF Separate, Only

\* Only a create that has made its row is about to mint, and only an adoption that
\* has moved the rows is about to change keys.
LEMMA NextIsKey ==
  ASSUME NEW k \in Jobs, Turn(k)
  PROVE  /\ job'[k].pc = "key" => Registers(k)
         /\ job'[k].pc = "rekey" => Migrates(k)
         /\ job[k].pc = "rekey" => Rekeys(k)
<1>1. job'[k].pc = "key" => Registers(k)
  BY DEF Turn, Quits, Plans, Commits, Registers, Backs, Mints, Resolves, Asks, Adopts, Drops,
     Unregisters, Unkeys, Binds, Migrates, Rekeys, Retargets, Ails, Heals, Ended, Goes, Begins, Leaves
<1>2. job'[k].pc = "rekey" => Migrates(k)
  BY DEF Turn, Quits, Plans, Commits, Registers, Backs, Mints, Resolves, Asks, Adopts, Drops,
     Unregisters, Unkeys, Binds, Migrates, Rekeys, Retargets, Ails, Heals, Ended, Goes, Begins, Leaves
<1>3. job[k].pc = "rekey" => Rekeys(k)
  BY DEF Turn, Quits, Plans, Commits, Registers, Backs, Mints, Resolves, Asks, Adopts, Drops,
     Unregisters, Unkeys, Binds, Migrates, Rekeys, Retargets, Ails, Heals, Ended, Goes, Begins, Leaves
<1> QED BY <1>1, <1>2, <1>3

\* How a step treats the keys of one database.
LEMMA KeysOf ==
  ASSUME NEW k \in Jobs, Turn(k), NEW d \in Ids
  PROVE  \/ keys'[d] = keys[d]
         \/ keys'[d] = {}
         \/ Mints(k) /\ job[k].db = d
         \/ Rekeys(k)
<1>1. CASE Mints(k) \/ Unkeys(k) BY <1>1 DEF Mints, Unkeys, KeysAt
<1>2. CASE Rekeys(k) BY <1>2
<1> QED BY <1>1, <1>2 DEF Turn, Quits, Plans, Commits, Registers, Backs, Resolves, Asks, Adopts, Drops,
     Unregisters, Binds, Migrates, Retargets, Ails, Heals, Still, Mends

LEMMA FirstKeyStep ==
  ASSUME Typed, Typed', Does, Alone, Calm, Separate, FirstKey, NEW k \in Jobs, Turn(k)
  PROVE  FirstKey'
<1> SUFFICES ASSUME NEW i \in Jobs, NEW d \in Ids, job'[i].pc = "key", job'[i].db = d
             PROVE  /\ reg'[d] \in {None, job'[i].by} /\ keys'[d] = {}
                    /\ \A j \in Jobs \ {i} : ~(job'[j].pc = "key" /\ job'[j].db = d)
  <2>1. \A j \in Jobs : job'[j].pc = "key" => job'[j].db \in Ids BY DEF Typed, Wf
  <2> QED BY <2>1 DEF FirstKey
<1>0. Only(k) BY OneTurns
<1>1. CASE i = k
  <2>1. Registers(k) BY <1>1, NextIsKey
  <2>2. /\ job[k].pc = "register" /\ job[k].db = d /\ job'[k].by = job[k].by
        /\ reg'[d] = job[k].by /\ UNCHANGED keys
    BY <1>1, <2>1 DEF Registers, Goes, Same, RegAt
  <2>3. keys[d] = {} /\ \A j \in Jobs \ {k} : ~Claims(j, d) BY <2>2 DEF Alone
  <2> QED BY <1>0, <1>1, <2>2, <2>3 DEF Only, Claims
<1>2. CASE i # k
  <2>1. job'[i] = job[i] /\ job[i].pc = "key" /\ job[i].db = d BY <1>0, <1>2 DEF Only
  <2>2. /\ reg[d] \in {None, job[i].by} /\ keys[d] = {}
        /\ \A j \in Jobs \ {i} : ~(job[j].pc = "key" /\ job[j].db = d)
    BY <2>1 DEF FirstKey
  <2>3. ~(Registers(k) /\ job[k].db = d) BY <1>2, <2>1 DEF Registers, Alone, Claims
  <2>4. ~(Migrates(k) /\ reg[d] = job[k].db)
    <3> SUFFICES ASSUME Migrates(k), reg[d] = job[k].db PROVE FALSE OBVIOUS
    <3>1. job[k].db \in Anons /\ job[k].does = "adopt" /\ job[i].does = "create"
      BY <2>1 DEF Migrates, Typed, Wf, Does, Calm
    <3> QED BY <2>2, <3>1, NoneApart DEF Separate
  <2>5. reg'[d] \in {None, job'[i].by} BY <2>1, <2>2, <2>3, <2>4, FirstRows
  <2>6. keys'[d] = {}
    <3>1. ~(Mints(k) /\ job[k].db = d) BY <1>2, <2>2 DEF Mints
    <3>2. CASE Rekeys(k)
      <4>1. keys'[d] = {IF t = job[k].db THEN job[k].by ELSE t : t \in keys[d]} BY <3>2 DEF Rekeys
      <4> QED BY <2>2, <4>1
    <3> QED BY <2>2, <3>1, <3>2, KeysOf
  <2>7. \A j \in Jobs \ {i} : ~(job'[j].pc = "key" /\ job'[j].db = d)
    <3>1. job'[k].pc = "key" => Registers(k) /\ job'[k].db = job[k].db
      BY NextIsKey DEF Registers, Goes, Same
    <3> QED BY <1>0, <2>2, <2>3, <3>1 DEF Only
  <2> QED BY <2>5, <2>6, <2>7
<1> QED BY <1>1, <1>2

LEMMA MovedStep ==
  ASSUME Typed, Typed', Does, Alone, Calm, Separate, Moved, NEW k \in Jobs, Turn(k)
  PROVE  Moved'
<1> SUFFICES ASSUME NEW j \in Jobs, job'[j].pc = "rekey", NEW d \in Ids
             PROVE  reg'[d] # job'[j].db
  BY DEF Moved
<1>0. Only(k) BY OneTurns
<1>a. job'[j].db \in Anons BY DEF Typed, Wf
<1>1. CASE j = k
  <2>1. Migrates(k) BY <1>1, NextIsKey
  <2>2. job[k].by \in Users /\ job'[k].db = job[k].db BY <2>1 DEF Migrates, Same, Typed, Wf
  <2> QED BY <1>1, <1>a, <2>1, <2>2, NoneApart DEF Migrates
<1>2. CASE j # k
  <2>1. job'[j] = job[j] /\ reg[d] # job[j].db BY <1>0, <1>2 DEF Only, Moved
  <2>2. Registers(k) => job[k].by # job[j].db
    <3>1. Registers(k) => job[k].does = "create" BY DEF Registers, Does, Calm
    <3>2. job[j].does = "adopt" BY <2>1 DEF Does, Calm
    <3> QED BY <3>1, <3>2 DEF Separate
  <2>3. Migrates(k) => job[k].by \in Users BY DEF Migrates, Typed, Wf
  <2> QED BY <1>a, <2>1, <2>2, <2>3, FirstRows, NoneApart
<1> QED BY <1>1, <1>2

LEMMA AllFitStep ==
  ASSUME Typed, Typed', Bound, Does, Alone, Calm, Separate, FirstKey, Moved, AllFit,
         NEW k \in Jobs, Turn(k)
  PROVE  AllFit'
<1> SUFFICES ASSUME NEW d \in Ids, reg'[d] # None, NEW t \in keys'[d]
             PROVE  KeyFits(d, t)'
  BY DEF AllFit, KeyFits
<1>0. Only(k) BY OneTurns
<1>1. CASE Mints(k) /\ job[k].db = d
  <2>1. keys[d] = {} /\ reg[d] \in {None, job[k].by} BY <1>1 DEF Mints, FirstKey
  <2>2. t = job[k].by /\ reg'[d] = reg[d] BY <1>1, <2>1 DEF Mints, KeysAt
  <2> QED BY <2>1, <2>2 DEF KeyFits
<1>2. CASE Rekeys(k)
  <2>1. PICK x \in keys[d] : t = IF x = job[k].db THEN job[k].by ELSE x BY <1>2 DEF Rekeys
  <2>2. UNCHANGED reg /\ job[k].pc = "rekey" BY <1>2 DEF Rekeys
  <2>3. KeyFits(d, x) BY <2>2 DEF AllFit
  <2>4. CASE x = job[k].db
    <3>1. x # reg[d] BY <2>2, <2>4 DEF Moved
    <3>2. PICK i \in Jobs : job[i].pc = "rekey" /\ job[i].db = x /\ job[i].by = reg[d]
      BY <2>3, <3>1 DEF KeyFits
    <3>3. job[k].by = reg[d] BY <2>2, <2>4, <3>2 DEF Bound
    <3> QED BY <2>1, <2>2, <2>4, <3>3 DEF KeyFits
  <2>5. CASE x # job[k].db
    <3>1. CASE x = reg[d] BY <2>1, <2>2, <2>5, <3>1 DEF KeyFits
    <3>2. CASE x # reg[d]
      <4>1. PICK i \in Jobs : job[i].pc = "rekey" /\ job[i].db = x /\ job[i].by = reg[d]
        BY <2>3, <3>2 DEF KeyFits
      <4>2. job'[i] = job[i] BY <1>0, <2>5, <4>1 DEF Only
      <4> QED BY <2>1, <2>2, <2>5, <4>1, <4>2 DEF KeyFits
    <3> QED BY <3>1, <3>2
  <2> QED BY <2>4, <2>5
<1>3. CASE ~(Mints(k) /\ job[k].db = d) /\ ~Rekeys(k)
  <2>1. t \in keys[d] BY <1>3, KeysOf
  <2>2. CASE Registers(k) /\ job[k].db = d
    <3>1. keys[d] = {} BY <2>2 DEF Registers, Alone
    <3> QED BY <2>1, <3>1
  <2>3. CASE Migrates(k) /\ reg[d] = job[k].db
    <3>1. job[k].db \in Anons BY <2>3 DEF Migrates, Typed, Wf
    <3>2. KeyFits(d, t) BY <2>1, <2>3, <3>1, NoneApart DEF AllFit
    <3>3. t = reg[d]
      <4>1. \A i \in Jobs : job[i].pc = "rekey" => job[i].by \in Users BY DEF Typed, Wf
      <4> QED BY <2>3, <3>1, <3>2, <4>1, NoneApart DEF KeyFits
    <3> QED BY <2>3, <3>3 DEF KeyFits, Migrates, Same
  <2>4. CASE ~(Registers(k) /\ job[k].db = d) /\ ~(Migrates(k) /\ reg[d] = job[k].db)
    <3>1. reg'[d] = reg[d] BY <2>4, FirstRows
    <3>2. KeyFits(d, t) BY <2>1, <3>1 DEF AllFit
    <3>3. \A i \in Jobs : job[i].pc = "rekey" => job'[i] = job[i]
      BY <1>0, <1>3, NextIsKey DEF Only
    <3> QED BY <3>1, <3>2, <3>3 DEF KeyFits
  <2> QED BY <2>2, <2>3, <2>4
<1> QED BY <1>1, <1>2, <1>3

LEMMA KeyedStep ==
  ASSUME Typed, Typed', Bound, Does, Alone, Keyed, [Next]_vars
  PROVE  Keyed'
<1> SUFFICES ASSUME Orderly' PROVE Keyed' BY DEF Keyed
<1>1. faults = 0 /\ ((\E j \in Jobs : Turn(j)) \/ Sweeps \/ Reaps \/ Waits)
  BY Turns DEF Orderly
<1>2. ASSUME NEW k \in Jobs, Turn(k) PROVE Keyed'
  <2>1. Orderly BY <1>1, <1>2, OneTurns DEF Orderly
  <2>2. Calm /\ Separate /\ FirstKey /\ Moved /\ AllFit BY <2>1, OrderlyIsCalm DEF Keyed
  <2> QED BY <1>2, <2>2, SeparateStep, FirstKeyStep, MovedStep, AllFitStep DEF Keyed
<1>3. CASE Sweeps \/ Reaps \/ Waits
  <2>1. UNCHANGED <<job, keys>> /\ odd \subseteq odd' BY <1>3 DEF Sweeps, Reaps, Waits, Still
  <2>2. \A d \in Ids : reg'[d] = reg[d] \/ reg'[d] = None BY <1>3 DEF Sweeps, Reaps, Waits, Still
  <2>3. Separate /\ FirstKey /\ Moved /\ AllFit BY <1>1, <2>1 DEF Orderly, Keyed
  <2>4. Separate' BY <2>1, <2>3 DEF Separate
  <2>5. FirstKey'
    <3>1. \A i \in Jobs : job[i].pc = "key" => job[i].db \in Ids BY DEF Typed, Wf
    <3> QED BY <2>1, <2>2, <2>3, <3>1 DEF FirstKey
  <2>6. Moved'
    <3>1. \A j \in Jobs : job[j].pc = "rekey" => job[j].db \in Anons BY DEF Typed, Wf
    <3> QED BY <2>1, <2>2, <2>3, <3>1, NoneApart DEF Moved
  <2>7. AllFit' BY <2>1, <2>2, <2>3 DEF AllFit, KeyFits
  <2> QED BY <2>4, <2>5, <2>6, <2>7 DEF Keyed
<1> QED BY <1>1, <1>2, <1>3

LEMMA OwnersInit == Init => Named /\ Serving /\ Keyed
<1> SUFFICES ASSUME Init PROVE Named /\ Serving /\ Keyed OBVIOUS
<1>1. \A j \in Jobs : job[j].pc = "idle" /\ job[j].todo = {} /\ job[j].does = "none"
  BY DEF Init, Fresh
<1>2. \A d \in Ids : reg[d] # None => Serves(d, reg[d]) /\ keys[d] = {reg[d]}
  BY DEF Init, Serves
<1>3. Named BY <1>1 DEF Named
<1>4. Serving BY <1>1, <1>2 DEF Serving
<1>5. Separate /\ FirstKey /\ Moved BY <1>1 DEF Separate, FirstKey, Moved
<1>6. AllFit BY <1>2 DEF AllFit, KeyFits
<1> QED BY <1>3, <1>4, <1>5, <1>6 DEF Keyed

\* At rest every owner can query every database, and holds every key to it, whatever
\* creations, adoptions, queries, deletions and sweeps have interleaved, as long as
\* nothing failed and none of the overlaps the property names has happened.
THEOREM OwnersServed == Spec => []OwnersAreServed
<1> DEFINE IInv == /\ Typed /\ Bound /\ Does /\ Alone /\ Leaving /\ Paired /\ Counted
                   /\ Named /\ Serving /\ Keyed
<1>1. Init => IInv
  BY TypeInit, AgreeInit, OwnersInit DEF Init, Bound, Fresh
<1>2. IInv /\ [Next]_vars => IInv'
  BY TypeStep, BoundStep, DoesStep, AloneStep, LeavingStep, CountedStep,
     NamedStep, ServingStep, KeyedStep
<1>3. IInv => OwnersAreServed
  <2> SUFFICES ASSUME IInv, Quiet, faults = 0, NEW d \in Ids, reg[d] # None
               PROVE  /\ odd \subseteq {"overlap"} =>
                           reg[d] \in roles /\ reg[d] \in grants[d] /\ policy[d] = reg[d]
                      /\ odd \subseteq {"straddle"} => keys[d] \subseteq {reg[d]}
    BY DEF OwnersAreServed
  <2>1. \A j \in Jobs : job[j].pc \notin {"unregister", "rekey", "retarget"} BY DEF Quiet, Active
  <2>2. ~Coming(d) BY <2>1 DEF Coming
  <2>3. odd \subseteq {"overlap"} => Serves(d, reg[d]) BY <2>2 DEF Serving, Smooth
  <2>4. odd \subseteq {"straddle"} => \A t \in keys[d] : t = reg[d]
    BY <2>1 DEF Keyed, Orderly, AllFit, KeyFits
  <2> QED BY <2>3, <2>4 DEF Serves
<1> HIDE DEF IInv
<1> QED BY <1>1, <1>2, <1>3, PTL DEF Spec
=============================================================================
