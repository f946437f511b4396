---------------------------- MODULE SchemaWiden ----------------------------
(***************************************************************************)
(* Widen-on-write of ONE hosted database.  Its shape lives twice: in the   *)
(* Postgres catalog, and in D1 (databases.schema_text and its fingerprint  *)
(* schema_hash), which the planner and the pre-flight check read.  Two     *)
(* paths widen it: an approved INSERT of /v1/ask that meets an unseen      *)
(* table or column (ask/orchestrate.ts Defense B, ask/extend.ts), and the  *)
(* structured insert (insert/orchestrate.ts).  Both commit the DDL and the *)
(* row in one Postgres transaction, then write D1: a compare-and-swap of   *)
(* the schema and a ledger row for each change.                            *)
(*                                                                         *)
(* A shape is a set of elements, each a table or a column of a table.  The *)
(* schema only ever grows, so its fingerprint is abstracted to itself.     *)
(*                                                                         *)
(* An operator that no other uses, standing before the one it varies, is   *)
(* that one with a plausible bug in it.                                    *)
(***************************************************************************)
EXTENDS Integers, FiniteSets

CONSTANTS
  Writers,      \* ids of the write requests
  Elements,     \* tables and columns
  TableOf,      \* the table of an element, itself for a table
  MaxAttempts,  \* the two transactions of insert's write()
  MaxPasses,    \* the re-runs without refused rows of orchestrateInsert
  MaxInFlight,  \* bound on writers in flight at once
  MaxFaults     \* bound on failed D1 writes, lost answers and dead isolates

ASSUME ElementsAssumption ==
  TableOf \in [Elements -> Elements] /\ \A e \in Elements : TableOf[TableOf[e]] = TableOf[e]
ASSUME BoundsAssumption ==
  /\ MaxAttempts \in Nat \ {0} /\ MaxPasses \in Nat
  /\ MaxInFlight \in Nat \ {0} /\ MaxFaults \in Nat

VARIABLES
  catalog,   \* the tables and columns in Postgres
  text,      \* databases.schema_text, and with it schema_hash
  ledger,    \* dba_changes: how often each element was recorded
  landed,    \* the writers whose row Postgres holds
  wr,        \* the writers
  overlap,   \* history: two writers have been in flight together
  faults     \* faults so far

vars == <<catalog, text, ledger, landed, wr, overlap, faults>>

Closed(S) == \A e \in S : TableOf[e] \in S

Fresh(l) == [pc |-> l, path |-> "ask", need |-> {}, obs |-> {}, plan |-> {}, todo |-> {},
             attempt |-> 1, pass |-> 0]

InFlight == {w \in Writers : wr[w].pc \notin {"idle", "landed", "refused", "raced", "dead"}}
Goto(w, l) == wr' = [wr EXCEPT ![w].pc = l]

\* The request is answered; of its locals only what its row brought in counts on.
End(w, l) ==
  wr' = [wr EXCEPT ![w] = [Fresh(l) EXCEPT !.need = wr[w].need, !.plan = wr[w].plan]]
Give(w, l) == wr' = [wr EXCEPT ![w] = Fresh(l)]
Fault == faults < MaxFaults /\ faults' = faults + 1

Init ==
  /\ catalog = {} /\ text = {} /\ landed = {}
  /\ ledger = [e \in Elements |-> 0]
  /\ wr = [w \in Writers |-> Fresh("idle")]
  /\ overlap = FALSE
  /\ faults = 0

---------------------------------------------------------------------------
(* A write arrives and resolveDb reads the D1 row.                          *)

Resolve(w) ==
  /\ wr[w].pc = "idle"
  /\ Cardinality(InFlight) < MaxInFlight
  /\ \E path \in {"ask", "insert"}, need \in SUBSET Elements :
       /\ need # {} /\ Closed(need)
       /\ wr' = [wr EXCEPT ![w] =
            [Fresh(IF path = "ask" THEN "exec" ELSE "observe") EXCEPT
               !.path = path, !.need = need, !.obs = text]]
  /\ overlap' = (overlap \/ InFlight # {})
  /\ UNCHANGED <<catalog, text, ledger, landed, faults>>

\* rate_limited, invalid_body, a BYO database; a statement timeout; values the
\* columns refuse on the ask path; a widen plan that will not compile.
Refuse(w) ==
  /\ wr[w].pc \in {"exec", "design", "observe", "tx"}
  /\ Give(w, "refused")
  /\ UNCHANGED <<catalog, text, ledger, landed, overlap, faults>>

---------------------------------------------------------------------------
(* The ask path: the approved INSERT as planned, then the absorb.           *)

Exec(w) ==
  /\ wr[w].pc = "exec"
  /\ IF wr[w].need \subseteq catalog
       THEN End(w, "landed") /\ landed' = landed \cup {w}
       ELSE Goto(w, "design") /\ UNCHANGED landed
  /\ UNCHANGED <<catalog, text, ledger, overlap, faults>>

\* extendSchema: the model designs the widen from the schema D1 had, and
\* nothing ties its plan to what the write needs or to what Postgres has.
Design(w) ==
  /\ wr[w].pc = "design"
  /\ \E P \in SUBSET (Elements \ wr[w].obs) :
       P # {} /\ wr' = [wr EXCEPT ![w].plan = P, ![w].pc = "tx"]
  /\ UNCHANGED <<catalog, text, ledger, landed, overlap, faults>>

---------------------------------------------------------------------------
(* The insert path: the catalog as it is, and a plan from the rows alone.   *)

Observe(w) ==
  /\ wr[w].pc = "observe"
  /\ wr' = [wr EXCEPT ![w].plan = wr[w].need \ catalog, ![w].pc = "tx"]
  /\ UNCHANGED <<catalog, text, ledger, landed, overlap, faults>>

---------------------------------------------------------------------------
(* The transaction: all the DDL, then the row, or nothing.                  *)

Duplicate(w) == wr[w].plan \cap catalog # {}
Complete(w) == wr[w].need \subseteq catalog \cup wr[w].plan /\ Closed(catalog \cup wr[w].plan)

AfterCommit(w) ==
  IF wr[w].plan = {} THEN End(w, "landed")
                     ELSE wr' = [wr EXCEPT ![w].pc = "after", ![w].todo = {"ledger", "swap"}]

Commit(w) ==
  /\ wr[w].pc = "tx"
  /\ ~Duplicate(w) /\ Complete(w)
  /\ catalog' = catalog \cup wr[w].plan
  /\ landed' = landed \cup {w}
  /\ AfterCommit(w)
  /\ UNCHANGED <<text, ledger, overlap, faults>>

\* A concurrent widen came first (42P07, 42701), or the plan does not fit.
\* Only insert observes and plans again, once.
AbortUnnoticed(w) ==
  /\ wr[w].pc = "tx"
  /\ Duplicate(w) \/ ~Complete(w)
  /\ IF wr[w].path = "insert" /\ wr[w].attempt < MaxAttempts
       THEN wr' = [wr EXCEPT ![w].attempt = @ + 1, ![w].pc = "observe"]
       ELSE AfterCommit(w)
  /\ UNCHANGED <<catalog, text, ledger, landed, overlap, faults>>
Abort(w) ==
  /\ wr[w].pc = "tx"
  /\ Duplicate(w) \/ ~Complete(w)
  /\ IF wr[w].path = "insert" /\ wr[w].attempt < MaxAttempts
       THEN wr' = [wr EXCEPT ![w].attempt = @ + 1, ![w].pc = "observe"]
       ELSE Give(w, IF wr[w].path = "insert" THEN "raced" ELSE "refused")
  /\ UNCHANGED <<catalog, text, ledger, landed, overlap, faults>>

\* Values or a unique key the batch refuses roll it back; the probe names the
\* rows, and insert runs again, from a new observation, on those that remain.
Rerun(w, passes) ==
  /\ wr[w].pc = "tx" /\ wr[w].path = "insert"
  /\ ~Duplicate(w) /\ Complete(w)
  /\ wr[w].pass \in passes
  /\ \E rest \in SUBSET wr[w].need :
       /\ rest # {} /\ Closed(rest)
       /\ wr' = [wr EXCEPT ![w].need = rest, ![w].plan = {}, ![w].attempt = 1,
                           ![w].pass = @ + 1, ![w].pc = "observe"]

RowsRefusedAfterDdl(w) ==
  /\ Rerun(w, 0..(MaxPasses - 1))
  /\ catalog' = catalog \cup wr[w].plan
  /\ UNCHANGED <<text, ledger, landed, overlap, faults>>
RowsRefusedOnceMore(w) ==
  Rerun(w, 0..MaxPasses) /\ UNCHANGED <<catalog, text, ledger, landed, overlap, faults>>
RowsRefused(w) ==
  Rerun(w, 0..(MaxPasses - 1)) /\ UNCHANGED <<catalog, text, ledger, landed, overlap, faults>>

\* It commits and the answer is lost: the caller takes it for a failure.
CommitAnswerLost(w) ==
  /\ Fault
  /\ wr[w].pc = "tx"
  /\ ~Duplicate(w) /\ Complete(w)
  /\ catalog' = catalog \cup wr[w].plan
  /\ landed' = landed \cup {w}
  /\ End(w, "refused")
  /\ UNCHANGED <<text, ledger, overlap>>

---------------------------------------------------------------------------
(* After the commit: recordDbaChanges is started, the compare-and-swap runs *)
(* beside it, and both are waited for.                                      *)

Did(w, job) ==
  LET rest == wr[w].todo \ {job}
  IN  IF rest = {} THEN End(w, "landed") ELSE wr' = [wr EXCEPT ![w].todo = rest]

RecordNeeded(w) ==
  /\ "ledger" \in wr[w].todo /\ wr[w].pc = "after"
  /\ ledger' = [e \in Elements |-> IF e \in wr[w].need THEN ledger[e] + 1 ELSE ledger[e]]
  /\ Did(w, "ledger")
  /\ UNCHANGED <<catalog, text, landed, overlap, faults>>
Record(w) ==
  /\ "ledger" \in wr[w].todo /\ wr[w].pc = "after"
  /\ ledger' = [e \in Elements |-> IF e \in wr[w].plan THEN ledger[e] + 1 ELSE ledger[e]]
  /\ Did(w, "ledger")
  /\ UNCHANGED <<catalog, text, landed, overlap, faults>>

\* rewriteWidenedSchema: only while the row still has the hash this request
\* resolved.  A lost swap is reported in the response, and that is all.
SwapBlindly(w) ==
  /\ "swap" \in wr[w].todo /\ wr[w].pc = "after"
  /\ text' = wr[w].obs \cup wr[w].plan
  /\ Did(w, "swap")
  /\ UNCHANGED <<catalog, ledger, landed, overlap, faults>>
Swap(w) ==
  /\ "swap" \in wr[w].todo /\ wr[w].pc = "after"
  /\ text' = IF text = wr[w].obs THEN wr[w].obs \cup wr[w].plan ELSE text
  /\ Did(w, "swap")
  /\ UNCHANGED <<catalog, ledger, landed, overlap, faults>>

\* Both D1 writes are best-effort.
D1Fails(w) ==
  /\ Fault
  /\ wr[w].pc = "after"
  /\ \E job \in wr[w].todo : Did(w, job)
  /\ UNCHANGED <<catalog, text, ledger, landed, overlap>>

Die(w) ==
  /\ Fault
  /\ w \in InFlight
  /\ IF w \in landed THEN End(w, "dead") ELSE Give(w, "dead")
  /\ UNCHANGED <<catalog, text, ledger, landed, overlap>>

---------------------------------------------------------------------------
Step(w) ==
  \/ Resolve(w) \/ Refuse(w) \/ Exec(w) \/ Design(w) \/ Observe(w)
  \/ Commit(w) \/ Abort(w) \/ RowsRefused(w) \/ Record(w) \/ Swap(w)

Fail(w) == CommitAnswerLost(w) \/ D1Fails(w) \/ Die(w)

Next == \E w \in Writers : Step(w) \/ Fail(w)

Spec == Init /\ [][Next]_vars

---------------------------------------------------------------------------
Pcs == {"idle", "exec", "design", "observe", "tx", "after", "landed", "refused", "raced", "dead"}

Writer == [pc : Pcs, path : {"ask", "insert"}, need : SUBSET Elements, obs : SUBSET Elements,
           plan : SUBSET Elements, todo : SUBSET {"ledger", "swap"}, attempt : 1..MaxAttempts,
           pass : 0..MaxPasses]

TypeOK ==
  /\ catalog \subseteq Elements /\ text \subseteq Elements
  /\ ledger \in [Elements -> Nat]
  /\ landed \subseteq Writers
  /\ wr \in [Writers -> Writer]
  /\ overlap \in BOOLEAN
  /\ faults \in 0..MaxFaults

\* D1 never describes a table or a column that Postgres does not have, so a
\* statement planned and cached under its hash can run (SK-SCHEMA-011).
TextNeverAhead == text \subseteq catalog

\* A schema, once in D1, loses nothing to a concurrent widen that started from
\* an older one: the compare-and-swap admits no lost update (db-registry.ts).
TextOnlyGrows == [][text \subseteq text']_vars

\* The catalog holds exactly what landed rows brought in: every row finds its
\* columns, and no element was widened for a write that did not land
\* (SK-SCHEMA-008), though it was tried, raced, or re-run without bad rows.
WidenedOnlyForLandedRows ==
  /\ \A w \in landed : wr[w].need \subseteq catalog
  /\ catalog = UNION {wr[w].plan : w \in landed}

\* When nothing has failed and nothing is in flight, D1 tells the truth: the
\* ledger has every element of the catalog once and no other (recordDbaChanges),
\* and after widens that never overlapped the schema text is the catalog.
QuietStoresAgree ==
  faults = 0 /\ InFlight = {} =>
    /\ \A e \in Elements : ledger[e] = IF e \in catalog THEN 1 ELSE 0
    /\ ~overlap => text = catalog

\* db-registry.ts, of a swap that found the hash moved: "the caller re-reads and
\* re-observes", and so, at rest and without failures, D1 has what every landed
\* row brought in.
LostSwapsAreMadeUp ==
  faults = 0 /\ InFlight = {} => text = catalog
===========================================================================
