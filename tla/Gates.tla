-------------------------------- MODULE Gates --------------------------------
(***************************************************************************)
(* What stands before the work of a request: the caps of anonymous asks,   *)
(* the throttle of magic-link mails, the account bucket, and the replay of *)
(* a keyed create.  All but the bucket are read from KV and written back   *)
(* by a second call; the bucket is one statement of D1.  KV is external    *)
(* and modelled as one copy: get, put and expiry, no compare-and-swap.     *)
(*                                                                         *)
(* An operator that no other uses, standing before the one it varies, is   *)
(* that one with a plausible bug in it.                                    *)
(***************************************************************************)
EXTENDS Integers, FiniteSets

CONSTANTS
  Requests,
  Devices,     \* anonymous principals; they share an address
  Emails,
  Keys,        \* Idempotency-Keys of one account
  Limit,       \* the limit of each counter
  MaxFaults,   \* bound on failed KV calls and dead isolates
  None

\* The global cap (one window stands for hour, day and month), the address's
\* query bucket, the account's bucket, and a counter per device and email.
Counters == {"global", "query", "account"} \cup Devices \cup Emails

ASSUME LimitAssumption == Limit \in [Counters -> Nat \ {0}]
ASSUME MaxFaultsAssumption == MaxFaults \in Nat
ASSUME NamesAssumption ==
  /\ Devices \cap Emails = {} /\ {"global", "query", "account"} \cap (Devices \cup Emails) = {}
  /\ None \notin Devices \cup Emails \cup Keys \cup Requests

VARIABLES
  count,    \* the counters
  stored,   \* the replay of each key: the request that minted, or None
  req,      \* the requests
  used,     \* history: what each counter stands for, in its window
  raced,    \* history: counters read between another's read and write, or
            \* expired in between
  made,     \* history: the devices that have had their create
  minted,   \* history: how often each key has minted
  crossed,  \* history: keys looked up while a request or its store was out
  faults

hist == <<used, raced, made, minted, crossed>>
vars == <<count, stored, req, hist, faults>>

\* pc is the next call, for the device, email or key in `of`; `seen` is the count
\* read last, `bg` the work left to waitUntil, and `had` what it read.
Idle == [pc |-> "idle", of |-> None, seen |-> 0, bg |-> "none", had |-> 0]

Init ==
  /\ count = [k \in Counters |-> 0]
  /\ stored = [k \in Keys |-> None]
  /\ req = [r \in Requests |-> Idle]
  /\ used = count
  /\ minted = [k \in Keys |-> 0]
  /\ raced = {} /\ made = {} /\ crossed = {}
  /\ faults = 0

Fault == faults < MaxFaults /\ faults' = faults + 1
Goto(r, l) == req' = [req EXCEPT ![r].pc = l]
Read(r, l, k) == req' = [req EXCEPT ![r].pc = l, ![r].seen = count[k]]
Use(k, n) == used' = [used EXCEPT ![k] = @ + n]

\* r has read k and may still write what follows from it.
Between(r, k) ==
  LET q == req[r]
  IN  \/ k = "global" /\ (q.pc \in {"query", "queried", "device"} \/ q.bg \in {"get", "put"})
      \/ k = "query" /\ q.pc = "queried"
      \/ k = q.of /\ q.pc \in {"serve", "record", "recorded", "consumed", "undone"}
\* r is counted in k and may be given back.
Counted(r, k) == k = req[r].of /\ req[r].pc \in {"send", "undo"}
Race(r, k) == raced' = IF \E q \in Requests \ {r} : Between(q, k) THEN raced \cup {k} ELSE raced

---------------------------------------------------------------------------
(* An anonymous ask that creates: the global peek, the address's bucket,    *)
(* the device's peek, and the device's record once it has been served.      *)

AskAnon(r) ==
  /\ req[r].pc = "idle"
  /\ \E d \in Devices : req' = [req EXCEPT ![r] = [Idle EXCEPT !.pc = "global", !.of = d]]
  /\ UNCHANGED <<count, stored, hist, faults>>

PeekGlobal(r) ==
  /\ req[r].pc = "global"
  /\ IF count["global"] >= Limit["global"] THEN Goto(r, "done") ELSE Goto(r, "query")
  /\ Race(r, "global")
  /\ UNCHANGED <<count, stored, used, made, minted, crossed, faults>>

CheckQueryOnceMore(r) ==
  /\ req[r].pc = "query"
  /\ IF count["query"] > Limit["query"] THEN Goto(r, "done") ELSE Read(r, "queried", "query")
  /\ Race(r, "query")
  /\ UNCHANGED <<count, stored, used, made, minted, crossed, faults>>
CheckQuery(r) ==
  /\ req[r].pc = "query"
  /\ IF count["query"] >= Limit["query"] THEN Goto(r, "done") ELSE Read(r, "queried", "query")
  /\ Race(r, "query")
  /\ UNCHANGED <<count, stored, used, made, minted, crossed, faults>>
CountQuery(r) ==
  /\ req[r].pc = "queried"
  /\ count' = [count EXCEPT !["query"] = req[r].seen + 1]
  /\ Use("query", 1)
  /\ Goto(r, "device")
  /\ UNCHANGED <<stored, raced, made, minted, crossed, faults>>

\* Both caps are clear: the global counter is recorded beside the work.
PeekDevice(r) ==
  /\ req[r].pc = "device"
  /\ IF count[req[r].of] >= Limit[req[r].of]
       THEN Goto(r, "done") /\ UNCHANGED used
       ELSE /\ req' = [req EXCEPT ![r].pc = "serve", ![r].bg = "get"]
            /\ Use("global", 1)
  /\ Race(r, req[r].of)
  /\ UNCHANGED <<count, stored, made, minted, crossed, faults>>

RecordGlobalRead(r) ==
  /\ req[r].bg = "get"
  /\ req' = [req EXCEPT ![r].bg = "put", ![r].had = count["global"]]
  /\ UNCHANGED <<count, stored, hist, faults>>
RecordGlobal(r) ==
  /\ req[r].bg = "put"
  /\ count' = [count EXCEPT !["global"] = req[r].had + 1]
  /\ req' = [req EXCEPT ![r].bg = "none"]
  /\ UNCHANGED <<stored, hist, faults>>

\* The challenge or the create fails, and costs the device nothing.
ServeFailsButCounts(r) ==
  /\ req[r].pc = "serve"
  /\ Goto(r, "record")
  /\ UNCHANGED <<count, stored, hist, faults>>
ServeFails(r) ==
  /\ req[r].pc = "serve"
  /\ Goto(r, "done")
  /\ UNCHANGED <<count, stored, hist, faults>>
Serve(r) ==
  /\ req[r].pc = "serve"
  /\ Goto(r, "record")
  /\ Use(req[r].of, 1)
  /\ made' = made \cup {req[r].of}
  /\ UNCHANGED <<count, stored, raced, minted, crossed, faults>>
RecordDeviceRead(r) ==
  /\ req[r].pc = "record"
  /\ Read(r, "recorded", req[r].of)
  /\ UNCHANGED <<count, stored, hist, faults>>
RecordDevice(r) ==
  /\ req[r].pc = "recorded"
  /\ count' = [count EXCEPT ![req[r].of] = req[r].seen + 1]
  /\ Goto(r, "done")
  /\ UNCHANGED <<stored, hist, faults>>

---------------------------------------------------------------------------
(* A magic link: tryConsume, the mail, and rollback when it fails.          *)

AskMail(r) ==
  /\ req[r].pc = "idle"
  /\ \E e \in Emails : req' = [req EXCEPT ![r] = [Idle EXCEPT !.pc = "consume", !.of = e]]
  /\ UNCHANGED <<count, stored, hist, faults>>

TryConsumeUndoesRefusals(r) ==
  /\ req[r].pc = "consume"
  /\ IF count[req[r].of] >= Limit[req[r].of] THEN Goto(r, "undo") ELSE Read(r, "consumed", req[r].of)
  /\ Race(r, req[r].of)
  /\ UNCHANGED <<count, stored, used, made, minted, crossed, faults>>
TryConsume(r) ==
  /\ req[r].pc = "consume"
  /\ IF count[req[r].of] >= Limit[req[r].of] THEN Goto(r, "done") ELSE Read(r, "consumed", req[r].of)
  /\ Race(r, req[r].of)
  /\ UNCHANGED <<count, stored, used, made, minted, crossed, faults>>
Consume(r) ==
  /\ req[r].pc = "consumed"
  /\ count' = [count EXCEPT ![req[r].of] = req[r].seen + 1]
  /\ Use(req[r].of, 1)
  /\ Goto(r, "send")
  /\ UNCHANGED <<stored, raced, made, minted, crossed, faults>>
\* Neither a failed get nor a failed put stops the mail.
FailOpen(r) ==
  /\ Fault
  /\ req[r].pc \in {"consume", "consumed"}
  /\ Use(req[r].of, 1)
  /\ Goto(r, "send")
  /\ UNCHANGED <<count, stored, raced, made, minted, crossed>>

Send(r) ==
  /\ req[r].pc = "send"
  /\ Goto(r, "done")
  /\ UNCHANGED <<count, stored, hist, faults>>
SendFails(r) ==
  /\ req[r].pc = "send"
  /\ Goto(r, "undo")
  /\ Use(req[r].of, -1)
  /\ UNCHANGED <<count, stored, raced, made, minted, crossed, faults>>
RollbackRead(r) ==
  /\ req[r].pc = "undo"
  /\ IF count[req[r].of] <= 0 THEN Goto(r, "done") ELSE Read(r, "undone", req[r].of)
  /\ Race(r, req[r].of)
  /\ UNCHANGED <<count, stored, used, made, minted, crossed, faults>>
Rollback(r) ==
  /\ req[r].pc = "undone"
  /\ count' = [count EXCEPT ![req[r].of] = req[r].seen - 1]
  /\ Goto(r, "done")
  /\ UNCHANGED <<stored, hist, faults>>

---------------------------------------------------------------------------
(* A create with an Idempotency-Key: the replay, the account's bucket, the  *)
(* work, and the store that waitUntil keeps after the answer.               *)

AskKeyed(r) ==
  /\ req[r].pc = "idle"
  /\ \E k \in Keys : req' = [req EXCEPT ![r] = [Idle EXCEPT !.pc = "lookup", !.of = k]]
  /\ UNCHANGED <<count, stored, hist, faults>>

Out(r, k) == req[r].of = k /\ (req[r].pc \in {"bucket", "mint"} \/ req[r].bg = "store")

IdempotencyLookup(r) ==
  /\ req[r].pc = "lookup"
  /\ Goto(r, IF stored[req[r].of] # None THEN "done" ELSE "bucket")
  /\ crossed' = IF \E q \in Requests : Out(q, req[r].of) THEN crossed \cup {req[r].of} ELSE crossed
  /\ UNCHANGED <<count, stored, used, raced, made, minted, faults>>

\* Over the limit it still counts.
CheckAccount(r) ==
  /\ req[r].pc = "bucket"
  /\ count' = [count EXCEPT !["account"] = @ + 1]
  /\ IF count["account"] + 1 <= Limit["account"]
       THEN Goto(r, "mint") /\ Use("account", 1)
       ELSE Goto(r, "done") /\ UNCHANGED used
  /\ UNCHANGED <<stored, raced, made, minted, crossed, faults>>

MintFails(r) ==
  /\ req[r].pc = "mint"
  /\ Goto(r, "done")
  /\ UNCHANGED <<count, stored, hist, faults>>
MintUnstored(r) ==
  /\ req[r].pc = "mint"
  /\ minted' = [minted EXCEPT ![req[r].of] = @ + 1]
  /\ Goto(r, "done")
  /\ UNCHANGED <<count, stored, used, raced, made, crossed, faults>>
Mint(r) ==
  /\ req[r].pc = "mint"
  /\ minted' = [minted EXCEPT ![req[r].of] = @ + 1]
  /\ req' = [req EXCEPT ![r].pc = "done", ![r].bg = "store"]
  /\ UNCHANGED <<count, stored, used, raced, made, crossed, faults>>
IdempotencyStore(r) ==
  /\ req[r].bg = "store"
  /\ stored' = [stored EXCEPT ![req[r].of] = r]
  /\ req' = [req EXCEPT ![r].bg = "none"]
  /\ UNCHANGED <<count, hist, faults>>

---------------------------------------------------------------------------
\* A call of the request throws and is not caught, or its isolate dies; or only
\* the call that waitUntil keeps.
Break(r) ==
  /\ Fault
  /\ req[r].pc \notin {"idle", "done"} \/ req[r].bg # "none"
  /\ \/ req' = [req EXCEPT ![r].pc = "done", ![r].bg = "none"]
     \/ req[r].bg # "none" /\ req' = [req EXCEPT ![r].bg = "none"]
  /\ UNCHANGED <<count, stored, hist>>

\* The window of a counter, or of a replay, is over.  The global counter has its
\* window in its key: a record under way goes to the old one.
Expire(k) ==
  /\ count[k] > 0
  /\ req' = [r \in Requests |->
       IF k = "global" /\ req[r].bg \in {"get", "put"} THEN [req[r] EXCEPT !.bg = "none"] ELSE req[r]]
  /\ count' = [count EXCEPT ![k] = 0]
  /\ used' = [used EXCEPT ![k] = 0]
  /\ raced' = IF \E r \in Requests : Between(r, k) \/ Counted(r, k) THEN raced \cup {k} ELSE raced \ {k}
  /\ UNCHANGED <<stored, made, minted, crossed, faults>>
ExpireReplay(k) ==
  /\ stored[k] # None
  /\ stored' = [stored EXCEPT ![k] = None]
  /\ minted' = [minted EXCEPT ![k] = 0]
  /\ UNCHANGED <<count, req, used, raced, made, crossed, faults>>

Step(r) ==
  \/ AskAnon(r) \/ PeekGlobal(r) \/ CheckQuery(r) \/ CountQuery(r) \/ PeekDevice(r)
  \/ RecordGlobalRead(r) \/ RecordGlobal(r) \/ ServeFails(r) \/ Serve(r)
  \/ RecordDeviceRead(r) \/ RecordDevice(r)
  \/ AskMail(r) \/ TryConsume(r) \/ Consume(r) \/ FailOpen(r) \/ Send(r) \/ SendFails(r)
  \/ RollbackRead(r) \/ Rollback(r)
  \/ AskKeyed(r) \/ IdempotencyLookup(r) \/ CheckAccount(r) \/ MintFails(r) \/ Mint(r)
  \/ IdempotencyStore(r)
  \/ Break(r)

Next ==
  \/ \E r \in Requests : Step(r)
  \/ \E k \in Counters : Expire(k)
  \/ \E k \in Keys : ExpireReplay(k)

Spec == Init /\ [][Next]_vars

---------------------------------------------------------------------------
(* Properties                                                               *)

TypeOK ==
  /\ count \in [Counters -> Nat] /\ used \in [Counters -> Int]
  /\ \A k \in {"query"} \cup Emails : count[k] <= Limit[k]
  /\ stored \in [Keys -> Requests \cup {None}]
  /\ req \in [Requests -> [pc : {"idle", "global", "query", "queried", "device", "serve",
                                 "record", "recorded", "consume", "consumed", "send", "undo",
                                 "undone", "lookup", "bucket", "mint", "done"},
                           of : Devices \cup Emails \cup Keys \cup {None},
                           seen : Nat, bg : {"none", "get", "put", "store"}, had : Nat]]
  /\ raced \subseteq Counters /\ made \subseteq Devices
  /\ minted \in [Keys -> Nat] /\ crossed \subseteq Keys
  /\ faults \in 0..MaxFaults

\* Where no two requests have met between a read and its write, a counter is
\* what it stands for, through failures, rollbacks and expiry, and its cap holds;
\* the account's bucket needs no such condition.
CapsHoldUnlessRaced ==
  faults = 0 => \A k \in Counters \ raced :
    /\ used[k] <= Limit[k]
    /\ k # "account" /\ (\A r \in Requests : ~Between(r, k) /\ ~Counted(r, k)) => count[k] = used[k]

\* However requests race, fail or die, a device is refused only after it has had
\* its create: a failed first ask costs it nothing.
NobodyIsLockedOut == \A d \in Devices : count[d] > 0 => d \in made

\* One key mints once within the replay's window, and once more for each failure
\* after the mint, unless it is sent again before the first request and its
\* background store are through.
KeyMintsOnce == \A k \in Keys \ crossed : minted[k] <= 1 + faults
=============================================================================
