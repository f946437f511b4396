---------------------------- MODULE GatesProofs ----------------------------
(***************************************************************************)
(* For any number of requests, devices, emails and keys, and any limits:   *)
(* no device is refused its first create, a key mints once unless it is    *)
(* sent again too early or a call fails, and, while nothing fails, the     *)
(* caps hold that no two requests raced.                                   *)
(***************************************************************************)
EXTENDS Gates, FiniteSetTheorems, TLAPS

Anon == {"global", "query", "queried", "device", "serve", "record", "recorded"}
Mail == {"consume", "consumed", "send", "undo", "undone"}
Keyed == {"lookup", "bucket", "mint"}

Request == [pc : {"idle", "done"} \cup Anon \cup Mail \cup Keyed,
            of : Devices \cup Emails \cup Keys \cup {None},
            seen : Nat, bg : {"none", "get", "put", "store"}, had : Nat]

\* What a request's place in the code says of it.
Wf(q) ==
  /\ q.pc \in Anon => q.of \in Devices
  /\ q.pc \in Mail => q.of \in Emails
  /\ q.pc \in Keyed => q.of \in Keys
  /\ q.pc \in {"idle"} \cup Keyed => q.bg = "none"
  /\ q.bg = "store" => q.pc = "done" /\ q.of \in Keys
  /\ q.pc = "queried" => q.seen < Limit["query"]
  /\ q.pc = "consumed" => q.seen < Limit[q.of]
  /\ q.pc = "undone" => 0 < q.seen /\ q.seen <= Limit[q.of]

Typed == TypeOK /\ \A r \in Requests : Wf(req[r])

Good == req' \in [Requests -> Request] /\ \A r \in Requests : Wf(req'[r])

LEMMA Put ==
  ASSUME Typed, NEW r \in Requests, NEW q \in Request, Wf(q), req' = [req EXCEPT ![r] = q]
  PROVE  Good
<1>1. req \in [Requests -> Request] BY DEF Typed, TypeOK, Request, Anon, Mail, Keyed
<1> QED BY <1>1 DEF Good, Typed

LEMMA Limits ==
  ASSUME Typed
  PROVE  /\ \A k \in Counters : Limit[k] \in Nat \ {0} /\ count[k] \in Nat
         /\ \A k \in {"query"} \cup Emails : k \in Counters /\ count[k] <= Limit[k]
  BY LimitAssumption DEF Typed, TypeOK, Counters

LEMMA StartGood ==
  ASSUME Typed, NEW r \in Requests, AskAnon(r) \/ AskMail(r) \/ AskKeyed(r)
  PROVE  Good
<1>1. ASSUME NEW l, NEW x, \/ l = "global" /\ x \in Devices
                           \/ l = "consume" /\ x \in Emails
                           \/ l = "lookup" /\ x \in Keys,
             req' = [req EXCEPT ![r] = [Idle EXCEPT !.pc = l, !.of = x]]
      PROVE  Good
  <2> DEFINE q == [Idle EXCEPT !.pc = l, !.of = x]
  <2>1. q \in Request /\ Wf(q) BY <1>1 DEF Idle, Request, Wf, Anon, Mail, Keyed
  <2> HIDE DEF q
  <2> QED BY <1>1, <2>1, Put DEF q
<1> QED BY <1>1 DEF AskAnon, AskMail, AskKeyed

LEMMA GotoGood ==
  ASSUME Typed, NEW r \in Requests, NEW l, Goto(r, l),
         \/ l = "done" /\ req[r].bg # "store"
         \/ l = "query" /\ req[r].pc = "global"
         \/ l = "device" /\ req[r].pc = "queried"
         \/ l = "record" /\ req[r].pc = "serve"
         \/ l = "send" /\ req[r].pc \in {"consume", "consumed"}
         \/ l = "undo" /\ req[r].pc = "send"
         \/ l = "bucket" /\ req[r].pc = "lookup"
         \/ l = "mint" /\ req[r].pc = "bucket"
  PROVE  Good
<1> DEFINE q == [req[r] EXCEPT !.pc = l]
<1>1. req[r] \in Request /\ Wf(req[r])
  BY DEF Typed, TypeOK, Request, Anon, Mail, Keyed
<1>2. /\ q.pc = l /\ q.of = req[r].of /\ q.bg = req[r].bg
      /\ q \in Request
  BY <1>1 DEF Request, Anon, Mail, Keyed
<1>3. req' = [req EXCEPT ![r] = q] BY DEF Goto
<1> HIDE DEF q
<1>4. Wf(q) BY <1>1, <1>2 DEF Wf, Anon, Mail, Keyed
<1> QED BY <1>2, <1>3, <1>4, Put

LEMMA ReadGood ==
  ASSUME Typed, NEW r \in Requests, NEW l, NEW k \in Counters, Read(r, l, k),
         \/ l = "queried" /\ req[r].pc = "query" /\ k = "query" /\ count[k] < Limit[k]
         \/ l = "recorded" /\ req[r].pc = "record" /\ k = req[r].of
         \/ l = "consumed" /\ req[r].pc = "consume" /\ k = req[r].of /\ count[k] < Limit[k]
         \/ l = "undone" /\ req[r].pc = "undo" /\ k = req[r].of /\ 0 < count[k]
  PROVE  Good
<1> DEFINE q == [req[r] EXCEPT !.pc = l, !.seen = count[k]]
<1>1. req[r] \in Request /\ Wf(req[r])
  BY DEF Typed, TypeOK, Request, Anon, Mail, Keyed
<1>2. count[k] \in Nat BY Limits
<1>3. /\ q.pc = l /\ q.of = req[r].of /\ q.bg = req[r].bg /\ q.seen = count[k]
      /\ q \in Request
  BY <1>1, <1>2 DEF Request, Anon, Mail, Keyed
<1>4. req' = [req EXCEPT ![r] = q]
  <2>1. req' = [req EXCEPT ![r].pc = l, ![r].seen = count[k]] BY DEF Read
  <2> QED BY <2>1 DEF Typed, TypeOK
<1> HIDE DEF q
<1>5. l = "undone" => count[k] <= Limit[k]
  <2>1. l = "undone" => k \in Emails BY <1>1 DEF Wf, Mail
  <2> QED BY <2>1, Limits
<1>6. Wf(q) BY <1>1, <1>3, <1>5 DEF Wf, Anon, Mail, Keyed
<1> QED BY <1>3, <1>4, <1>6, Put

\* A step leaves every request in good order.
LEMMA RequestsStep ==
  ASSUME Typed, NEW r \in Requests, Step(r)
  PROVE  Good
<1>r. req[r] \in Request /\ Wf(req[r])
  BY DEF Typed, TypeOK, Request, Anon, Mail, Keyed
<1>b. req[r].pc \notin {"idle", "done"} => req[r].bg # "store" BY <1>r DEF Wf
<1>k. Devices \cup Emails \cup {"query"} \subseteq Counters BY DEF Counters
<1>w. ASSUME NEW q \in Request, Wf(q), req' = [req EXCEPT ![r] = q] PROVE Good BY <1>w, Put
<1>0. CASE AskAnon(r) \/ AskMail(r) \/ AskKeyed(r) BY <1>0, StartGood
<1>1. CASE PeekGlobal(r) \/ CountQuery(r) \/ ServeFails(r) \/ Serve(r)
  BY <1>1, <1>b, GotoGood DEF PeekGlobal, CountQuery, ServeFails, Serve
<1>2. CASE CheckQuery(r)
  <2>1. count["query"] \in Nat /\ Limit["query"] \in Nat BY Limits, <1>k
  <2> QED BY <1>2, <2>1, <1>b, <1>k, GotoGood, ReadGood DEF CheckQuery
<1>3. CASE PeekDevice(r)
  <2>1. CASE Goto(r, "done") BY <1>3, <2>1, <1>b, GotoGood DEF PeekDevice
  <2>2. CASE ~Goto(r, "done")
    <3> DEFINE q == [req[r] EXCEPT !.pc = "serve", !.bg = "get"]
    <3>1. req[r].pc = "device" /\ req' = [req EXCEPT ![r].pc = "serve", ![r].bg = "get"]
      BY <1>3, <2>2 DEF PeekDevice
    <3>2. q \in Request /\ q.pc = "serve" /\ q.bg = "get" /\ q.of = req[r].of
      BY <1>r DEF Request, Anon
    <3>3. req' = [req EXCEPT ![r] = q] BY <3>1 DEF Typed, TypeOK
    <3> HIDE DEF q
    <3>4. Wf(q) BY <1>r, <3>1, <3>2 DEF Wf, Anon, Mail, Keyed
    <3> QED BY <3>2, <3>3, <3>4, <1>w
  <2> QED BY <2>1, <2>2
<1>4. CASE RecordGlobalRead(r) \/ RecordGlobal(r) \/ IdempotencyStore(r)
  <2>1. PICK b \in {"none", "put"}, h \in Nat :
          /\ req[r].bg \in {"get", "put", "store"} /\ (b = "put" => req[r].bg = "get")
          /\ req' = [req EXCEPT ![r] = [req[r] EXCEPT !.bg = b, !.had = h]]
    <3>1. count["global"] \in Nat BY Limits DEF Counters
    <3>2. req[r].had \in Nat BY <1>r DEF Request
    <3>3. CASE RecordGlobalRead(r)
      <4>1. req' = [req EXCEPT ![r] = [req[r] EXCEPT !.bg = "put", !.had = count["global"]]]
        BY <3>3 DEF RecordGlobalRead, Typed, TypeOK
      <4> QED BY <3>1, <3>3, <4>1 DEF RecordGlobalRead
    <3>4. CASE RecordGlobal(r) \/ IdempotencyStore(r)
      <4>1. req' = [req EXCEPT ![r] = [req[r] EXCEPT !.bg = "none"]]
        BY <3>4 DEF RecordGlobal, IdempotencyStore
      <4>2. [req[r] EXCEPT !.bg = "none"] = [req[r] EXCEPT !.bg = "none", !.had = req[r].had]
        BY <1>r DEF Request
      <4> QED BY <3>2, <3>4, <4>1, <4>2 DEF RecordGlobal, IdempotencyStore
    <3> QED BY <1>4, <3>3, <3>4
  <2> DEFINE q == [req[r] EXCEPT !.bg = b, !.had = h]
  <2>2. /\ q \in Request /\ q.pc = req[r].pc /\ q.bg = b /\ q.of = req[r].of
        /\ q.seen = req[r].seen
    BY <1>r DEF Request
  <2>3. req' = [req EXCEPT ![r] = q] BY <2>1
  <2> HIDE DEF q
  <2>4. Wf(q) BY <1>r, <2>1, <2>2 DEF Wf
  <2> QED BY <2>2, <2>3, <2>4, <1>w
<1>5. CASE RecordDeviceRead(r)
  <2>1. req[r].of \in Counters BY <1>5, <1>r, <1>k DEF RecordDeviceRead, Wf, Anon
  <2> QED BY <1>5, <2>1, ReadGood DEF RecordDeviceRead
<1>6. CASE RecordDevice(r) BY <1>6, <1>b, GotoGood DEF RecordDevice
<1>7. CASE TryConsume(r)
  <2>1. req[r].of \in Counters BY <1>7, <1>r, <1>k DEF TryConsume, Wf, Mail
  <2>2. count[req[r].of] \in Nat /\ Limit[req[r].of] \in Nat BY <2>1, Limits
  <2> QED BY <1>7, <1>b, <2>1, <2>2, GotoGood, ReadGood DEF TryConsume
<1>8. CASE Consume(r) \/ FailOpen(r) \/ Send(r) \/ SendFails(r)
  BY <1>8, <1>b, GotoGood DEF Consume, FailOpen, Send, SendFails
<1>9. CASE RollbackRead(r)
  <2>1. req[r].of \in Counters BY <1>9, <1>r, <1>k DEF RollbackRead, Wf, Mail
  <2>2. count[req[r].of] \in Nat BY <2>1, Limits
  <2> QED BY <1>9, <1>b, <2>1, <2>2, GotoGood, ReadGood DEF RollbackRead
<1>10. CASE Rollback(r) BY <1>10, <1>b, GotoGood DEF Rollback
<1>11. CASE IdempotencyLookup(r) BY <1>11, <1>b, GotoGood DEF IdempotencyLookup
<1>12. CASE CheckAccount(r) \/ MintFails(r)
  BY <1>12, <1>b, GotoGood DEF CheckAccount, MintFails
<1>13. CASE Mint(r)
  <2> DEFINE q == [req[r] EXCEPT !.pc = "done", !.bg = "store"]
  <2>1. req[r].pc = "mint" /\ req' = [req EXCEPT ![r].pc = "done", ![r].bg = "store"]
    BY <1>13 DEF Mint
  <2>2. q \in Request /\ q.pc = "done" /\ q.bg = "store" /\ q.of = req[r].of BY <1>r DEF Request
  <2>3. req' = [req EXCEPT ![r] = q] BY <2>1 DEF Typed, TypeOK
  <2> HIDE DEF q
  <2>4. Wf(q) BY <1>r, <2>1, <2>2 DEF Wf, Anon, Mail, Keyed
  <2> QED BY <2>2, <2>3, <2>4, <1>w
<1>14. CASE Break(r)
  <2>1. PICK l \in {"done", req[r].pc} : req' = [req EXCEPT ![r] = [req[r] EXCEPT !.pc = l, !.bg = "none"]]
    <3>1. req[r] = [req[r] EXCEPT !.pc = req[r].pc] BY <1>r DEF Request
    <3>2. [req[r] EXCEPT !.bg = "none"] = [req[r] EXCEPT !.pc = req[r].pc, !.bg = "none"]
      BY <1>r DEF Request
    <3>3. CASE req' = [req EXCEPT ![r].pc = "done", ![r].bg = "none"]
      BY <3>3 DEF Typed, TypeOK
    <3>4. CASE req' = [req EXCEPT ![r].bg = "none"] BY <3>4, <3>2
    <3> QED BY <1>14, <3>3, <3>4 DEF Break
  <2> DEFINE q == [req[r] EXCEPT !.pc = l, !.bg = "none"]
  <2>2. q \in Request /\ q.pc = l /\ q.bg = "none" /\ q.of = req[r].of /\ q.seen = req[r].seen
    BY <1>r DEF Request
  <2>3. req' = [req EXCEPT ![r] = q] BY <2>1
  <2> HIDE DEF q
  <2>4. Wf(q) BY <1>r, <2>2 DEF Wf, Anon, Mail, Keyed
  <2> QED BY <2>2, <2>3, <2>4, <1>w
<1> QED BY <1>0, <1>1, <1>2, <1>3, <1>4, <1>5, <1>6, <1>7, <1>8, <1>9, <1>10, <1>11, <1>12,
           <1>13, <1>14 DEF Step

Counts ==
  /\ count \in [Counters -> Nat] /\ used \in [Counters -> Int]
  /\ \A k \in {"query"} \cup Emails : count[k] <= Limit[k]
Rest ==
  /\ stored \in [Keys -> Requests \cup {None}]
  /\ raced \subseteq Counters /\ made \subseteq Devices
  /\ minted \in [Keys -> Nat] /\ crossed \subseteq Keys
  /\ faults \in 0..MaxFaults

LEMMA NamesApart ==
  /\ {"global", "query", "account"} \cup Devices \cup Emails = Counters
  /\ Devices \cap Emails = {}
  /\ "global" \notin Devices \cup Emails /\ "query" \notin Devices \cup Emails
  /\ "account" \notin Devices \cup Emails
  BY NamesAssumption DEF Counters

\* Where each counter is written, and with what.
LEMMA CountsStep ==
  ASSUME Typed, NEW r \in Requests, Step(r)
  PROVE  Counts'
<1>o. Counts BY DEF Typed, TypeOK, Counts
<1>r. req[r] \in Request /\ Wf(req[r])
  BY DEF Typed, TypeOK, Request, Anon, Mail, Keyed
<1>s. req[r].seen \in Nat /\ req[r].had \in Nat BY <1>r DEF Request
<1>p. ASSUME NEW k \in Counters, NEW n \in Nat, count' = [count EXCEPT ![k] = n],
             k \in {"query"} \cup Emails => n <= Limit[k], used' \in [Counters -> Int]
      PROVE  Counts'
  BY <1>o, <1>p DEF Counts, Counters
<1>u. ASSUME NEW k \in Counters, NEW n \in Int, Use(k, n)
      PROVE  used' \in [Counters -> Int]
  BY <1>o, <1>u DEF Use, Counts
<1>i. 1 \in Int /\ -1 \in Int OBVIOUS
<1>1. CASE UNCHANGED <<count, used>> BY <1>1, <1>o DEF Counts
<1>2. CASE UNCHANGED count /\ \E k \in Counters, n \in {1, -1} : Use(k, n)
  BY <1>2, <1>u, <1>o, <1>i DEF Counts
<1>3. CASE CountQuery(r)
  <2>1. "query" \in Counters /\ Limit["query"] \in Nat BY Limits DEF Counters
  <2>2. /\ req[r].pc = "queried" /\ count' = [count EXCEPT !["query"] = req[r].seen + 1]
        /\ Use("query", 1)
    BY <1>3 DEF CountQuery
  <2>3. req[r].seen + 1 \in Nat /\ req[r].seen + 1 <= Limit["query"]
    BY <2>1, <2>2, <1>r, <1>s DEF Wf
  <2>4. used' \in [Counters -> Int] BY <2>1, <2>2, <1>u, <1>i
  <2> QED BY <2>1, <2>2, <2>3, <2>4, <1>p
<1>4. CASE RecordGlobal(r)
  <2>1. "global" \in Counters /\ "global" \notin {"query"} \cup Emails BY NamesApart
  <2>2. count' = [count EXCEPT !["global"] = req[r].had + 1] /\ UNCHANGED used
    BY <1>4 DEF RecordGlobal, hist
  <2>3. req[r].had + 1 \in Nat BY <1>s
  <2>4. used' \in [Counters -> Int] BY <2>2, <1>o DEF Counts
  <2> QED BY <2>1, <2>2, <2>3, <2>4, <1>p
<1>5. CASE RecordDevice(r)
  <2>1. req[r].of \in Devices BY <1>5, <1>r DEF RecordDevice, Wf, Anon
  <2>2. req[r].of \in Counters /\ req[r].of \notin {"query"} \cup Emails BY <2>1, NamesApart
  <2>3. count' = [count EXCEPT ![req[r].of] = req[r].seen + 1] /\ UNCHANGED used
    BY <1>5 DEF RecordDevice, hist
  <2>4. req[r].seen + 1 \in Nat BY <1>s
  <2>5. used' \in [Counters -> Int] BY <2>3, <1>o DEF Counts
  <2> QED BY <2>2, <2>3, <2>4, <2>5, <1>p
<1>6. CASE Consume(r)
  <2>1. req[r].pc = "consumed" /\ req[r].of \in Emails BY <1>6, <1>r DEF Consume, Wf, Mail
  <2>2. req[r].of \in Counters /\ Limit[req[r].of] \in Nat BY <2>1, Limits, NamesApart
  <2>3. count' = [count EXCEPT ![req[r].of] = req[r].seen + 1] /\ Use(req[r].of, 1)
    BY <1>6 DEF Consume
  <2>4. req[r].seen + 1 \in Nat /\ req[r].seen + 1 <= Limit[req[r].of]
    BY <2>1, <2>2, <1>r, <1>s DEF Wf
  <2>5. used' \in [Counters -> Int] BY <2>2, <2>3, <1>u, <1>i
  <2> QED BY <2>2, <2>3, <2>4, <2>5, <1>p
<1>7. CASE Rollback(r)
  <2>1. req[r].pc = "undone" /\ req[r].of \in Emails BY <1>7, <1>r DEF Rollback, Wf, Mail
  <2>2. req[r].of \in Counters /\ Limit[req[r].of] \in Nat BY <2>1, Limits, NamesApart
  <2>3. count' = [count EXCEPT ![req[r].of] = req[r].seen - 1] /\ UNCHANGED used
    BY <1>7 DEF Rollback, hist
  <2>4. req[r].seen - 1 \in Nat /\ req[r].seen - 1 <= Limit[req[r].of]
    BY <2>1, <2>2, <1>r, <1>s DEF Wf
  <2>5. used' \in [Counters -> Int] BY <2>3, <1>o DEF Counts
  <2> QED BY <2>2, <2>3, <2>4, <2>5, <1>p
<1>8. CASE CheckAccount(r)
  <2>1. "account" \in Counters /\ "account" \notin {"query"} \cup Emails BY NamesApart
  <2>2. count' = [count EXCEPT !["account"] = count["account"] + 1]
    BY <1>8 DEF CheckAccount
  <2>3. count["account"] + 1 \in Nat
    <3>1. count["account"] \in Nat BY <2>1, Limits
    <3> QED BY <3>1
  <2>4. used' \in [Counters -> Int]
    <3>1. Use("account", 1) \/ UNCHANGED used BY <1>8 DEF CheckAccount
    <3>2. UNCHANGED used => used' \in [Counters -> Int] BY <1>o DEF Counts
    <3> QED BY <3>1, <3>2, <2>1, <1>u, <1>i
  <2> QED BY <2>1, <2>2, <2>3, <2>4, <1>p
<1>9. CASE PeekDevice(r) \/ Serve(r) \/ FailOpen(r) \/ SendFails(r)
  <2>1. "global" \in Counters BY NamesApart
  <2>2. CASE PeekDevice(r)
    BY <2>1, <2>2, <1>1, <1>2 DEF PeekDevice
  <2>3. CASE Serve(r) \/ FailOpen(r) \/ SendFails(r)
    <3>1. req[r].of \in Counters
      BY <2>3, <1>r, NamesApart DEF Serve, FailOpen, SendFails, Wf, Anon, Mail
    <3>2. UNCHANGED count /\ \E n \in {1, -1} : Use(req[r].of, n)
      BY <2>3 DEF Serve, FailOpen, SendFails
    <3> QED BY <3>1, <3>2, <1>2
  <2> QED BY <1>9, <2>2, <2>3
<1>10. CASE \/ AskAnon(r) \/ PeekGlobal(r) \/ CheckQuery(r) \/ RecordGlobalRead(r) \/ ServeFails(r)
            \/ RecordDeviceRead(r) \/ AskMail(r) \/ TryConsume(r) \/ Send(r) \/ RollbackRead(r)
            \/ AskKeyed(r) \/ IdempotencyLookup(r) \/ MintFails(r) \/ Mint(r)
            \/ IdempotencyStore(r) \/ Break(r)
  <2>1. UNCHANGED <<count, used>>
    BY <1>10 DEF AskAnon, PeekGlobal, CheckQuery, RecordGlobalRead, ServeFails, RecordDeviceRead,
       AskMail, TryConsume, Send, RollbackRead, AskKeyed, IdempotencyLookup, MintFails, Mint,
       IdempotencyStore, Break, hist
  <2> QED BY <2>1, <1>1
<1> QED BY <1>3, <1>4, <1>5, <1>6, <1>7, <1>8, <1>9, <1>10 DEF Step

LEMMA RestStep ==
  ASSUME Typed, NEW r \in Requests, Step(r)
  PROVE  Rest'
<1>o. Rest BY DEF Typed, TypeOK, Rest
<1>r. req[r] \in Request /\ Wf(req[r])
  BY DEF Typed, TypeOK, Request, Anon, Mail, Keyed
<1>f. Fault => faults' \in 0..MaxFaults BY <1>o, MaxFaultsAssumption DEF Fault, Rest
<1>c. \A k \in Counters : Race(r, k) => raced' \subseteq Counters BY <1>o DEF Race, Rest
<1>n. \A k \in Keys : minted[k] + 1 \in Nat BY <1>o DEF Rest
<1>1. CASE PeekGlobal(r) \/ CheckQuery(r) \/ PeekDevice(r) \/ TryConsume(r) \/ RollbackRead(r)
  <2>1. \E k \in Counters : Race(r, k)
    BY <1>1, <1>r, NamesApart
       DEF PeekGlobal, CheckQuery, PeekDevice, TryConsume, RollbackRead, Wf, Anon, Mail
  <2>2. UNCHANGED <<stored, made, minted, crossed, faults>>
    BY <1>1 DEF PeekGlobal, CheckQuery, PeekDevice, TryConsume, RollbackRead
  <2> QED BY <2>1, <2>2, <1>o, <1>c DEF Rest
<1>2. CASE Serve(r)
  <2>1. req[r].of \in Devices BY <1>2, <1>r DEF Serve, Wf, Anon
  <2> QED BY <1>2, <2>1, <1>o DEF Serve, Rest
<1>3. CASE IdempotencyLookup(r)
  <2>1. req[r].of \in Keys BY <1>3, <1>r DEF IdempotencyLookup, Wf, Keyed
  <2>2. crossed' \subseteq Keys BY <1>3, <2>1, <1>o DEF IdempotencyLookup, Rest
  <2> QED BY <1>3, <2>2, <1>o DEF IdempotencyLookup, Rest
<1>4. CASE Mint(r)
  <2>1. req[r].of \in Keys BY <1>4, <1>r DEF Mint, Wf, Keyed
  <2>2. minted' = [minted EXCEPT ![req[r].of] = minted[req[r].of] + 1] BY <1>4 DEF Mint
  <2>3. minted' \in [Keys -> Nat] BY <2>1, <2>2, <1>n, <1>o DEF Rest
  <2> QED BY <1>4, <2>3, <1>o DEF Mint, Rest
<1>5. CASE IdempotencyStore(r)
  BY <1>5, <1>r, <1>o DEF IdempotencyStore, Rest, Wf, hist
<1>6. CASE FailOpen(r) \/ Break(r) BY <1>6, <1>o, <1>f DEF FailOpen, Break, Rest, hist
<1>7. CASE \/ AskAnon(r) \/ CountQuery(r) \/ RecordGlobalRead(r) \/ RecordGlobal(r) \/ ServeFails(r)
           \/ RecordDeviceRead(r) \/ RecordDevice(r) \/ AskMail(r) \/ Consume(r) \/ Send(r)
           \/ SendFails(r) \/ Rollback(r) \/ AskKeyed(r) \/ CheckAccount(r) \/ MintFails(r)
  BY <1>7, <1>o DEF AskAnon, CountQuery, RecordGlobalRead, RecordGlobal, ServeFails,
     RecordDeviceRead, RecordDevice, AskMail, Consume, Send, SendFails, Rollback, AskKeyed,
     CheckAccount, MintFails, Rest, hist
<1> QED BY <1>1, <1>2, <1>3, <1>4, <1>5, <1>6, <1>7 DEF Step

LEMMA ExpireTyped ==
  ASSUME Typed, (\E k \in Counters : Expire(k)) \/ (\E k \in Keys : ExpireReplay(k))
  PROVE  Typed'
<1>o. Counts /\ Rest BY DEF Typed, TypeOK, Counts, Rest
<1>q. req \in [Requests -> Request] BY DEF Typed, TypeOK, Request, Anon, Mail, Keyed
<1>1. ASSUME NEW k \in Counters, Expire(k) PROVE Typed'
  <2>1. Good
    <3> DEFINE q(r) == IF k = "global" /\ req[r].bg \in {"get", "put"}
                         THEN [req[r] EXCEPT !.bg = "none"] ELSE req[r]
    <3>1. req' = [r \in Requests |-> q(r)] BY <1>1 DEF Expire
    <3>2. ASSUME NEW r \in Requests PROVE q(r) \in Request /\ Wf(q(r))
      <4>1. req[r] \in Request /\ Wf(req[r]) BY <1>q DEF Typed
      <4>2. CASE k = "global" /\ req[r].bg \in {"get", "put"}
        <5> DEFINE p == [req[r] EXCEPT !.bg = "none"]
        <5>1. /\ p \in Request /\ p.pc = req[r].pc /\ p.bg = "none" /\ p.of = req[r].of
              /\ p.seen = req[r].seen
          BY <4>1 DEF Request
        <5> HIDE DEF p
        <5>2. Wf(p) BY <4>1, <5>1 DEF Wf
        <5> QED BY <4>2, <5>1, <5>2 DEF p
      <4> QED BY <4>1, <4>2
    <3> HIDE DEF q
    <3> QED BY <3>1, <3>2 DEF Good
  <2>2. Counts' /\ Rest'
    <3>1. count' = [count EXCEPT ![k] = 0] /\ used' = [used EXCEPT ![k] = 0] BY <1>1 DEF Expire
    <3>2. \A e \in {"query"} \cup Emails : Limit[e] \in Nat BY Limits
    <3>3. 0 \in Nat OBVIOUS
    <3>4. Counts' BY <3>1, <3>2, <3>3, <1>o DEF Counts, Counters
    <3>5. raced' \subseteq Counters BY <1>1, <1>o DEF Expire, Rest
    <3> QED BY <1>1, <1>o, <3>4, <3>5 DEF Expire, Rest
  <2> QED BY <2>1, <2>2 DEF Typed, TypeOK, Good, Counts, Rest, Request, Anon, Mail, Keyed
<1>2. ASSUME NEW k \in Keys, ExpireReplay(k) PROVE Typed'
  <2>1. UNCHANGED <<count, req, used, raced, made, crossed, faults>> BY <1>2 DEF ExpireReplay
  <2>2. stored' \in [Keys -> Requests \cup {None}] /\ minted' \in [Keys -> Nat]
    BY <1>2, <1>o DEF ExpireReplay, Rest
  <2> QED BY <2>1, <2>2 DEF Typed, TypeOK
<1> QED BY <1>1, <1>2

LEMMA TypeStep ==
  ASSUME Typed, [Next]_vars
  PROVE  Typed'
<1>1. ASSUME NEW r \in Requests, Step(r) PROVE Typed'
  <2>1. Good /\ Counts' /\ Rest' BY <1>1, RequestsStep, CountsStep, RestStep
  <2> QED BY <2>1 DEF Typed, TypeOK, Good, Counts, Rest, Request, Anon, Mail, Keyed
<1>2. CASE UNCHANGED vars BY <1>2 DEF vars, hist, Typed, TypeOK
<1> QED BY <1>1, <1>2, ExpireTyped DEF Next

LEMMA TypeInit == Init => Typed
<1> SUFFICES ASSUME Init PROVE Typed OBVIOUS
<1>1. Idle \in Request /\ Wf(Idle) BY DEF Idle, Request, Wf, Anon, Mail, Keyed
<1>2. req \in [Requests -> Request] /\ \A r \in Requests : Wf(req[r])
  <2>1. req = [r \in Requests |-> Idle] BY DEF Init
  <2> QED BY <2>1, <1>1
<1>3. Counts
  <2>1. count = [k \in Counters |-> 0] /\ used = count BY DEF Init
  <2>2. 0 \in Nat /\ 0 \in Int OBVIOUS
  <2>3. \A k \in {"query"} \cup Emails : k \in Counters /\ Limit[k] \in Nat
    BY LimitAssumption DEF Counters
  <2> QED BY <2>1, <2>2, <2>3 DEF Counts
<1>4. Rest BY MaxFaultsAssumption DEF Init, Rest
<1> QED BY <1>2, <1>3, <1>4 DEF Typed, TypeOK, Counts, Rest, Request, Anon, Mail, Keyed

\* The variables keep their types, and the address's bucket and the mails' counters
\* never pass their limits, whatever races or fails.
THEOREM GatesTypeCorrect == Spec => []TypeOK
<1>1. Typed => TypeOK BY DEF Typed
<1> QED BY TypeInit, TypeStep, <1>1, PTL DEF Spec

\* A device that is about to be counted has been served.
Served ==
  /\ NobodyIsLockedOut
  /\ \A r \in Requests : req[r].pc \in {"record", "recorded"} => req[r].of \in made

LEMMA GotoFrame ==
  ASSUME Typed, NEW r \in Requests, NEW l, Goto(r, l)
  PROVE  \A p \in Requests :
           /\ req'[p].pc = IF p = r THEN l ELSE req[p].pc
           /\ req'[p].of = req[p].of /\ req'[p].bg = req[p].bg
<1>1. req \in [Requests -> Request] BY DEF Typed, TypeOK, Request, Anon, Mail, Keyed
<1> QED BY <1>1 DEF Goto, Request

LEMMA ReadFrame ==
  ASSUME Typed, NEW r \in Requests, NEW l, NEW k, Read(r, l, k)
  PROVE  \A p \in Requests :
           /\ req'[p].pc = IF p = r THEN l ELSE req[p].pc
           /\ req'[p].of = req[p].of /\ req'[p].bg = req[p].bg
<1>1. req \in [Requests -> Request] BY DEF Typed, TypeOK, Request, Anon, Mail, Keyed
<1> QED BY <1>1 DEF Read, Request

\* A step of one request leaves the others as they are.
LEMMA Frame ==
  ASSUME Typed, NEW r \in Requests, Step(r), NEW p \in Requests, p # r
  PROVE  req'[p] = req[p]
  BY DEF Step, AskAnon, PeekGlobal, CheckQuery, CountQuery, PeekDevice, RecordGlobalRead,
     RecordGlobal, ServeFails, Serve, RecordDeviceRead, RecordDevice, AskMail, TryConsume, Consume,
     FailOpen, Send, SendFails, RollbackRead, Rollback, AskKeyed, IdempotencyLookup, CheckAccount,
     MintFails, Mint, IdempotencyStore, Break, Goto, Read, Typed, TypeOK

LEMMA ServedStep ==
  ASSUME Typed, Served, NEW r \in Requests, Step(r)
  PROVE  Served'
<1>q. req \in [Requests -> Request] BY DEF Typed, TypeOK, Request, Anon, Mail, Keyed
<1>r. req[r] \in Request /\ Wf(req[r]) BY <1>q DEF Typed
<1>m. made \subseteq made'
  BY DEF Step, AskAnon, PeekGlobal, CheckQuery, CountQuery, PeekDevice, RecordGlobalRead,
     RecordGlobal, ServeFails, Serve, RecordDeviceRead, RecordDevice, AskMail, TryConsume, Consume,
     FailOpen, Send, SendFails, RollbackRead, Rollback, AskKeyed, IdempotencyLookup, CheckAccount,
     MintFails, Mint, IdempotencyStore, Break, hist
<1>o. \A p \in Requests \ {r} : req'[p] = req[p] BY Frame
<1>c. count \in [Counters -> Nat] BY DEF Typed, TypeOK
<1>f. ASSUME req'[r].pc \in {"record", "recorded"} => req'[r].of \in made',
             \A d \in Devices : count'[d] > 0 => count[d] > 0 \/ d \in made'
      PROVE  Served'
  BY <1>f, <1>m, <1>o DEF Served, NobodyIsLockedOut
<1>d. ASSUME NEW k, k \notin Devices, NEW n, count' = [count EXCEPT ![k] = n]
      PROVE  \A d \in Devices : count'[d] = count[d]
  BY <1>c, <1>d DEF Counters
<1>1. CASE Serve(r)
  <2>1. req'[r].of \in made' BY <1>1, GotoFrame DEF Serve
  <2>2. UNCHANGED count BY <1>1 DEF Serve
  <2> QED BY <2>1, <2>2, <1>f
<1>2. CASE RecordDeviceRead(r)
  <2>1. req'[r].of = req[r].of BY <1>2, ReadFrame DEF RecordDeviceRead
  <2>2. req[r].of \in made' /\ UNCHANGED count
    BY <1>2, <1>m DEF RecordDeviceRead, Served
  <2> QED BY <2>1, <2>2, <1>f
<1>3. CASE RecordDevice(r)
  <2>1. req'[r].pc = "done" BY <1>3, GotoFrame DEF RecordDevice
  <2>2. req[r].of \in made' BY <1>3, <1>m DEF RecordDevice, Served
  <2>3. \A d \in Devices : d # req[r].of => count'[d] = count[d]
    BY <1>3, <1>c DEF RecordDevice, Counters
  <2> QED BY <2>1, <2>2, <2>3, <1>f
<1>4. CASE CountQuery(r) \/ Consume(r) \/ Rollback(r) \/ CheckAccount(r)
  <2>1. req'[r].pc \in {"device", "send", "done", "mint"}
    BY <1>4, GotoFrame DEF CountQuery, Consume, Rollback, CheckAccount
  <2>2. \A d \in Devices : count'[d] = count[d]
    <3>1. req[r].of \notin Devices \/ CountQuery(r) \/ CheckAccount(r)
      BY <1>4, <1>r, NamesApart DEF Consume, Rollback, Wf, Mail
    <3> QED BY <1>4, <3>1, <1>d, NamesApart DEF CountQuery, Consume, Rollback, CheckAccount
  <2> QED BY <2>1, <2>2, <1>f
<1>5. CASE RecordGlobal(r)
  <2>1. \A d \in Devices : count'[d] = count[d] BY <1>5, <1>d, NamesApart DEF RecordGlobal
  <2>2. req'[r].pc = req[r].pc /\ req'[r].of = req[r].of BY <1>5, <1>q DEF RecordGlobal, Request
  <2> QED BY <2>1, <2>2, <1>f, <1>m DEF Served
<1>6. CASE RecordGlobalRead(r) \/ IdempotencyStore(r)
  <2>1. req'[r].pc = req[r].pc /\ req'[r].of = req[r].of /\ UNCHANGED count
    BY <1>6, <1>q DEF RecordGlobalRead, IdempotencyStore, Request
  <2> QED BY <2>1, <1>f, <1>m DEF Served
<1>7. CASE Break(r)
  <2>1. UNCHANGED count BY <1>7 DEF Break
  <2>2. req'[r].of = req[r].of /\ (req'[r].pc = "done" \/ req'[r].pc = req[r].pc)
    BY <1>7, <1>q DEF Break, Request
  <2> QED BY <2>1, <2>2, <1>f, <1>m DEF Served
<1>8. CASE AskAnon(r) \/ AskMail(r) \/ AskKeyed(r) \/ Mint(r)
  <2>1. UNCHANGED count BY <1>8 DEF AskAnon, AskMail, AskKeyed, Mint
  <2>2. req'[r].pc \in {"global", "consume", "lookup", "done"}
    BY <1>8, <1>q DEF AskAnon, AskMail, AskKeyed, Mint, Idle, Request
  <2> QED BY <2>1, <2>2, <1>f
<1>9. CASE PeekDevice(r)
  <2>1. UNCHANGED count BY <1>9 DEF PeekDevice
  <2>2. req'[r].pc \in {"serve", "done"} BY <1>9, <1>q, GotoFrame DEF PeekDevice, Request
  <2> QED BY <2>1, <2>2, <1>f
<1>10. CASE \/ PeekGlobal(r) \/ CheckQuery(r) \/ ServeFails(r) \/ TryConsume(r) \/ FailOpen(r)
            \/ Send(r) \/ SendFails(r) \/ RollbackRead(r) \/ IdempotencyLookup(r) \/ MintFails(r)
  <2>1. UNCHANGED count
    BY <1>10 DEF PeekGlobal, CheckQuery, ServeFails, TryConsume, FailOpen, Send, SendFails,
       RollbackRead, IdempotencyLookup, MintFails
  <2>2. req'[r].pc \notin {"record", "recorded"}
    BY <1>10, GotoFrame, ReadFrame DEF PeekGlobal, CheckQuery, ServeFails, TryConsume, FailOpen,
       Send, SendFails, RollbackRead, IdempotencyLookup, MintFails
  <2> QED BY <2>1, <2>2, <1>f
<1> QED BY <1>1, <1>2, <1>3, <1>4, <1>5, <1>6, <1>7, <1>8, <1>9, <1>10 DEF Step

LEMMA ExpireFrame ==
  ASSUME Typed, NEW k, Expire(k), NEW r \in Requests
  PROVE  /\ req'[r].pc = req[r].pc /\ req'[r].of = req[r].of
         /\ req'[r].bg = "store" <=> req[r].bg = "store"
<1>1. req[r] \in Request BY DEF Typed, TypeOK, Request, Anon, Mail, Keyed
<1> QED BY <1>1 DEF Expire, Request

\* A device that has not been served is not refused, whatever races or fails.
THEOREM FirstCreateIsFree == Spec => []NobodyIsLockedOut
<1>1. Init => Served
  BY NamesApart DEF Init, Served, NobodyIsLockedOut, Idle
<1>2. ASSUME Typed, Served, [Next]_vars PROVE Served'
  <2>1. ASSUME NEW k \in Counters, Expire(k) PROVE Served'
    <3>1. \A d \in Devices : count'[d] > 0 => count[d] > 0
      BY <2>1, NamesApart DEF Expire, Typed, TypeOK
    <3>2. UNCHANGED made BY <2>1 DEF Expire
    <3> QED BY <1>2, <2>1, <3>1, <3>2, ExpireFrame DEF Served, NobodyIsLockedOut
  <2>2. ASSUME NEW k \in Keys, ExpireReplay(k) PROVE Served'
    BY <1>2, <2>2 DEF ExpireReplay, Served, NobodyIsLockedOut
  <2>3. CASE UNCHANGED vars BY <1>2, <2>3 DEF vars, hist, Served, NobodyIsLockedOut
  <2> QED BY <1>2, <2>1, <2>2, <2>3, ServedStep DEF Next
<1>3. Served => NobodyIsLockedOut BY DEF Served
<1> QED BY TypeInit, TypeStep, <1>1, <1>2, <1>3, PTL DEF Spec

---------------------------------------------------------------------------
\* A key that was never crossed has one request out at most; what it has minted is
\* paid for by a replay or a failure, or is about to be stored.
Once == \A k \in Keys \ crossed :
  /\ \A p, q \in Requests : Out(p, k) /\ Out(q, k) => p = q
  /\ \A p \in Requests : Out(p, k) /\ req[p].bg # "store" => minted[k] <= faults
  /\ stored[k] = None /\ (\A p \in Requests : ~Out(p, k)) => minted[k] <= faults
  /\ minted[k] <= 1 + faults

\* The steps that do not concern a key leave who is out with it alone.
LEMMA OnceFrame ==
  ASSUME Typed, Typed', Once, UNCHANGED <<stored, minted, crossed>>, faults <= faults',
         \A p \in Requests :
           /\ req'[p].pc \in {"bucket", "mint"} <=> req[p].pc \in {"bucket", "mint"}
           /\ req'[p].bg = "store" <=> req[p].bg = "store"
           /\ \/ req'[p].of = req[p].of
              \/ req[p].pc \notin {"bucket", "mint"} /\ req[p].bg # "store"
  PROVE  Once'
<1>1. \A p \in Requests, k \in Keys : Out(p, k)' <=> Out(p, k) BY DEF Out
<1>2. faults \in Nat /\ faults' \in Nat /\ \A k \in Keys : minted[k] \in Nat
  BY MaxFaultsAssumption DEF Typed, TypeOK
<1> QED BY <1>1, <1>2 DEF Once

\* The request with the key goes away, or a failure takes it away.
LEMMA OnceLeaves ==
  ASSUME Typed, Typed', Once, NEW r \in Requests, UNCHANGED <<stored, minted, crossed>>,
         \A p \in Requests \ {r} : req'[p] = req[p],
         \A k \in Keys : ~Out(r, k)',
         \/ faults' = faults + 1
         \/ faults' = faults /\ req[r].bg # "store"
  PROVE  Once'
<1>1. faults \in Nat /\ faults' \in Nat /\ \A k \in Keys : minted[k] \in Nat
  BY MaxFaultsAssumption DEF Typed, TypeOK
<1> SUFFICES ASSUME NEW k \in Keys, k \notin crossed
             PROVE  /\ \A p, q \in Requests : Out(p, k)' /\ Out(q, k)' => p = q
                    /\ \A p \in Requests : Out(p, k)' /\ req'[p].bg # "store" => minted[k] <= faults'
                    /\ stored[k] = None /\ (\A p \in Requests : ~Out(p, k)') => minted[k] <= faults'
                    /\ minted[k] <= 1 + faults'
  BY DEF Once
<1>2. /\ \A p, q \in Requests : Out(p, k) /\ Out(q, k) => p = q
      /\ \A p \in Requests : Out(p, k) /\ req[p].bg # "store" => minted[k] <= faults
      /\ stored[k] = None /\ (\A p \in Requests : ~Out(p, k)) => minted[k] <= faults
      /\ minted[k] <= 1 + faults
  BY DEF Once
<1>3. \A p \in Requests \ {r} : Out(p, k)' <=> Out(p, k) BY DEF Out
<1>4. ~Out(r, k)' OBVIOUS
<1>5. CASE faults' = faults + 1
  <2>1. minted[k] <= faults' /\ minted[k] <= 1 + faults' BY <1>1, <1>2, <1>5
  <2> QED BY <2>1, <1>2, <1>3, <1>4
<1>6. CASE faults' = faults /\ req[r].bg # "store"
  <2>1. stored[k] = None /\ (\A p \in Requests : ~Out(p, k)') => minted[k] <= faults
    BY <1>2, <1>3, <1>6
  <2>2. \A p \in Requests : Out(p, k)' /\ req'[p].bg # "store" => minted[k] <= faults
    BY <1>2, <1>3, <1>4
  <2> QED BY <2>1, <2>2, <1>2, <1>3, <1>4, <1>6
<1> QED BY <1>5, <1>6

LEMMA OnceStep ==
  ASSUME Typed, Typed', Once, NEW r \in Requests, Step(r)
  PROVE  Once'
<1>q. req \in [Requests -> Request] BY DEF Typed, TypeOK, Request, Anon, Mail, Keyed
<1>r. req[r] \in Request /\ Wf(req[r]) BY <1>q DEF Typed
<1>n. faults \in Nat /\ faults' \in Nat /\ \A k \in Keys : minted[k] \in Nat
  BY MaxFaultsAssumption DEF Typed, TypeOK
<1>o. \A p \in Requests \ {r} : req'[p] = req[p] BY Frame
<1>e. ASSUME UNCHANGED <<stored, minted, crossed>>, faults <= faults',
             req'[r].pc \in {"bucket", "mint"} <=> req[r].pc \in {"bucket", "mint"},
             req'[r].bg = "store" <=> req[r].bg = "store",
             req'[r].of = req[r].of \/ (req[r].pc \notin {"bucket", "mint"} /\ req[r].bg # "store")
      PROVE  Once'
  <2>1. \A p \in Requests :
          /\ req'[p].pc \in {"bucket", "mint"} <=> req[p].pc \in {"bucket", "mint"}
          /\ req'[p].bg = "store" <=> req[p].bg = "store"
          /\ \/ req'[p].of = req[p].of
             \/ req[p].pc \notin {"bucket", "mint"} /\ req[p].bg # "store"
    BY <1>e, <1>o
  <2> QED BY <1>e, <2>1, OnceFrame
<1>1. CASE AskAnon(r) \/ AskMail(r) \/ AskKeyed(r)
  <2>1. req[r].pc = "idle" /\ UNCHANGED <<stored, minted, crossed, faults>>
    BY <1>1 DEF AskAnon, AskMail, AskKeyed, hist
  <2>2. req'[r].pc \notin {"bucket", "mint"} /\ req'[r].bg = "none"
    BY <1>1, <1>q DEF AskAnon, AskMail, AskKeyed, Idle
  <2>3. req[r].bg = "none" BY <2>1, <1>r DEF Wf
  <2> QED BY <2>1, <2>2, <2>3, <1>n, <1>e
<1>2. CASE \/ PeekGlobal(r) \/ CheckQuery(r) \/ CountQuery(r) \/ ServeFails(r) \/ Serve(r)
           \/ RecordDeviceRead(r) \/ RecordDevice(r) \/ TryConsume(r) \/ Consume(r) \/ FailOpen(r)
           \/ Send(r) \/ SendFails(r) \/ RollbackRead(r) \/ Rollback(r)
  <2>1. UNCHANGED <<stored, minted, crossed>> /\ faults <= faults'
    BY <1>2, <1>n DEF PeekGlobal, CheckQuery, CountQuery, ServeFails, Serve, RecordDeviceRead,
       RecordDevice, TryConsume, Consume, FailOpen, Send, SendFails, RollbackRead, Rollback, hist,
       Fault
  <2>2. req[r].pc \in Anon \cup Mail
    BY <1>2 DEF PeekGlobal, CheckQuery, CountQuery, ServeFails, Serve, RecordDeviceRead,
       RecordDevice, TryConsume, Consume, FailOpen, Send, SendFails, RollbackRead, Rollback, Anon,
       Mail
  <2>3. /\ req'[r].pc \notin {"bucket", "mint"} /\ req'[r].of = req[r].of
        /\ req'[r].bg = req[r].bg
    BY <1>2, GotoFrame, ReadFrame DEF PeekGlobal, CheckQuery, CountQuery, ServeFails, Serve,
       RecordDeviceRead, RecordDevice, TryConsume, Consume, FailOpen, Send, SendFails,
       RollbackRead, Rollback
  <2> QED BY <2>1, <2>2, <2>3, <1>e DEF Anon, Mail
<1>3. CASE PeekDevice(r)
  <2>1. req[r].pc = "device" /\ req[r].bg # "store" /\ UNCHANGED <<stored, minted, crossed, faults>>
    BY <1>3, <1>r DEF PeekDevice, Wf
  <2>2. req'[r].pc \notin {"bucket", "mint"} /\ req'[r].bg # "store"
    BY <1>3, <2>1, <1>q, GotoFrame DEF PeekDevice, Request
  <2> QED BY <2>1, <2>2, <1>n, <1>e
<1>4. CASE RecordGlobalRead(r) \/ RecordGlobal(r)
  <2>1. /\ UNCHANGED <<stored, minted, crossed, faults>> /\ req[r].bg # "store"
        /\ req'[r].pc = req[r].pc /\ req'[r].of = req[r].of /\ req'[r].bg # "store"
    BY <1>4, <1>q DEF RecordGlobalRead, RecordGlobal, hist, Request
  <2> QED BY <2>1, <1>n, <1>e
<1>5. CASE IdempotencyLookup(r)
  <2>1. /\ req[r].pc = "lookup" /\ req[r].bg = "none" /\ req[r].of \in Keys
        /\ UNCHANGED <<stored, minted, faults>>
    BY <1>5, <1>r DEF IdempotencyLookup, Wf, Keyed
  <2>2. PICK l \in {"done", "bucket"} : Goto(r, l) /\ (l = "bucket" => stored[req[r].of] = None)
    BY <1>5 DEF IdempotencyLookup
  <2>3. req'[r].pc = l /\ req'[r].of = req[r].of /\ req'[r].bg = "none" BY <2>1, <2>2, GotoFrame
  <2>4. crossed' = IF \E p \in Requests : Out(p, req[r].of) THEN crossed \cup {req[r].of} ELSE crossed
    BY <1>5 DEF IdempotencyLookup
  <2> SUFFICES ASSUME NEW k \in Keys, k \notin crossed'
               PROVE  /\ \A p, q \in Requests : Out(p, k)' /\ Out(q, k)' => p = q
                      /\ \A p \in Requests : Out(p, k)' /\ req'[p].bg # "store" => minted[k] <= faults
                      /\ stored[k] = None /\ (\A p \in Requests : ~Out(p, k)') => minted[k] <= faults
                      /\ minted[k] <= 1 + faults
    BY <2>1 DEF Once
  <2>5. /\ \A p, q \in Requests : Out(p, k) /\ Out(q, k) => p = q
        /\ \A p \in Requests : Out(p, k) /\ req[p].bg # "store" => minted[k] <= faults
        /\ stored[k] = None /\ (\A p \in Requests : ~Out(p, k)) => minted[k] <= faults
        /\ minted[k] <= 1 + faults
    BY <2>4 DEF Once
  <2>6. \A p \in Requests \ {r} : Out(p, k)' <=> Out(p, k) BY <1>o DEF Out
  <2>7. ~Out(r, k) BY <2>1 DEF Out
  <2>8. CASE k = req[r].of
    <3>1. \A p \in Requests : ~Out(p, k) BY <2>4, <2>8
    <3>2. \A p \in Requests \ {r} : ~Out(p, k)' BY <2>6, <3>1
    <3>3. Out(r, k)' => l = "bucket" BY <2>3 DEF Out
    <3>4. Out(r, k)' => minted[k] <= faults BY <2>2, <2>5, <2>8, <3>1, <3>3
    <3>5. stored[k] = None => minted[k] <= faults BY <2>5, <3>1
    <3> QED BY <2>5, <3>2, <3>4, <3>5
  <2>9. CASE k # req[r].of
    <3>1. ~Out(r, k)' BY <2>3, <2>9 DEF Out
    <3>2. \A p \in Requests : Out(p, k)' => Out(p, k) /\ p # r BY <2>6, <3>1
    <3>3. \A p \in Requests : Out(p, k) => Out(p, k)' BY <2>6, <2>7
    <3> QED BY <2>5, <3>2, <3>3, <1>o
  <2> QED BY <2>8, <2>9
<1>6. CASE CheckAccount(r)
  <2>1. req[r].pc = "bucket" /\ req[r].bg = "none" /\ UNCHANGED <<stored, minted, crossed, faults>>
    BY <1>6, <1>r DEF CheckAccount, Wf, Keyed
  <2>2. CASE Goto(r, "mint")
    BY <2>1, <2>2, <1>n, <1>e, GotoFrame
  <2>3. CASE Goto(r, "done")
    <3>1. \A k \in Keys : ~Out(r, k)' BY <2>1, <2>3, GotoFrame DEF Out
    <3> QED BY <2>1, <3>1, <1>o, OnceLeaves
  <2> QED BY <1>6, <2>2, <2>3 DEF CheckAccount
<1>7. CASE MintFails(r)
  <2>1. /\ req[r].pc = "mint" /\ req[r].bg = "none" /\ Goto(r, "done")
        /\ UNCHANGED <<stored, minted, crossed, faults>>
    BY <1>7, <1>r DEF MintFails, Wf, Keyed, hist
  <2>2. \A k \in Keys : ~Out(r, k)' BY <2>1, GotoFrame DEF Out
  <2> QED BY <2>1, <2>2, <1>o, OnceLeaves
<1>8. CASE Mint(r)
  <2>1. /\ req[r].pc = "mint" /\ req[r].bg = "none" /\ req[r].of \in Keys
        /\ UNCHANGED <<stored, crossed, faults>>
    BY <1>8, <1>r DEF Mint, Wf, Keyed
  <2>2. req'[r].pc = "done" /\ req'[r].of = req[r].of /\ req'[r].bg = "store"
    BY <1>8, <1>q DEF Mint, Request
  <2>3. minted' = [minted EXCEPT ![req[r].of] = minted[req[r].of] + 1] BY <1>8 DEF Mint
  <2> SUFFICES ASSUME NEW k \in Keys, k \notin crossed
               PROVE  /\ \A p, q \in Requests : Out(p, k)' /\ Out(q, k)' => p = q
                      /\ \A p \in Requests : Out(p, k)' /\ req'[p].bg # "store" => minted'[k] <= faults
                      /\ stored[k] = None /\ (\A p \in Requests : ~Out(p, k)') => minted'[k] <= faults
                      /\ minted'[k] <= 1 + faults
    BY <2>1 DEF Once
  <2>5. /\ \A p, q \in Requests : Out(p, k) /\ Out(q, k) => p = q
        /\ \A p \in Requests : Out(p, k) /\ req[p].bg # "store" => minted[k] <= faults
        /\ stored[k] = None /\ (\A p \in Requests : ~Out(p, k)) => minted[k] <= faults
        /\ minted[k] <= 1 + faults
    BY DEF Once
  <2>6. \A p \in Requests : Out(p, k)' <=> Out(p, k) BY <1>o, <2>1, <2>2 DEF Out
  <2>8. CASE k = req[r].of
    <3>1. Out(r, k) /\ Out(r, k)' BY <2>1, <2>2, <2>8 DEF Out
    <3>2. minted[k] <= faults BY <2>1, <2>5, <3>1
    <3>3. minted'[k] = minted[k] + 1 BY <2>3, <2>8 DEF Typed, TypeOK
    <3>4. minted'[k] <= 1 + faults BY <3>2, <3>3, <1>n
    <3>5. \A p \in Requests : Out(p, k)' => p = r BY <2>5, <2>6, <3>1
    <3> QED BY <2>2, <3>1, <3>4, <3>5
  <2>9. CASE k # req[r].of
    <3>1. minted'[k] = minted[k] BY <2>1, <2>3, <2>9 DEF Typed, TypeOK
    <3>2. \A p \in Requests : Out(p, k) => p # r BY <2>1, <2>9 DEF Out
    <3> QED BY <2>5, <2>6, <3>1, <3>2, <1>o
  <2> QED BY <2>8, <2>9
<1>9. CASE IdempotencyStore(r)
  <2>1. /\ req[r].bg = "store" /\ req[r].pc = "done" /\ req[r].of \in Keys
        /\ UNCHANGED <<minted, crossed, faults>>
    BY <1>9, <1>r DEF IdempotencyStore, Wf, hist
  <2>2. req'[r].pc = "done" /\ req'[r].of = req[r].of /\ req'[r].bg = "none"
    BY <1>9, <2>1, <1>q DEF IdempotencyStore, Request
  <2>3. stored' = [stored EXCEPT ![req[r].of] = r] BY <1>9 DEF IdempotencyStore
  <2> SUFFICES ASSUME NEW k \in Keys, k \notin crossed
               PROVE  /\ \A p, q \in Requests : Out(p, k)' /\ Out(q, k)' => p = q
                      /\ \A p \in Requests : Out(p, k)' /\ req'[p].bg # "store" => minted[k] <= faults
                      /\ stored'[k] = None /\ (\A p \in Requests : ~Out(p, k)') => minted[k] <= faults
                      /\ minted[k] <= 1 + faults
    BY <2>1 DEF Once
  <2>5. /\ \A p, q \in Requests : Out(p, k) /\ Out(q, k) => p = q
        /\ \A p \in Requests : Out(p, k) /\ req[p].bg # "store" => minted[k] <= faults
        /\ stored[k] = None /\ (\A p \in Requests : ~Out(p, k)) => minted[k] <= faults
        /\ minted[k] <= 1 + faults
    BY DEF Once
  <2>6. \A p \in Requests \ {r} : Out(p, k)' <=> Out(p, k) BY <1>o DEF Out
  <2>7. ~Out(r, k)' BY <2>2 DEF Out
  <2>8. CASE k = req[r].of
    <3>1. stored'[k] = r /\ r # None
      BY <2>3, <2>8, NamesAssumption DEF Typed, TypeOK
    <3> QED BY <2>5, <2>6, <2>7, <3>1, <1>o
  <2>9. CASE k # req[r].of
    <3>1. stored'[k] = stored[k] /\ ~Out(r, k) BY <2>3, <2>9 DEF Out, Typed, TypeOK
    <3> QED BY <2>5, <2>6, <2>7, <3>1, <1>o
  <2> QED BY <2>8, <2>9
<1>10. CASE Break(r)
  <2>1. UNCHANGED <<stored, minted, crossed>> /\ faults' = faults + 1
    BY <1>10 DEF Break, hist, Fault
  <2>2. /\ req'[r].bg = "none" /\ req'[r].of = req[r].of
        /\ req'[r].pc = "done" \/ (req'[r].pc = req[r].pc /\ req[r].bg # "none")
    BY <1>10, <1>q DEF Break, Request
  <2>3. req[r].bg # "none" => req[r].pc \notin {"bucket", "mint"} BY <1>r DEF Wf, Keyed
  <2>4. \A k \in Keys : ~Out(r, k)' BY <2>2, <2>3 DEF Out
  <2> QED BY <2>1, <2>4, <1>o, OnceLeaves
<1> QED BY <1>1, <1>2, <1>3, <1>4, <1>5, <1>6, <1>7, <1>8, <1>9, <1>10 DEF Step

\* One key mints once, and once more per failure, while no second request with it
\* is looked up before the first one and its background store are through.
THEOREM OneMintPerKey == Spec => []KeyMintsOnce
<1>1. Init => Once
  <2>1. Init => \A p \in Requests, k \in Keys : ~Out(p, k) BY DEF Init, Idle, Out
  <2> QED BY <2>1 DEF Init, Once
<1>2. ASSUME Typed, Typed', Once, [Next]_vars PROVE Once'
  <2>n. faults \in Nat /\ \A k \in Keys : minted[k] \in Nat
    BY <1>2, MaxFaultsAssumption DEF Typed, TypeOK
  <2>1. ASSUME NEW k \in Counters, Expire(k) PROVE Once'
    <3>1. UNCHANGED <<stored, minted, crossed, faults>> BY <2>1 DEF Expire
    <3> QED BY <1>2, <2>1, <2>n, <3>1, ExpireFrame, OnceFrame
  <2>2. ASSUME NEW e \in Keys, ExpireReplay(e) PROVE Once'
    <3>1. /\ UNCHANGED <<req, crossed, faults>>
          /\ \A k \in Keys : IF k = e THEN minted'[k] = 0
                             ELSE minted'[k] = minted[k] /\ stored'[k] = stored[k]
      BY <1>2, <2>2 DEF ExpireReplay, Typed, TypeOK
    <3>2. \A p \in Requests, k \in Keys : Out(p, k)' <=> Out(p, k) BY <3>1 DEF Out
    <3>3. \A k \in Keys : minted'[k] = 0 \/ (minted'[k] = minted[k] /\ stored'[k] = stored[k])
      BY <3>1
    <3> QED BY <1>2, <2>n, <3>1, <3>2, <3>3 DEF Once
  <2>3. CASE UNCHANGED vars BY <1>2, <2>3 DEF vars, hist, Once, Out
  <2> QED BY <1>2, <2>1, <2>2, <2>3, OnceStep DEF Next
<1>3. Once => KeyMintsOnce BY DEF Once, KeyMintsOnce
<1> QED BY TypeInit, TypeStep, <1>1, <1>2, <1>3, PTL DEF Spec

(***************************************************************************)
(* As long as nothing fails, a step is one of the following, in what it    *)
(* makes of the request that takes it and of the counters.                 *)
(***************************************************************************)

Only(r) == \A q \in Requests \ {r} : req'[q] = req[q]
Same(r) == req'[r].of = req[r].of /\ req'[r].bg = req[r].bg /\ req'[r].had = req[r].had
Goes(r, l) == Only(r) /\ Same(r) /\ req'[r].pc = l /\ req'[r].seen = req[r].seen
Reads(r, l, k) == Only(r) /\ Same(r) /\ req'[r].pc = l /\ req'[r].seen = count[k]
\* Only the work beside the request goes on.
Beside(r, b) ==
  /\ Only(r) /\ req'[r].pc = req[r].pc /\ req'[r].of = req[r].of /\ req'[r].seen = req[r].seen
  /\ req'[r].bg = b

Still == UNCHANGED <<count, used, raced>>
CountAt(k, n) == \A c \in Counters : count'[c] = IF c = k THEN n ELSE count[c]
UseAt(k, n) == \A c \in Counters : used'[c] = IF c = k THEN used[c] + n ELSE used[c]
RaceAt(r, k) ==
  /\ UNCHANGED count /\ raced \subseteq raced'
  /\ (\E q \in Requests \ {r} : Between(q, k)) => k \in raced'

Begins(r) ==
  /\ req[r].pc = "idle" /\ Only(r) /\ Still
  /\ req'[r].pc \in {"global", "consume", "lookup"} /\ req'[r].bg = "none"
PeeksGlobal(r) ==
  /\ req[r].pc = "global" /\ RaceAt(r, "global") /\ UNCHANGED used
  /\ Goes(r, "done") \/ (count["global"] < Limit["global"] /\ Goes(r, "query"))
ChecksQuery(r) ==
  /\ req[r].pc = "query" /\ RaceAt(r, "query") /\ UNCHANGED used
  /\ Goes(r, "done") \/ (count["query"] < Limit["query"] /\ Reads(r, "queried", "query"))
CountsQuery(r) ==
  /\ req[r].pc = "queried" /\ Goes(r, "device") /\ UNCHANGED raced
  /\ CountAt("query", req[r].seen + 1) /\ UseAt("query", 1)
PeeksDevice(r) ==
  /\ req[r].pc = "device" /\ RaceAt(r, req[r].of)
  /\ \/ Goes(r, "done") /\ UNCHANGED used
     \/ /\ count[req[r].of] < Limit[req[r].of] /\ UseAt("global", 1)
        /\ Only(r) /\ req'[r].pc = "serve" /\ req'[r].bg = "get" /\ req'[r].of = req[r].of
ReadsGlobal(r) ==
  /\ req[r].bg = "get" /\ Beside(r, "put") /\ req'[r].had = count["global"] /\ Still
CountsGlobal(r) ==
  /\ req[r].bg = "put" /\ Beside(r, "none") /\ CountAt("global", req[r].had + 1)
  /\ UNCHANGED <<used, raced>>
FailsServe(r) == req[r].pc = "serve" /\ Goes(r, "done") /\ Still
Serves(r) ==
  /\ req[r].pc = "serve" /\ Goes(r, "record") /\ UseAt(req[r].of, 1) /\ UNCHANGED <<count, raced>>
ReadsDevice(r) == req[r].pc = "record" /\ Reads(r, "recorded", req[r].of) /\ Still
CountsDevice(r) ==
  /\ req[r].pc = "recorded" /\ Goes(r, "done") /\ CountAt(req[r].of, req[r].seen + 1)
  /\ UNCHANGED <<used, raced>>
TriesMail(r) ==
  /\ req[r].pc = "consume" /\ RaceAt(r, req[r].of) /\ UNCHANGED used
  /\ \/ Goes(r, "done")
     \/ count[req[r].of] < Limit[req[r].of] /\ Reads(r, "consumed", req[r].of)
CountsMail(r) ==
  /\ req[r].pc = "consumed" /\ Goes(r, "send") /\ UNCHANGED raced
  /\ CountAt(req[r].of, req[r].seen + 1) /\ UseAt(req[r].of, 1)
Sends(r) == req[r].pc = "send" /\ Goes(r, "done") /\ Still
FailsSend(r) ==
  /\ req[r].pc = "send" /\ Goes(r, "undo") /\ UseAt(req[r].of, -1) /\ UNCHANGED <<count, raced>>
ReadsBack(r) ==
  /\ req[r].pc = "undo" /\ RaceAt(r, req[r].of) /\ UNCHANGED used
  /\ \/ count[req[r].of] <= 0 /\ Goes(r, "done")
     \/ Reads(r, "undone", req[r].of)
CountsBack(r) ==
  /\ req[r].pc = "undone" /\ Goes(r, "done") /\ CountAt(req[r].of, req[r].seen - 1)
  /\ UNCHANGED <<used, raced>>
MovesKeyed(r) ==
  /\ req[r].pc \in Keyed /\ Only(r) /\ Still
  /\ req'[r].pc \in Keyed \cup {"done"} /\ req'[r].bg \in {"none", "store"}
CountsAccount(r) ==
  /\ req[r].pc = "bucket" /\ CountAt("account", count["account"] + 1) /\ UNCHANGED raced
  /\ \/ count["account"] + 1 <= Limit["account"] /\ UseAt("account", 1) /\ Goes(r, "mint")
     \/ UNCHANGED used /\ Goes(r, "done")
Stores(r) == req[r].bg = "store" /\ Beside(r, "none") /\ Still

Turn(r) ==
  \/ Begins(r) \/ PeeksGlobal(r) \/ ChecksQuery(r) \/ CountsQuery(r) \/ PeeksDevice(r)
  \/ ReadsGlobal(r) \/ CountsGlobal(r) \/ FailsServe(r) \/ Serves(r) \/ ReadsDevice(r)
  \/ CountsDevice(r) \/ TriesMail(r) \/ CountsMail(r) \/ Sends(r) \/ FailsSend(r)
  \/ ReadsBack(r) \/ CountsBack(r) \/ MovesKeyed(r) \/ CountsAccount(r) \/ Stores(r)

Expires(k) ==
  /\ CountAt(k, 0) /\ \A c \in Counters : used'[c] = IF c = k THEN 0 ELSE used[c]
  /\ \A c \in raced : c = k \/ c \in raced'
  /\ (\E r \in Requests : Between(r, k) \/ Counted(r, k)) => k \in raced'
  /\ \A r \in Requests :
       /\ req'[r].pc = req[r].pc /\ req'[r].of = req[r].of /\ req'[r].seen = req[r].seen
       /\ req'[r].had = req[r].had
       /\ req'[r].bg = req[r].bg \/ (k = "global" /\ req[r].bg \in {"get", "put"} /\ req'[r].bg = "none")
Waits == Still /\ UNCHANGED req

LEMMA OneField ==
  ASSUME Typed, NEW r \in Requests, NEW q, req' = [req EXCEPT ![r] = q]
  PROVE  Only(r) /\ req'[r] = q
  BY DEF Typed, TypeOK, Only

LEMMA Went ==
  ASSUME Typed, NEW r \in Requests, NEW l, Goto(r, l)
  PROVE  Goes(r, l)
<1> DEFINE q == [req[r] EXCEPT !.pc = l]
<1>1. Only(r) /\ req'[r] = q BY OneField DEF Goto
<1>2. req[r] \in Request BY DEF Typed, TypeOK, Request, Anon, Mail, Keyed
<1>3. q.pc = l /\ q.of = req[r].of /\ q.bg = req[r].bg /\ q.had = req[r].had /\ q.seen = req[r].seen
  BY <1>2 DEF Request
<1> HIDE DEF q
<1> QED BY <1>1, <1>3 DEF Goes, Same

LEMMA HasRead ==
  ASSUME Typed, NEW r \in Requests, NEW l, NEW k, Read(r, l, k)
  PROVE  Reads(r, l, k)
<1> DEFINE q == [req[r] EXCEPT !.pc = l, !.seen = count[k]]
<1>0. req' = [req EXCEPT ![r] = q] BY DEF Read, Typed, TypeOK
<1>1. Only(r) /\ req'[r] = q BY <1>0, OneField
<1>2. req[r] \in Request BY DEF Typed, TypeOK, Request, Anon, Mail, Keyed
<1>3. q.pc = l /\ q.of = req[r].of /\ q.bg = req[r].bg /\ q.had = req[r].had /\ q.seen = count[k]
  BY <1>2 DEF Request
<1> HIDE DEF q
<1> QED BY <1>1, <1>3 DEF Reads, Same

\* Every step that fails nothing is of one of these kinds.
LEMMA StepTurns ==
  ASSUME Typed, NEW r \in Requests, Step(r), ~Fault
  PROVE  Turn(r)
<1>r. req[r] \in Request /\ Wf(req[r])
  BY DEF Typed, TypeOK, Request, Anon, Mail, Keyed
<1>c. ASSUME NEW k, NEW n, count' = [count EXCEPT ![k] = n] PROVE CountAt(k, n)
  BY <1>c DEF CountAt, Typed, TypeOK
<1>u. ASSUME NEW k, NEW n, Use(k, n) PROVE UseAt(k, n)
  BY <1>u DEF UseAt, Use, Typed, TypeOK
<1>a. ASSUME NEW k, Race(r, k), UNCHANGED count PROVE RaceAt(r, k)
  BY <1>a DEF RaceAt, Race
<1>0. CASE AskAnon(r) \/ AskMail(r) \/ AskKeyed(r)
  <2>0. PICK l \in {"global", "consume", "lookup"} :
          \E x : req' = [req EXCEPT ![r] = [Idle EXCEPT !.pc = l, !.of = x]]
    BY <1>0 DEF AskAnon, AskMail, AskKeyed
  <2>1. PICK x : req' = [req EXCEPT ![r] = [Idle EXCEPT !.pc = l, !.of = x]] BY <2>0
  <2> DEFINE q == [Idle EXCEPT !.pc = l, !.of = x]
  <2>2. q.pc = l /\ q.bg = "none" BY DEF Idle
  <2>3. Only(r) /\ req'[r] = q BY <2>1, OneField
  <2>4. Still /\ req[r].pc = "idle" BY <1>0 DEF AskAnon, AskMail, AskKeyed, Still, hist
  <2> HIDE DEF q
  <2> QED BY <2>2, <2>3, <2>4 DEF Begins, Turn
<1>1. CASE PeekGlobal(r)
  <2>1. count["global"] \in Nat /\ Limit["global"] \in Nat BY Limits, NamesApart
  <2>2. count["global"] < Limit["global"] \/ Goto(r, "done") BY <1>1, <2>1 DEF PeekGlobal
  <2>3. Goto(r, "done") \/ Goto(r, "query") BY <1>1 DEF PeekGlobal
  <2>4. req[r].pc = "global" /\ RaceAt(r, "global") /\ UNCHANGED used
    BY <1>1, <1>a DEF PeekGlobal
  <2> QED BY <2>2, <2>3, <2>4, Went DEF PeeksGlobal, Turn
<1>2. CASE CheckQuery(r)
  <2>1. count["query"] \in Nat /\ Limit["query"] \in Nat BY Limits, NamesApart
  <2>2. count["query"] < Limit["query"] \/ Goto(r, "done") BY <1>2, <2>1 DEF CheckQuery
  <2>3. Goto(r, "done") \/ Read(r, "queried", "query") BY <1>2 DEF CheckQuery
  <2>4. req[r].pc = "query" /\ RaceAt(r, "query") /\ UNCHANGED used
    BY <1>2, <1>a DEF CheckQuery
  <2> QED BY <2>2, <2>3, <2>4, Went, HasRead DEF ChecksQuery, Turn
<1>3. CASE CountQuery(r)
  BY <1>3, <1>c, <1>u, Went DEF CountQuery, CountsQuery, Turn
<1>4. CASE PeekDevice(r)
  <2>0. req[r].of \in Counters BY <1>4, <1>r, NamesApart DEF PeekDevice, Wf, Anon
  <2>1. count[req[r].of] \in Nat /\ Limit[req[r].of] \in Nat BY <2>0, Limits
  <2>2. req[r].pc = "device" /\ RaceAt(r, req[r].of) BY <1>4, <1>a DEF PeekDevice
  <2>3. CASE count[req[r].of] >= Limit[req[r].of]
    BY <1>4, <2>2, <2>3, Went DEF PeekDevice, PeeksDevice, Turn
  <2>4. CASE ~(count[req[r].of] >= Limit[req[r].of])
    <3> DEFINE q == [req[r] EXCEPT !.pc = "serve", !.bg = "get"]
    <3>1. req' = [req EXCEPT ![r] = q] /\ UseAt("global", 1)
      BY <1>4, <2>4, <1>u DEF PeekDevice, Typed, TypeOK
    <3>2. q.pc = "serve" /\ q.bg = "get" /\ q.of = req[r].of BY <1>r DEF Request
    <3>3. Only(r) /\ req'[r] = q BY <3>1, OneField
    <3> HIDE DEF q
    <3>4. count[req[r].of] < Limit[req[r].of] BY <2>1, <2>4
    <3> QED BY <2>2, <3>1, <3>2, <3>3, <3>4 DEF PeeksDevice, Turn
  <2> QED BY <2>3, <2>4
<1>5. CASE RecordGlobalRead(r)
  <2> DEFINE q == [req[r] EXCEPT !.bg = "put", !.had = count["global"]]
  <2>1. req' = [req EXCEPT ![r] = q] /\ req[r].bg = "get" /\ Still
    BY <1>5 DEF RecordGlobalRead, Typed, TypeOK, Still, hist
  <2>2. /\ q.pc = req[r].pc /\ q.bg = "put" /\ q.of = req[r].of /\ q.seen = req[r].seen
        /\ q.had = count["global"]
    BY <1>r DEF Request
  <2>3. Only(r) /\ req'[r] = q BY <2>1, OneField
  <2> HIDE DEF q
  <2> QED BY <2>1, <2>2, <2>3 DEF ReadsGlobal, Beside, Turn
<1>6. CASE RecordGlobal(r) \/ IdempotencyStore(r)
  <2> DEFINE q == [req[r] EXCEPT !.bg = "none"]
  <2>1. req' = [req EXCEPT ![r] = q] BY <1>6 DEF RecordGlobal, IdempotencyStore
  <2>2. q.pc = req[r].pc /\ q.bg = "none" /\ q.of = req[r].of /\ q.seen = req[r].seen
    BY <1>r DEF Request
  <2>3. Only(r) /\ req'[r] = q BY <2>1, OneField
  <2> HIDE DEF q
  <2>4. Beside(r, "none") BY <2>2, <2>3 DEF Beside
  <2>5. CASE RecordGlobal(r) BY <2>4, <2>5, <1>c DEF RecordGlobal, CountsGlobal, Turn, hist
  <2>6. CASE IdempotencyStore(r) BY <2>4, <2>6 DEF IdempotencyStore, Stores, Still, Turn, hist
  <2> QED BY <1>6, <2>5, <2>6
<1>7. CASE ServeFails(r) BY <1>7, Went DEF ServeFails, FailsServe, Still, Turn, hist
<1>8. CASE Serve(r) BY <1>8, <1>u, Went DEF Serve, Serves, Turn
<1>9. CASE RecordDeviceRead(r)
  BY <1>9, HasRead DEF RecordDeviceRead, ReadsDevice, Still, Turn, hist
<1>10. CASE RecordDevice(r)
  BY <1>10, <1>c, Went DEF RecordDevice, CountsDevice, Turn, hist
<1>11. CASE TryConsume(r)
  <2>0. req[r].of \in Counters BY <1>11, <1>r, NamesApart DEF TryConsume, Wf, Mail
  <2>1. count[req[r].of] \in Nat /\ Limit[req[r].of] \in Nat BY <2>0, Limits
  <2>2. count[req[r].of] < Limit[req[r].of] \/ Goto(r, "done") BY <1>11, <2>1 DEF TryConsume
  <2>3. Goto(r, "done") \/ Read(r, "consumed", req[r].of) BY <1>11 DEF TryConsume
  <2>4. req[r].pc = "consume" /\ RaceAt(r, req[r].of) /\ UNCHANGED used
    BY <1>11, <1>a DEF TryConsume
  <2> QED BY <2>2, <2>3, <2>4, Went, HasRead DEF TriesMail, Turn
<1>12. CASE Consume(r) BY <1>12, <1>c, <1>u, Went DEF Consume, CountsMail, Turn
<1>13. CASE Send(r) BY <1>13, Went DEF Send, Sends, Still, Turn, hist
<1>14. CASE SendFails(r) BY <1>14, <1>u, Went DEF SendFails, FailsSend, Turn
<1>15. CASE RollbackRead(r)
  <2>1. req[r].pc = "undo" /\ RaceAt(r, req[r].of) /\ UNCHANGED used
    BY <1>15, <1>a DEF RollbackRead
  <2>2. (count[req[r].of] <= 0 /\ Goes(r, "done")) \/ Reads(r, "undone", req[r].of)
    BY <1>15, Went, HasRead DEF RollbackRead
  <2> QED BY <2>1, <2>2 DEF ReadsBack, Turn
<1>16. CASE Rollback(r) BY <1>16, <1>c, Went DEF Rollback, CountsBack, Turn, hist
<1>17. CASE IdempotencyLookup(r) \/ MintFails(r)
  <2>1. /\ req[r].pc \in Keyed /\ Still
        /\ Goto(r, "done") \/ Goto(r, "bucket")
    BY <1>17 DEF IdempotencyLookup, MintFails, Still, Keyed, hist
  <2>2. Goes(r, "done") \/ Goes(r, "bucket") BY <2>1, Went
  <2>3. req[r].bg = "none" BY <1>r, <2>1 DEF Wf
  <2> QED BY <2>1, <2>2, <2>3 DEF MovesKeyed, Turn, Goes, Same, Keyed
<1>18. CASE CheckAccount(r)
  <2>1. CountAt("account", count["account"] + 1) /\ UNCHANGED raced /\ req[r].pc = "bucket"
    BY <1>18, <1>c DEF CheckAccount
  <2>2. \/ count["account"] + 1 <= Limit["account"] /\ UseAt("account", 1) /\ Goes(r, "mint")
        \/ UNCHANGED used /\ Goes(r, "done")
    BY <1>18, <1>u, Went DEF CheckAccount
  <2> QED BY <2>1, <2>2 DEF CountsAccount, Turn
<1>19. CASE Mint(r)
  <2> DEFINE q == [req[r] EXCEPT !.pc = "done", !.bg = "store"]
  <2>1. req' = [req EXCEPT ![r] = q] /\ Still /\ req[r].pc \in Keyed
    BY <1>19 DEF Mint, Typed, TypeOK, Still, Keyed
  <2>2. q.pc = "done" /\ q.bg = "store" BY <1>r DEF Request
  <2>3. Only(r) /\ req'[r] = q BY <2>1, OneField
  <2> HIDE DEF q
  <2> QED BY <2>1, <2>2, <2>3 DEF MovesKeyed, Turn
<1> QED BY <1>0, <1>1, <1>2, <1>3, <1>4, <1>5, <1>6, <1>7, <1>8, <1>9, <1>10, <1>11, <1>12,
           <1>13, <1>14, <1>15, <1>16, <1>17, <1>18, <1>19 DEF Step, FailOpen, Break

LEMMA Turns ==
  ASSUME Typed, [Next]_vars, faults' = 0
  PROVE  faults = 0 /\ ((\E r \in Requests : Turn(r)) \/ (\E k \in Counters : Expires(k)) \/ Waits)
<1>0. faults \in Nat BY MaxFaultsAssumption DEF Typed, TypeOK
<1>1. ~Fault BY <1>0 DEF Fault
<1>2. faults' = faults
  BY <1>1, Zenon DEF Next, Step, AskAnon, PeekGlobal, CheckQuery, CountQuery, PeekDevice, RecordGlobalRead,
     RecordGlobal, ServeFails, Serve, RecordDeviceRead, RecordDevice, AskMail, TryConsume, Consume,
     FailOpen, Send, SendFails, RollbackRead, Rollback, AskKeyed, IdempotencyLookup, CheckAccount,
     MintFails, Mint, IdempotencyStore, Break, Expire, ExpireReplay, vars
<1>3. ASSUME NEW k \in Counters, Expire(k) PROVE Expires(k)
  <2>1. \A r \in Requests : req[r] \in Request BY DEF Typed, TypeOK, Request, Anon, Mail, Keyed
  <2>2. CountAt(k, 0) /\ \A c \in Counters : used'[c] = IF c = k THEN 0 ELSE used[c]
    BY <1>3 DEF Expire, CountAt, Typed, TypeOK
  <2>3. ASSUME NEW r \in Requests
        PROVE  /\ req'[r].pc = req[r].pc /\ req'[r].of = req[r].of /\ req'[r].seen = req[r].seen
               /\ req'[r].had = req[r].had
               /\ req'[r].bg = req[r].bg \/ (k = "global" /\ req[r].bg \in {"get", "put"} /\ req'[r].bg = "none")
    <3>1. CASE k = "global" /\ req[r].bg \in {"get", "put"}
      <4>1. req'[r] = [req[r] EXCEPT !.bg = "none"] BY <1>3, <3>1 DEF Expire
      <4> QED BY <2>1, <3>1, <4>1 DEF Request
    <3>2. CASE ~(k = "global" /\ req[r].bg \in {"get", "put"})
      <4>1. req'[r] = req[r] BY <1>3, <3>2 DEF Expire
      <4> QED BY <4>1
    <3> QED BY <3>1, <3>2
  <2>4. /\ \A c \in raced : c = k \/ c \in raced'
        /\ (\E r \in Requests : Between(r, k) \/ Counted(r, k)) => k \in raced'
    BY <1>3 DEF Expire
  <2> QED BY <2>2, <2>3, <2>4 DEF Expires
<1>4. CASE (\E k \in Keys : ExpireReplay(k)) \/ UNCHANGED vars
  BY <1>4 DEF ExpireReplay, vars, hist, Waits, Still
<1> QED BY <1>0, <1>1, <1>2, <1>3, <1>4, StepTurns DEF Next

(***************************************************************************)
(* What each counter is worth while nothing fails and nobody races it.     *)
(***************************************************************************)

Fair(k) == faults = 0 /\ k \notin raced

QueryFits ==
  Fair("query") =>
    /\ count["query"] = used["query"] /\ used["query"] <= Limit["query"]
    /\ \A r \in Requests : req[r].pc = "queried" =>
         /\ req[r].seen = count["query"]
         /\ \A q \in Requests \ {r} : req[q].pc # "queried"

\* The record of the global counter starts only with the work.
Early == \A r \in Requests :
  req[r].pc \in {"global", "query", "queried", "device"} => req[r].bg = "none"

GlobalFits ==
  Fair("global") =>
    /\ \A r, q \in Requests : Between(r, "global") /\ Between(q, "global") => r = q
    /\ used["global"] <= Limit["global"]
    /\ (\A r \in Requests : req[r].bg \notin {"get", "put"}) => count["global"] = used["global"]
    /\ \A r \in Requests :
         /\ req[r].pc \in {"query", "queried", "device"} => used["global"] < Limit["global"]
         /\ req[r].bg \in {"get", "put"} => used["global"] = count["global"] + 1
         /\ req[r].bg = "put" => req[r].had = count["global"]

\* Request r has served d and not recorded it.
Owes(r, d) == req[r].of = d /\ req[r].pc \in {"record", "recorded"}
DeviceFits(d) ==
  Fair(d) =>
    /\ \A r, q \in Requests : Between(r, d) /\ Between(q, d) => r = q
    /\ used[d] <= Limit[d]
    /\ (\A r \in Requests : ~Owes(r, d)) => count[d] = used[d]
    /\ \A r \in Requests :
         /\ req[r].of = d /\ req[r].pc = "serve" => used[d] < Limit[d]
         /\ Owes(r, d) => used[d] = count[d] + 1
         /\ req[r].of = d /\ req[r].pc = "recorded" => req[r].seen = count[d]

\* The mails of e that count and may still fail, and those to be given back.
Sent(e) == {r \in Requests : req[r].of = e /\ req[r].pc = "send"}
Undoing(e) == {r \in Requests : req[r].of = e /\ req[r].pc \in {"undo", "undone"}}
MailFits(e) ==
  Fair(e) =>
    /\ IsFiniteSet(Sent(e)) /\ IsFiniteSet(Undoing(e))
    /\ Cardinality(Sent(e)) <= used[e]
    /\ count[e] = used[e] + Cardinality(Undoing(e))
    /\ \A r, q \in Requests : Between(r, e) /\ Between(q, e) => r = q
    /\ \A r \in Requests : Between(r, e) => req[r].seen = count[e]

AccountFits == faults = 0 => used["account"] <= count["account"] /\ used["account"] <= Limit["account"]

LEMMA Numbers ==
  ASSUME Typed
  PROVE  /\ \A k \in Counters : Limit[k] \in Nat /\ 0 < Limit[k] /\ count[k] \in Nat /\ used[k] \in Int
         /\ \A e \in Emails : count[e] <= Limit[e]
         /\ \A r \in Requests : /\ req[r] \in Request /\ req[r].seen \in Nat /\ req[r].had \in Nat
                                /\ Wf(req[r])
<1>1. \A k \in Counters : Limit[k] \in Nat /\ 0 < Limit[k] /\ count[k] \in Nat /\ used[k] \in Int
  <2>1. \A k \in Counters : Limit[k] \in Nat \ {0} /\ count[k] \in Nat /\ used[k] \in Int
    BY Limits DEF Typed, TypeOK
  <2> QED BY <2>1
<1>2. \A e \in Emails : count[e] <= Limit[e] BY Limits
<1>3. \A r \in Requests : req[r] \in Request /\ Wf(req[r])
  BY DEF Typed, TypeOK, Request, Anon, Mail, Keyed
<1> QED BY <1>1, <1>2, <1>3 DEF Request

LEMMA QueryStep ==
  ASSUME Typed, Typed', QueryFits, faults = 0, NEW r \in Requests, Turn(r)
  PROVE  QueryFits'
<1> SUFFICES ASSUME Fair("query")' PROVE QueryFits' BY DEF QueryFits
<1>n. /\ "query" \in Counters /\ "query" # "global" /\ "query" # "account"
      /\ \A x \in Devices \cup Emails : x # "query"
  BY NamesApart
<1>w. Wf(req[r]) BY Numbers
<1>k. count["query"] \in Nat /\ used["query"] \in Int /\ Limit["query"] \in Nat /\ req[r].seen \in Nat
  BY <1>n, Numbers
<1>f. Fair("query")
  BY DEF Fair, Turn, Begins, PeeksGlobal, ChecksQuery, CountsQuery, PeeksDevice, ReadsGlobal, CountsGlobal,
     FailsServe, Serves, ReadsDevice, CountsDevice, TriesMail, CountsMail, Sends, FailsSend, ReadsBack,
     CountsBack, MovesKeyed, CountsAccount, Stores, Still, RaceAt
<1>o. /\ count["query"] = used["query"] /\ used["query"] <= Limit["query"]
      /\ \A q \in Requests : req[q].pc = "queried" =>
           /\ req[q].seen = count["query"]
           /\ \A p \in Requests \ {q} : req[p].pc # "queried"
  BY <1>f DEF QueryFits
<1>1. CASE ChecksQuery(r)
  <2>1. UNCHANGED <<count, used>> /\ Only(r) BY <1>1 DEF ChecksQuery, RaceAt, Goes, Reads
  <2>2. \A q \in Requests \ {r} : req[q].pc # "queried"
    BY <1>1 DEF ChecksQuery, RaceAt, Fair, Between
  <2>3. req'[r].pc = "done" \/ (req'[r].pc = "queried" /\ req'[r].seen = count["query"])
    BY <1>1 DEF ChecksQuery, Goes, Reads
  <2> QED BY <1>o, <2>1, <2>2, <2>3 DEF QueryFits, Only
<1>2. CASE CountsQuery(r)
  <2>1. count'["query"] = req[r].seen + 1 /\ used'["query"] = used["query"] + 1 /\ Only(r)
        /\ req'[r].pc = "device" /\ req[r].pc = "queried"
    BY <1>2, <1>n DEF CountsQuery, CountAt, UseAt, Goes
  <2>2. req[r].seen < Limit["query"] /\ req[r].seen = count["query"] BY <1>o, <1>w, <2>1 DEF Wf
  <2>3. \A q \in Requests : req'[q].pc # "queried" BY <1>o, <2>1 DEF Only
  <2> QED BY <1>k, <1>o, <2>1, <2>2, <2>3 DEF QueryFits
<1>3. CASE ~ChecksQuery(r) /\ ~CountsQuery(r)
  <2>1. count'["query"] = count["query"] /\ used'["query"] = used["query"]
    BY <1>3, <1>n, <1>w DEF Wf, Anon, Mail, Turn, Begins, PeeksGlobal, PeeksDevice, ReadsGlobal, CountsGlobal,
       FailsServe, Serves, ReadsDevice, CountsDevice, TriesMail, CountsMail, Sends, FailsSend, ReadsBack,
       CountsBack, MovesKeyed, CountsAccount, Stores, Still, RaceAt, CountAt, UseAt
  <2>2. Only(r) /\ (req'[r].pc = "queried" => req[r].pc = "queried" /\ req'[r].seen = req[r].seen)
    BY <1>3 DEF Turn, Begins, PeeksGlobal, PeeksDevice, ReadsGlobal, CountsGlobal,
       FailsServe, Serves, ReadsDevice, CountsDevice, TriesMail, CountsMail, Sends, FailsSend, ReadsBack,
       CountsBack, MovesKeyed, CountsAccount, Stores, Goes, Reads, Beside, Keyed
  <2> QED BY <1>o, <2>1, <2>2 DEF QueryFits, Only
<1> QED BY <1>1, <1>2, <1>3

LEMMA EarlyStep ==
  ASSUME Typed, Early, NEW r \in Requests, Turn(r)
  PROVE  Early'
<1>1. Only(r) /\ (req'[r].pc \in {"global", "query", "queried", "device"} => req'[r].bg = "none")
  BY DEF Early, Turn, Begins, PeeksGlobal, ChecksQuery, CountsQuery, PeeksDevice, ReadsGlobal, CountsGlobal,
     FailsServe, Serves, ReadsDevice, CountsDevice, TriesMail, CountsMail, Sends, FailsSend, ReadsBack,
     CountsBack, MovesKeyed, CountsAccount, Stores, Goes, Reads, Beside, Same, Keyed
<1> QED BY <1>1 DEF Early, Only

\* The requests between their peek at the global counter and its record.
Late(r) == req[r].pc \in {"query", "queried", "device"} \/ req[r].bg \in {"get", "put"}

LEMMA BetweenGlobal ==
  ASSUME Typed, NEW r \in Requests
  PROVE  Between(r, "global") <=> Late(r)
  BY Numbers, NamesApart DEF Between, Late, Wf, Anon, Mail

LEMMA GlobalStep ==
  ASSUME Typed, Typed', Early, GlobalFits, faults = 0, NEW r \in Requests, Turn(r)
  PROVE  GlobalFits'
<1> SUFFICES ASSUME Fair("global")' PROVE GlobalFits' BY DEF GlobalFits
<1>n. /\ "global" \in Counters /\ "global" # "query" /\ "global" # "account"
      /\ \A x \in Devices \cup Emails : x # "global"
  BY NamesApart
<1>w. Wf(req[r]) BY Numbers
<1>k. count["global"] \in Nat /\ used["global"] \in Int /\ Limit["global"] \in Nat /\ req[r].had \in Nat
  BY <1>n, Numbers
<1>f. Fair("global") /\ Only(r)
  BY DEF Fair, Turn, Begins, PeeksGlobal, ChecksQuery, CountsQuery, PeeksDevice, ReadsGlobal, CountsGlobal,
     FailsServe, Serves, ReadsDevice, CountsDevice, TriesMail, CountsMail, Sends, FailsSend, ReadsBack,
     CountsBack, MovesKeyed, CountsAccount, Stores, Still, RaceAt, Goes, Reads, Beside
<1>o. /\ \A p, q \in Requests : Late(p) /\ Late(q) => p = q
      /\ used["global"] <= Limit["global"]
      /\ (\A q \in Requests : req[q].bg \notin {"get", "put"}) => count["global"] = used["global"]
      /\ \A q \in Requests :
           /\ req[q].pc \in {"query", "queried", "device"} => used["global"] < Limit["global"]
           /\ req[q].bg \in {"get", "put"} => used["global"] = count["global"] + 1
           /\ req[q].bg = "put" => req[q].had = count["global"]
  BY <1>f, BetweenGlobal DEF GlobalFits
<1>p. \A q \in Requests \ {r} : req'[q] = req[q] BY <1>f DEF Only
<1> SUFFICES /\ \A p, q \in Requests : Late(p)' /\ Late(q)' => p = q
             /\ used'["global"] <= Limit["global"]
             /\ (\A q \in Requests : req'[q].bg \notin {"get", "put"}) => count'["global"] = used'["global"]
             /\ \A q \in Requests :
                  /\ req'[q].pc \in {"query", "queried", "device"} => used'["global"] < Limit["global"]
                  /\ req'[q].bg \in {"get", "put"} => used'["global"] = count'["global"] + 1
                  /\ req'[q].bg = "put" => req'[q].had = count'["global"]
  <2>1. \A q \in Requests : Between(q, "global")' <=> Late(q)'
    BY <1>n, Numbers DEF Between, Late, Typed, Wf, Anon, Mail
  <2> QED BY <2>1 DEF GlobalFits
<1>1. CASE PeeksGlobal(r)
  <2>1. UNCHANGED <<count, used>> /\ req'[r].bg = "none" /\ req[r].bg = "none"
    BY <1>1 DEF PeeksGlobal, RaceAt, Goes, Same, Early
  <2>2. \A q \in Requests \ {r} : ~Late(q) BY <1>1, BetweenGlobal DEF PeeksGlobal, RaceAt, Fair
  <2>3. count["global"] = used["global"] BY <1>o, <2>1, <2>2 DEF Late
  <2>4. req'[r].pc = "done" \/ (req'[r].pc = "query" /\ count["global"] < Limit["global"])
    BY <1>1 DEF PeeksGlobal, Goes
  <2> QED BY <1>p, <1>o, <2>1, <2>2, <2>3, <2>4 DEF Late
<1>2. CASE PeeksDevice(r)
  <2>1. req[r].pc = "device" /\ Late(r) /\ req[r].bg = "none" /\ UNCHANGED count
    BY <1>2 DEF PeeksDevice, Late, Early, RaceAt
  <2>2. \A q \in Requests \ {r} : ~Late(q) BY <1>o, <2>1
  <2>3. count["global"] = used["global"] /\ used["global"] < Limit["global"]
    BY <1>o, <2>1, <2>2 DEF Late
  <2>4. CASE Goes(r, "done") /\ UNCHANGED used
    BY <1>p, <2>1, <2>2, <2>3, <2>4, <1>k DEF Late, Goes, Same
  <2>5. CASE UseAt("global", 1) /\ req'[r].pc = "serve" /\ req'[r].bg = "get"
    <3>1. used'["global"] = used["global"] + 1 BY <1>n, <2>5 DEF UseAt
    <3> QED BY <1>k, <1>p, <2>1, <2>2, <2>3, <2>5, <3>1 DEF Late
  <2> QED BY <1>2, <2>4, <2>5 DEF PeeksDevice
<1>3. CASE ReadsGlobal(r)
  BY <1>3, <1>p, <1>o DEF ReadsGlobal, Beside, Still, Late
<1>4. CASE CountsGlobal(r)
  <2>1. /\ req[r].bg = "put" /\ req'[r].bg = "none" /\ req'[r].pc = req[r].pc /\ UNCHANGED used
        /\ count'["global"] = req[r].had + 1
    BY <1>4, <1>n DEF CountsGlobal, Beside, CountAt
  <2>2. \A q \in Requests \ {r} : ~Late(q) BY <1>o, <2>1 DEF Late
  <2>3. count'["global"] = used["global"] BY <1>o, <2>1
  <2>4. req[r].pc \notin {"query", "queried", "device"} BY <2>1 DEF Early
  <2> QED BY <1>p, <1>o, <2>1, <2>2, <2>3, <2>4 DEF Late
<1>5. CASE ~PeeksGlobal(r) /\ ~PeeksDevice(r) /\ ~ReadsGlobal(r) /\ ~CountsGlobal(r)
  <2>1. count'["global"] = count["global"] /\ used'["global"] = used["global"]
    BY <1>5, <1>n, <1>w DEF Wf, Anon, Mail, Turn, Begins, ChecksQuery, CountsQuery,
       FailsServe, Serves, ReadsDevice, CountsDevice, TriesMail, CountsMail, Sends, FailsSend, ReadsBack,
       CountsBack, MovesKeyed, CountsAccount, Stores, Still, RaceAt, CountAt, UseAt
  <2>2. /\ req'[r].pc \in {"query", "queried", "device"} => req[r].pc \in {"query", "queried", "device"}
        /\ req'[r].bg \in {"get", "put"} <=> req[r].bg \in {"get", "put"}
        /\ req'[r].bg = "put" => req[r].bg = "put" /\ req'[r].had = req[r].had
    BY <1>5, <1>w DEF Wf, Keyed, Turn, Begins, ChecksQuery, CountsQuery,
       FailsServe, Serves, ReadsDevice, CountsDevice, TriesMail, CountsMail, Sends, FailsSend, ReadsBack,
       CountsBack, MovesKeyed, CountsAccount, Stores, Goes, Reads, Beside, Same
  <2>3. \A q \in Requests : Late(q)' => Late(q) BY <1>p, <2>2 DEF Late
  <2>4. \A q \in Requests :
          /\ req'[q].pc \in {"query", "queried", "device"} => req[q].pc \in {"query", "queried", "device"}
          /\ req'[q].bg \in {"get", "put"} <=> req[q].bg \in {"get", "put"}
          /\ req'[q].bg = "put" => req[q].bg = "put" /\ req'[q].had = req[q].had
    BY <1>p, <2>2
  <2> QED BY <1>o, <2>1, <2>3, <2>4
<1> QED BY <1>1, <1>2, <1>3, <1>4, <1>5

LEMMA DeviceStep ==
  ASSUME Typed, Typed', NEW d \in Devices, DeviceFits(d), faults = 0, NEW r \in Requests, Turn(r)
  PROVE  DeviceFits(d)'
<1> SUFFICES ASSUME Fair(d)' PROVE DeviceFits(d)' BY DEF DeviceFits
<1>n. /\ d \in Counters /\ d # "query" /\ d # "account" /\ d # "global"
      /\ \A e \in Emails : e # d
  BY NamesApart
<1>w. Wf(req[r]) BY Numbers
<1>k. count[d] \in Nat /\ used[d] \in Int /\ Limit[d] \in Nat BY <1>n, Numbers
<1>f. Fair(d) /\ Only(r)
  BY DEF Fair, Turn, Begins, PeeksGlobal, ChecksQuery, CountsQuery, PeeksDevice, ReadsGlobal, CountsGlobal,
     FailsServe, Serves, ReadsDevice, CountsDevice, TriesMail, CountsMail, Sends, FailsSend, ReadsBack,
     CountsBack, MovesKeyed, CountsAccount, Stores, Still, RaceAt, Goes, Reads, Beside
<1> DEFINE In(q) == req[q].of = d /\ req[q].pc \in {"serve", "record", "recorded"}
<1>b. \A q \in Requests : Between(q, d) <=> In(q) BY <1>n, Numbers DEF Between, Wf, Mail
<1>c. \A q \in Requests : Between(q, d)' <=> In(q)' BY <1>n, Numbers DEF Between, Typed, Wf, Mail
<1>o. /\ \A p, q \in Requests : In(p) /\ In(q) => p = q
      /\ used[d] <= Limit[d]
      /\ (\A q \in Requests : ~Owes(q, d)) => count[d] = used[d]
      /\ \A q \in Requests :
           /\ req[q].of = d /\ req[q].pc = "serve" => used[d] < Limit[d]
           /\ Owes(q, d) => used[d] = count[d] + 1
           /\ req[q].of = d /\ req[q].pc = "recorded" => req[q].seen = count[d]
  BY <1>f, <1>b DEF DeviceFits
<1>p. \A q \in Requests \ {r} : req'[q] = req[q] BY <1>f DEF Only
<1>q. ASSUME /\ \A p, q \in Requests : In(p)' /\ In(q)' => p = q
             /\ used'[d] <= Limit[d]
             /\ (\A q \in Requests : ~Owes(q, d)') => count'[d] = used'[d]
             /\ \A q \in Requests :
                  /\ req'[q].of = d /\ req'[q].pc = "serve" => used'[d] < Limit[d]
                  /\ Owes(q, d)' => used'[d] = count'[d] + 1
                  /\ req'[q].of = d /\ req'[q].pc = "recorded" => req'[q].seen = count'[d]
      PROVE  DeviceFits(d)'
  BY <1>c, <1>q DEF DeviceFits
<1>1. CASE PeeksDevice(r) /\ req[r].of = d
  <2>1. req[r].pc = "device" /\ UNCHANGED count BY <1>1 DEF PeeksDevice, RaceAt
  <2>2. \A q \in Requests \ {r} : ~In(q) BY <1>1, <1>b DEF PeeksDevice, RaceAt, Fair
  <2>3. ~In(r) /\ \A q \in Requests : ~Owes(q, d) BY <2>1, <2>2 DEF Owes
  <2>4. count[d] = used[d] /\ used'[d] = used[d] BY <1>1, <1>o, <1>n, <2>3 DEF PeeksDevice, UseAt
  <2>5. req'[r].pc = "done" \/ (req'[r].pc = "serve" /\ count[d] < Limit[d])
    BY <1>1 DEF PeeksDevice, Goes
  <2>6. \A q \in Requests : ~Owes(q, d)' BY <1>p, <2>3, <2>5 DEF Owes
  <2>7. \A q \in Requests \ {r} : ~In(q)' BY <1>p, <2>2
  <2>8. \A q \in Requests : req'[q].of = d /\ req'[q].pc = "serve" => used'[d] < Limit[d]
    BY <2>4, <2>5, <2>7
  <2>9. \A q \in Requests : ~(req'[q].of = d /\ req'[q].pc = "recorded") BY <2>6 DEF Owes
  <2> QED BY <1>o, <1>q, <2>1, <2>4, <2>6, <2>7, <2>8, <2>9
<1>2. CASE req[r].of = d /\ (FailsServe(r) \/ Serves(r) \/ ReadsDevice(r) \/ CountsDevice(r))
  <2>1. In(r) /\ req'[r].of = d
    BY <1>2 DEF FailsServe, Serves, ReadsDevice, CountsDevice, Goes, Reads, Same
  <2>2. \A q \in Requests \ {r} : ~In(q) /\ ~In(q)' /\ ~Owes(q, d) /\ ~Owes(q, d)'
    BY <1>o, <1>p, <2>1 DEF Owes
  <2>3. CASE FailsServe(r)
    <3>1. req[r].pc = "serve" /\ req'[r].pc = "done" /\ UNCHANGED <<count, used>>
      BY <2>3 DEF FailsServe, Goes, Still
    <3>2. count[d] = used[d] BY <1>o, <2>2, <3>1 DEF Owes
    <3> QED BY <1>o, <1>q, <2>2, <3>1, <3>2 DEF Owes
  <2>4. CASE Serves(r)
    <3>1. req[r].pc = "serve" /\ req'[r].pc = "record" /\ UNCHANGED count /\ used'[d] = used[d] + 1
      BY <1>2, <1>n, <2>4 DEF Serves, Goes, UseAt
    <3>2. count[d] = used[d] /\ used[d] < Limit[d] BY <1>2, <1>o, <2>2, <3>1 DEF Owes
    <3> QED BY <1>k, <1>q, <2>1, <2>2, <3>1, <3>2 DEF Owes
  <2>5. CASE ReadsDevice(r)
    <3>1. /\ req[r].pc = "record" /\ req'[r].pc = "recorded" /\ UNCHANGED <<count, used>>
          /\ req'[r].seen = count[d]
      BY <1>2, <2>5 DEF ReadsDevice, Reads, Still
    <3>2. used[d] = count[d] + 1 BY <1>2, <1>o, <3>1 DEF Owes
    <3> QED BY <1>o, <1>q, <2>1, <2>2, <3>1, <3>2 DEF Owes
  <2>6. CASE CountsDevice(r)
    <3>1. /\ req[r].pc = "recorded" /\ req'[r].pc = "done" /\ UNCHANGED used
          /\ count'[d] = req[r].seen + 1
      BY <1>2, <1>n, <2>6 DEF CountsDevice, Goes, CountAt
    <3>2. used[d] = count[d] + 1 /\ req[r].seen = count[d] BY <1>2, <1>o, <3>1 DEF Owes
    <3> QED BY <1>o, <1>q, <2>2, <3>1, <3>2 DEF Owes
  <2> QED BY <1>2, <2>3, <2>4, <2>5, <2>6
<1>3. CASE /\ ~(req[r].of = d /\ PeeksDevice(r))
           /\ ~(req[r].of = d /\ (FailsServe(r) \/ Serves(r) \/ ReadsDevice(r) \/ CountsDevice(r)))
  <2>1. count'[d] = count[d] /\ used'[d] = used[d]
    BY <1>3, <1>n, <1>w DEF Wf, Anon, Mail, Turn, Begins, PeeksGlobal, ChecksQuery, CountsQuery, PeeksDevice,
       ReadsGlobal, CountsGlobal, FailsServe, Serves, ReadsDevice, CountsDevice, TriesMail, CountsMail,
       Sends, FailsSend, ReadsBack, CountsBack, MovesKeyed, CountsAccount, Stores, Still, RaceAt,
       CountAt, UseAt
  <2>2. \/ ~In(r)'
        \/ req'[r].of = req[r].of /\ req'[r].pc = req[r].pc /\ req'[r].seen = req[r].seen
    BY <1>3 DEF Keyed, Turn, Begins, PeeksGlobal, ChecksQuery, CountsQuery, PeeksDevice,
       ReadsGlobal, CountsGlobal, FailsServe, Serves, ReadsDevice, CountsDevice, TriesMail, CountsMail,
       Sends, FailsSend, ReadsBack, CountsBack, MovesKeyed, CountsAccount, Stores, Goes, Reads, Beside, Same
  <2>3. Owes(r, d) => Owes(r, d)'
    BY <1>3, <1>w DEF Owes, Wf, Keyed, Turn, Begins, PeeksGlobal, ChecksQuery, CountsQuery, PeeksDevice,
       ReadsGlobal, CountsGlobal, FailsServe, Serves, ReadsDevice, CountsDevice, TriesMail, CountsMail,
       Sends, FailsSend, ReadsBack, CountsBack, MovesKeyed, CountsAccount, Stores, Goes, Reads, Beside, Same
  <2>4. \A q \in Requests : In(q)' => /\ In(q) /\ req'[q].of = req[q].of
                                      /\ req'[q].pc = req[q].pc /\ req'[q].seen = req[q].seen
    BY <1>p, <2>2
  <2>5. \A q \in Requests : Owes(q, d)' <=> Owes(q, d) BY <1>p, <2>3, <2>4 DEF Owes
  <2>6. \A q \in Requests : req'[q].of = d /\ req'[q].pc \in {"serve", "recorded"} =>
          req[q].of = d /\ req[q].pc = req'[q].pc /\ req[q].seen = req'[q].seen
    BY <2>4
  <2> QED BY <1>o, <1>q, <2>1, <2>4, <2>5, <2>6
<1> QED BY <1>1, <1>2, <1>3

LEMMA OneMore ==
  ASSUME NEW S, IsFiniteSet(S), NEW x
  PROVE  /\ Cardinality(S) \in Nat
         /\ x \notin S => /\ IsFiniteSet(S \cup {x}) /\ Cardinality(S \cup {x}) = Cardinality(S) + 1
         /\ x \in S => /\ IsFiniteSet(S \ {x}) /\ Cardinality(S \ {x}) = Cardinality(S) - 1
                       /\ 0 < Cardinality(S)
<1>1. Cardinality(S) \in Nat BY FS_CardinalityType
<1>2. x \notin S => /\ IsFiniteSet(S \cup {x}) /\ Cardinality(S \cup {x}) = Cardinality(S) + 1
  BY FS_AddElement
<1>3. x \in S => /\ IsFiniteSet(S \ {x}) /\ Cardinality(S \ {x}) = Cardinality(S) - 1
                 /\ Cardinality(S \ {x}) \in Nat
  BY FS_RemoveElement, FS_CardinalityType
<1>4. x \in S => 0 < Cardinality(S) BY <1>1, <1>3
<1> QED BY <1>1, <1>2, <1>3, <1>4

LEMMA MailStep ==
  ASSUME Typed, Typed', NEW e \in Emails, MailFits(e), faults = 0, NEW r \in Requests, Turn(r)
  PROVE  MailFits(e)'
<1> SUFFICES ASSUME Fair(e)' PROVE MailFits(e)' BY DEF MailFits
<1>n. /\ e \in Counters /\ e # "query" /\ e # "account" /\ e # "global"
      /\ \A d \in Devices : e # d
  BY NamesApart
<1>w. Wf(req[r]) BY Numbers
<1>k. count[e] \in Nat /\ used[e] \in Int /\ Limit[e] \in Nat BY <1>n, Numbers
<1>f. Fair(e) /\ Only(r)
  BY DEF Fair, Turn, Begins, PeeksGlobal, ChecksQuery, CountsQuery, PeeksDevice, ReadsGlobal, CountsGlobal,
     FailsServe, Serves, ReadsDevice, CountsDevice, TriesMail, CountsMail, Sends, FailsSend, ReadsBack,
     CountsBack, MovesKeyed, CountsAccount, Stores, Still, RaceAt, Goes, Reads, Beside
<1> DEFINE In(q) == req[q].of = e /\ req[q].pc \in {"consumed", "undone"}
           s == Cardinality(Sent(e))
           u == Cardinality(Undoing(e))
<1>b. \A q \in Requests : Between(q, e) <=> In(q) BY <1>n, Numbers DEF Between, Wf, Anon
<1>c. \A q \in Requests : Between(q, e)' <=> In(q)' BY <1>n, Numbers DEF Between, Typed, Wf, Anon
<1>o. /\ IsFiniteSet(Sent(e)) /\ IsFiniteSet(Undoing(e))
      /\ s <= used[e] /\ count[e] = used[e] + u
      /\ \A p, q \in Requests : In(p) /\ In(q) => p = q
      /\ \A q \in Requests : In(q) => req[q].seen = count[e]
  BY <1>f, <1>b DEF MailFits
<1>s. s \in Nat /\ u \in Nat BY <1>o, FS_CardinalityType
<1>p. \A q \in Requests \ {r} : req'[q] = req[q] BY <1>f DEF Only
<1>q. ASSUME /\ IsFiniteSet(Sent(e)') /\ IsFiniteSet(Undoing(e)')
             /\ Cardinality(Sent(e)') <= used'[e]
             /\ count'[e] = used'[e] + Cardinality(Undoing(e)')
             /\ \A p, q \in Requests : In(p)' /\ In(q)' => p = q
             /\ \A q \in Requests : In(q)' => req'[q].seen = count'[e]
      PROVE  MailFits(e)'
  BY <1>c, <1>q DEF MailFits
<1>r. \A q \in Requests \ {r} : (q \in Sent(e)' <=> q \in Sent(e)) /\ (q \in Undoing(e)' <=> q \in Undoing(e))
  BY <1>p DEF Sent, Undoing
<1>i. Sent(e) \subseteq Requests /\ Undoing(e) \subseteq Requests
      /\ Sent(e)' \subseteq Requests /\ Undoing(e)' \subseteq Requests
  BY DEF Sent, Undoing
<1>1. CASE TriesMail(r) /\ req[r].of = e
  <2>1. /\ req[r].pc = "consume" /\ UNCHANGED <<count, used>>
        /\ req'[r].pc = "done" \/ (req'[r].pc = "consumed" /\ req'[r].seen = count[e])
    BY <1>1 DEF TriesMail, RaceAt, Goes, Reads
  <2>2. \A q \in Requests \ {r} : ~In(q) BY <1>1, <1>b DEF TriesMail, RaceAt, Fair
  <2>3. r \notin Sent(e) /\ r \notin Sent(e)' /\ r \notin Undoing(e) /\ r \notin Undoing(e)'
    BY <2>1 DEF Sent, Undoing
  <2>4. Sent(e)' = Sent(e) /\ Undoing(e)' = Undoing(e) BY <1>i, <1>r, <2>3
  <2>5. \A q \in Requests \ {r} : ~In(q)' BY <1>p, <2>2
  <2> QED BY <1>o, <1>q, <2>1, <2>4, <2>5
<1>2. CASE CountsMail(r) /\ req[r].of = e
  <2>1. /\ req[r].pc = "consumed" /\ req'[r].pc = "send" /\ req'[r].of = e
        /\ count'[e] = req[r].seen + 1 /\ used'[e] = used[e] + 1
    BY <1>2, <1>n DEF CountsMail, Goes, Same, CountAt, UseAt
  <2>2. req[r].seen = count[e] /\ \A q \in Requests : ~In(q)' BY <1>2, <1>o, <1>p, <2>1
  <2>3. r \notin Sent(e) /\ r \in Sent(e)' /\ r \notin Undoing(e) /\ r \notin Undoing(e)'
    BY <2>1 DEF Sent, Undoing
  <2>4. Sent(e)' = Sent(e) \cup {r} /\ Undoing(e)' = Undoing(e) BY <1>i, <1>r, <2>3
  <2>5. IsFiniteSet(Sent(e)') /\ Cardinality(Sent(e)') = s + 1 BY <1>o, <2>3, <2>4, OneMore
  <2>6. Cardinality(Undoing(e)') = u BY <2>4
  <2> HIDE DEF s, u
  <2>7. Cardinality(Sent(e)') <= used'[e] /\ count'[e] = used'[e] + Cardinality(Undoing(e)')
    BY <1>k, <1>o, <1>s, <2>1, <2>2, <2>5, <2>6
  <2> QED BY <1>o, <1>q, <2>2, <2>4, <2>5, <2>7
<1>3. CASE (Sends(r) \/ FailsSend(r)) /\ req[r].of = e
  <2>1. /\ req[r].pc = "send" /\ UNCHANGED count
        /\ \/ Sends(r) /\ req'[r].pc = "done" /\ used'[e] = used[e]
           \/ FailsSend(r) /\ req'[r].pc = "undo" /\ req'[r].of = e /\ used'[e] = used[e] - 1
    BY <1>3, <1>n, <1>k DEF Sends, FailsSend, Goes, Same, Still, UseAt
  <2>2. \A q \in Requests : In(q)' => In(q) /\ req'[q].seen = req[q].seen BY <1>p, <2>1
  <2>3. r \in Sent(e) /\ r \notin Sent(e)' /\ r \notin Undoing(e) /\ (r \in Undoing(e)' <=> FailsSend(r))
    <3>1. Sends(r) => req'[r].pc = "done" BY DEF Sends, Goes
    <3>2. FailsSend(r) => req'[r].pc = "undo" BY DEF FailsSend, Goes
    <3> QED BY <1>3, <2>1, <3>1, <3>2 DEF Sent, Undoing
  <2>4. Sent(e)' = Sent(e) \ {r} BY <1>i, <1>r, <2>3
  <2>5. IsFiniteSet(Sent(e)') /\ Cardinality(Sent(e)') = s - 1 BY <1>o, <2>3, <2>4, OneMore
  <2>6. CASE FailsSend(r)
    <3>1. used'[e] = used[e] - 1
      <4>1. req'[r].pc = "undo" BY <2>6 DEF FailsSend, Goes
      <4> QED BY <2>1, <4>1
    <3>2. Undoing(e)' = Undoing(e) \cup {r} BY <1>i, <1>r, <2>3, <2>6
    <3>3. IsFiniteSet(Undoing(e)') /\ Cardinality(Undoing(e)') = u + 1 BY <1>o, <2>3, <3>2, OneMore
    <3> HIDE DEF s, u
    <3>4. Cardinality(Sent(e)') <= used'[e] /\ count'[e] = used'[e] + Cardinality(Undoing(e)')
      BY <1>k, <1>o, <1>s, <2>1, <2>5, <3>1, <3>3
    <3>5. \A q \in Requests : In(q)' => req'[q].seen = count'[e] BY <1>o, <2>1, <2>2
    <3>6. \A p, q \in Requests : In(p)' /\ In(q)' => p = q BY <1>o, <2>2
    <3> QED BY <1>q, <2>5, <3>3, <3>4, <3>5, <3>6
  <2>7. CASE ~FailsSend(r)
    <3>1. used'[e] = used[e] BY <2>1, <2>7
    <3>2. Undoing(e)' = Undoing(e) BY <1>i, <1>r, <2>3, <2>7
    <3>3. Cardinality(Undoing(e)') = u BY <3>2
    <3> HIDE DEF s, u
    <3>4. Cardinality(Sent(e)') <= used'[e] /\ count'[e] = used'[e] + Cardinality(Undoing(e)')
      BY <1>k, <1>o, <1>s, <2>1, <2>5, <3>1, <3>3
    <3>5. \A q \in Requests : In(q)' => req'[q].seen = count'[e] BY <1>o, <2>1, <2>2
    <3>6. \A p, q \in Requests : In(p)' /\ In(q)' => p = q BY <1>o, <2>2
    <3> QED BY <1>o, <1>q, <2>5, <3>2, <3>4, <3>5, <3>6
  <2> QED BY <2>6, <2>7
<1>4. CASE ReadsBack(r) /\ req[r].of = e
  <2>1. req[r].pc = "undo" /\ UNCHANGED <<count, used>> BY <1>4 DEF ReadsBack, RaceAt
  <2>2. r \in Undoing(e) /\ r \notin Sent(e) BY <1>4, <2>1 DEF Undoing, Sent
  <2>3. 0 < u BY <1>o, <2>2, OneMore
  <2>4. ~(count[e] <= 0)
    <3> HIDE DEF s, u
    <3> QED BY <1>k, <1>o, <1>s, <2>3
  <2>5. req'[r].pc = "undone" /\ req'[r].seen = count[e] /\ req'[r].of = e
    BY <1>4, <2>4 DEF ReadsBack, Reads, Same
  <2>6. \A q \in Requests \ {r} : ~In(q) BY <1>4, <1>b DEF ReadsBack, RaceAt, Fair
  <2>7. r \in Undoing(e)' /\ r \notin Sent(e)' BY <2>5 DEF Undoing, Sent
  <2>8. Sent(e)' = Sent(e) /\ Undoing(e)' = Undoing(e) BY <1>i, <1>r, <2>2, <2>7
  <2>9. \A q \in Requests \ {r} : ~In(q)' BY <1>p, <2>6
  <2> QED BY <1>o, <1>q, <2>1, <2>5, <2>8, <2>9
<1>5. CASE CountsBack(r) /\ req[r].of = e
  <2>1. /\ req[r].pc = "undone" /\ req'[r].pc = "done" /\ UNCHANGED used
        /\ count'[e] = req[r].seen - 1
    BY <1>5, <1>n DEF CountsBack, Goes, CountAt
  <2>2. req[r].seen = count[e] /\ \A q \in Requests : ~In(q)' BY <1>5, <1>o, <1>p, <2>1
  <2>3. r \notin Sent(e) /\ r \notin Sent(e)' /\ r \in Undoing(e) /\ r \notin Undoing(e)'
    BY <1>5, <2>1 DEF Sent, Undoing
  <2>4. Sent(e)' = Sent(e) /\ Undoing(e)' = Undoing(e) \ {r} BY <1>i, <1>r, <2>3
  <2>5. IsFiniteSet(Undoing(e)') /\ Cardinality(Undoing(e)') = u - 1 BY <1>o, <2>3, <2>4, OneMore
  <2>6. Cardinality(Sent(e)') = s BY <2>4
  <2> HIDE DEF s, u
  <2>7. Cardinality(Sent(e)') <= used'[e] /\ count'[e] = used'[e] + Cardinality(Undoing(e)')
    BY <1>k, <1>o, <1>s, <2>1, <2>2, <2>5, <2>6
  <2> QED BY <1>o, <1>q, <2>2, <2>4, <2>5, <2>7
<1>6. CASE ~(/\ req[r].of = e
             /\ \/ TriesMail(r) \/ CountsMail(r) \/ Sends(r) \/ FailsSend(r) \/ ReadsBack(r)
                \/ CountsBack(r))
  <2>1. count'[e] = count[e] /\ used'[e] = used[e]
    BY <1>6, <1>n, <1>w DEF Wf, Anon, Mail, Turn, Begins, PeeksGlobal, ChecksQuery, CountsQuery, PeeksDevice,
       ReadsGlobal, CountsGlobal, FailsServe, Serves, ReadsDevice, CountsDevice, TriesMail, CountsMail,
       Sends, FailsSend, ReadsBack, CountsBack, MovesKeyed, CountsAccount, Stores, Still, RaceAt,
       CountAt, UseAt
  <2>2. \/ ~(req'[r].of = e /\ req'[r].pc \in {"consumed", "undone", "send", "undo"})
        \/ req'[r].of = req[r].of /\ req'[r].pc = req[r].pc /\ req'[r].seen = req[r].seen
    BY <1>6 DEF Keyed, Turn, Begins, PeeksGlobal, ChecksQuery, CountsQuery, PeeksDevice,
       ReadsGlobal, CountsGlobal, FailsServe, Serves, ReadsDevice, CountsDevice, TriesMail, CountsMail,
       Sends, FailsSend, ReadsBack, CountsBack, MovesKeyed, CountsAccount, Stores, Goes, Reads, Beside, Same
  <2>3. req[r].of = e /\ req[r].pc \in {"send", "undo", "undone"} =>
          req'[r].of = e /\ req'[r].pc = req[r].pc
    BY <1>6, <1>w DEF Wf, Keyed, Turn, Begins, PeeksGlobal, ChecksQuery, CountsQuery, PeeksDevice,
       ReadsGlobal, CountsGlobal, FailsServe, Serves, ReadsDevice, CountsDevice, TriesMail, CountsMail,
       Sends, FailsSend, ReadsBack, CountsBack, MovesKeyed, CountsAccount, Stores, Goes, Reads, Beside, Same
  <2>4. (r \in Sent(e)' <=> r \in Sent(e)) /\ (r \in Undoing(e)' <=> r \in Undoing(e))
    BY <2>2, <2>3 DEF Sent, Undoing
  <2>5. Sent(e)' = Sent(e) /\ Undoing(e)' = Undoing(e) BY <1>i, <1>r, <2>4
  <2>6. \A q \in Requests : In(q)' => In(q) /\ req'[q].seen = req[q].seen BY <1>p, <2>2
  <2>7. \A p, q \in Requests : In(p)' /\ In(q)' => p = q BY <1>o, <2>6
  <2>8. \A q \in Requests : In(q)' => req'[q].seen = count'[e] BY <1>o, <2>1, <2>6
  <2> QED BY <1>o, <1>q, <2>1, <2>5, <2>7, <2>8
<1> QED BY <1>1, <1>2, <1>3, <1>4, <1>5, <1>6

LEMMA AccountStep ==
  ASSUME Typed, AccountFits, faults = 0, NEW r \in Requests, Turn(r)
  PROVE  AccountFits'
<1>n. /\ "account" \in Counters /\ "account" # "query" /\ "account" # "global"
      /\ \A x \in Devices \cup Emails : x # "account"
  BY NamesApart
<1>w. Wf(req[r]) BY Numbers
<1>k. count["account"] \in Nat /\ used["account"] \in Int /\ Limit["account"] \in Nat BY <1>n, Numbers
<1>o. used["account"] <= count["account"] /\ used["account"] <= Limit["account"] BY DEF AccountFits
<1>1. CASE CountsAccount(r)
  <2>1. count'["account"] = count["account"] + 1 BY <1>1, <1>n DEF CountsAccount, CountAt
  <2>2. \/ used'["account"] = used["account"]
        \/ used'["account"] = used["account"] + 1 /\ count["account"] + 1 <= Limit["account"]
    BY <1>1, <1>n DEF CountsAccount, UseAt
  <2> QED BY <1>k, <1>o, <2>1, <2>2 DEF AccountFits
<1>2. CASE ~CountsAccount(r)
  <2>1. count'["account"] = count["account"] /\ used'["account"] = used["account"]
    BY <1>2, <1>n, <1>w DEF Wf, Anon, Mail, Turn, Begins, PeeksGlobal, ChecksQuery, CountsQuery, PeeksDevice,
       ReadsGlobal, CountsGlobal, FailsServe, Serves, ReadsDevice, CountsDevice, TriesMail, CountsMail,
       Sends, FailsSend, ReadsBack, CountsBack, MovesKeyed, Stores, Still, RaceAt, CountAt, UseAt
  <2> QED BY <1>o, <2>1 DEF AccountFits
<1> QED BY <1>1, <1>2

(***************************************************************************)
(* A window that ends with nobody in it starts the counter afresh; the     *)
(* other counters keep what they had.                                      *)
(***************************************************************************)

LEMMA Kept ==
  ASSUME NEW k \in Counters, Expires(k), NEW c \in Counters, c # k, faults = 0, Fair(c)'
  PROVE  Fair(c) /\ count'[c] = count[c] /\ used'[c] = used[c]
  BY DEF Expires, Fair, CountAt

LEMMA Emptied ==
  ASSUME NEW k \in Counters, Expires(k), Fair(k)'
  PROVE  /\ count'[k] = 0 /\ used'[k] = 0
         /\ \A r \in Requests : ~Between(r, k) /\ ~Counted(r, k)
  BY DEF Expires, Fair, CountAt

LEMMA Stays ==
  ASSUME NEW k, Expires(k), NEW r \in Requests
  PROVE  /\ req'[r].pc = req[r].pc /\ req'[r].of = req[r].of /\ req'[r].seen = req[r].seen
         /\ req'[r].had = req[r].had
         /\ req'[r].bg = req[r].bg \/ (k = "global" /\ req[r].bg \in {"get", "put"} /\ req'[r].bg = "none")
  BY DEF Expires

LEMMA QueryExpires ==
  ASSUME Typed, QueryFits, faults = 0, NEW k \in Counters, Expires(k)
  PROVE  QueryFits'
<1> SUFFICES ASSUME Fair("query")' PROVE QueryFits' BY DEF QueryFits
<1>n. "query" \in Counters /\ Limit["query"] \in Nat
  <2>1. "query" \in Counters BY NamesApart
  <2> QED BY <2>1, Numbers
<1>1. CASE k = "query"
  <2>1. count'["query"] = 0 /\ used'["query"] = 0 /\ \A r \in Requests : ~Between(r, "query")
    BY <1>1, Emptied
  <2>2. \A r \in Requests : req'[r].pc # "queried" BY <2>1, Stays DEF Between
  <2> QED BY <1>n, <2>1, <2>2 DEF QueryFits
<1>2. CASE k # "query"
  <2>1. Fair("query") /\ count'["query"] = count["query"] /\ used'["query"] = used["query"]
    BY <1>n, <1>2, Kept
  <2> QED BY <2>1, Stays DEF QueryFits
<1> QED BY <1>1, <1>2

LEMMA GlobalExpires ==
  ASSUME Typed, Typed', GlobalFits, faults = 0, NEW k \in Counters, Expires(k)
  PROVE  GlobalFits'
<1> SUFFICES ASSUME Fair("global")' PROVE GlobalFits' BY DEF GlobalFits
<1>n. "global" \in Counters /\ Limit["global"] \in Nat /\ \A x \in Devices \cup Emails : x # "global"
  <2>1. "global" \in Counters BY NamesApart
  <2> QED BY <2>1, Numbers, NamesApart
<1>b. \A q \in Requests : Between(q, "global")' <=> Late(q)'
  BY <1>n, Numbers DEF Between, Late, Typed, Wf, Anon, Mail
<1>1. CASE k = "global"
  <2>1. count'["global"] = 0 /\ used'["global"] = 0 /\ \A r \in Requests : ~Between(r, "global")
    BY <1>1, Emptied
  <2>2. \A r \in Requests : ~Late(r)' BY <2>1, BetweenGlobal, Stays DEF Late
  <2> QED BY <1>n, <1>b, <2>1, <2>2 DEF GlobalFits, Late
<1>2. CASE k # "global"
  <2>1. Fair("global") /\ count'["global"] = count["global"] /\ used'["global"] = used["global"]
    BY <1>n, <1>2, Kept
  <2>2. \A r \in Requests :
          /\ req'[r].pc = req[r].pc /\ req'[r].bg = req[r].bg /\ req'[r].had = req[r].had
          /\ Late(r)' <=> Late(r)
    BY <1>2, Stays DEF Late
  <2>3. \A q \in Requests : Between(q, "global")' <=> Between(q, "global") BY <1>b, <2>2, BetweenGlobal
  <2> QED BY <2>1, <2>2, <2>3 DEF GlobalFits
<1> QED BY <1>1, <1>2

LEMMA DeviceExpires ==
  ASSUME Typed, Typed', NEW d \in Devices, DeviceFits(d), faults = 0, NEW k \in Counters, Expires(k)
  PROVE  DeviceFits(d)'
<1> SUFFICES ASSUME Fair(d)' PROVE DeviceFits(d)' BY DEF DeviceFits
<1>n. d \in Counters /\ Limit[d] \in Nat /\ 0 < Limit[d] /\ d # "global" /\ d # "query"
  <2>1. d \in Counters /\ d # "global" /\ d # "query" BY NamesApart
  <2> QED BY <2>1, Numbers
<1>b. \A q \in Requests : Between(q, d)' <=> Between(q, d) BY <1>n, Stays DEF Between
<1>c. \A q \in Requests : Owes(q, d)' <=> Owes(q, d) BY Stays DEF Owes
<1>1. CASE k = d
  <2>1. count'[d] = 0 /\ used'[d] = 0 /\ \A r \in Requests : ~Between(r, d)
    BY <1>1, Emptied
  <2>2. \A r \in Requests : ~Between(r, d)' /\ ~Owes(r, d)' /\ ~(req'[r].of = d /\ req'[r].pc = "recorded")
    BY <1>b, <1>c, <2>1, Stays DEF Between, Owes
  <2> QED BY <1>n, <2>1, <2>2 DEF DeviceFits
<1>2. CASE k # d
  <2>1. Fair(d) /\ count'[d] = count[d] /\ used'[d] = used[d] BY <1>n, <1>2, Kept
  <2> QED BY <1>b, <1>c, <2>1, Stays DEF DeviceFits
<1> QED BY <1>1, <1>2

LEMMA MailExpires ==
  ASSUME Typed, Typed', NEW e \in Emails, MailFits(e), faults = 0, NEW k \in Counters, Expires(k)
  PROVE  MailFits(e)'
<1> SUFFICES ASSUME Fair(e)' PROVE MailFits(e)' BY DEF MailFits
<1>n. e \in Counters /\ e # "global" /\ e # "query" BY NamesApart
<1>b. \A q \in Requests : Between(q, e)' <=> Between(q, e) BY <1>n, Stays DEF Between
<1>c. Sent(e)' = Sent(e) /\ Undoing(e)' = Undoing(e) BY Stays DEF Sent, Undoing
<1>1. CASE k = e
  <2>1. count'[e] = 0 /\ used'[e] = 0 /\ \A r \in Requests : ~Between(r, e) /\ ~Counted(r, e)
    BY <1>1, Emptied
  <2>2. Sent(e) = {} /\ Undoing(e) = {} BY <2>1 DEF Sent, Undoing, Between, Counted
  <2>3. IsFiniteSet({}) /\ Cardinality({}) = 0 BY FS_EmptySet
  <2>4. /\ IsFiniteSet(Sent(e)') /\ IsFiniteSet(Undoing(e)')
        /\ Cardinality(Sent(e)') = 0 /\ Cardinality(Undoing(e)') = 0
    BY <1>c, <2>2, <2>3
  <2> QED BY <1>b, <2>1, <2>4 DEF MailFits
<1>2. CASE k # e
  <2>1. Fair(e) /\ count'[e] = count[e] /\ used'[e] = used[e] BY <1>n, <1>2, Kept
  <2>2. /\ IsFiniteSet(Sent(e)) /\ IsFiniteSet(Undoing(e))
        /\ Cardinality(Sent(e)) <= used[e]
        /\ count[e] = used[e] + Cardinality(Undoing(e))
        /\ \A r, q \in Requests : Between(r, e) /\ Between(q, e) => r = q
        /\ \A r \in Requests : Between(r, e) => req[r].seen = count[e]
    BY <2>1 DEF MailFits
  <2>3. /\ IsFiniteSet(Sent(e)') /\ IsFiniteSet(Undoing(e)')
        /\ Cardinality(Sent(e)') <= used'[e]
        /\ count'[e] = used'[e] + Cardinality(Undoing(e)')
    BY <1>c, <2>1, <2>2
  <2>4. \A r \in Requests : Between(r, e)' => req'[r].seen = count'[e] BY <1>b, <2>1, <2>2, Stays
  <2> QED BY <1>b, <2>2, <2>3, <2>4 DEF MailFits
<1> QED BY <1>1, <1>2

LEMMA AccountExpires ==
  ASSUME Typed, AccountFits, faults = 0, NEW k \in Counters, Expires(k)
  PROVE  AccountFits'
<1>n. "account" \in Counters BY NamesApart
<1>k. Limit["account"] \in Nat BY <1>n, Numbers
<1>1. CASE k = "account"
  <2>1. count'["account"] = 0 /\ used'["account"] = 0 BY <1>1, <1>n DEF Expires, CountAt
  <2> QED BY <1>k, <2>1 DEF AccountFits
<1>2. CASE k # "account"
  <2>1. count'["account"] = count["account"] /\ used'["account"] = used["account"]
    BY <1>2, <1>n DEF Expires, CountAt
  <2> QED BY <2>1 DEF AccountFits
<1> QED BY <1>1, <1>2

\* While nothing has failed, every counter fits.
Fits ==
  faults = 0 =>
    /\ Early /\ QueryFits /\ GlobalFits /\ AccountFits
    /\ \A d \in Devices : DeviceFits(d)
    /\ \A e \in Emails : MailFits(e)

LEMMA FitsInit == Init => Fits
<1> SUFFICES ASSUME Init PROVE Fits OBVIOUS
<1>t. Typed BY TypeInit
<1>1. \A r \in Requests : req[r].pc = "idle" /\ req[r].bg = "none" BY DEF Init, Idle
<1>2. \A k \in Counters : count[k] = 0 /\ used[k] = 0 /\ Limit[k] \in Nat BY <1>t, Numbers DEF Init
<1>3. \A r \in Requests, k \in Counters : ~Between(r, k)
  BY <1>1, <1>t, Numbers DEF Between
<1>4. Early BY <1>1 DEF Early
<1>5. QueryFits BY <1>1, <1>2, NamesApart DEF QueryFits
<1>6. GlobalFits BY <1>1, <1>2, <1>3, NamesApart DEF GlobalFits
<1>7. AccountFits BY <1>2, NamesApart DEF AccountFits
<1>8. \A d \in Devices : DeviceFits(d) BY <1>1, <1>2, <1>3, NamesApart DEF DeviceFits, Owes
<1>9. ASSUME NEW e \in Emails PROVE MailFits(e)
  <2>1. Sent(e) = {} /\ Undoing(e) = {} BY <1>1 DEF Sent, Undoing
  <2>2. IsFiniteSet({}) /\ Cardinality({}) = 0 BY FS_EmptySet
  <2>3. /\ IsFiniteSet(Sent(e)) /\ IsFiniteSet(Undoing(e))
        /\ Cardinality(Sent(e)) = 0 /\ Cardinality(Undoing(e)) = 0
    BY <2>1, <2>2
  <2>4. e \in Counters BY NamesApart
  <2> QED BY <1>2, <1>3, <2>3, <2>4 DEF MailFits
<1> QED BY <1>4, <1>5, <1>6, <1>7, <1>8, <1>9 DEF Fits

LEMMA FitsStep ==
  ASSUME Typed, Typed', Fits, [Next]_vars
  PROVE  Fits'
<1> SUFFICES ASSUME faults' = 0
             PROVE  /\ Early' /\ QueryFits' /\ GlobalFits' /\ AccountFits'
                    /\ \A d \in Devices : DeviceFits(d)'
                    /\ \A e \in Emails : MailFits(e)'
  BY DEF Fits
<1>0. faults = 0 /\ ((\E r \in Requests : Turn(r)) \/ (\E k \in Counters : Expires(k)) \/ Waits)
  BY Turns
<1>f. /\ Early /\ QueryFits /\ GlobalFits /\ AccountFits
      /\ \A d \in Devices : DeviceFits(d)
      /\ \A e \in Emails : MailFits(e)
  BY <1>0 DEF Fits
<1>1. CASE \E r \in Requests : Turn(r)
  <2>0. PICK r \in Requests : Turn(r) BY <1>1
  <2>1. Early' /\ QueryFits' /\ GlobalFits' /\ AccountFits'
    BY <1>0, <1>f, <2>0, EarlyStep, QueryStep, GlobalStep, AccountStep
  <2>2. ASSUME NEW d \in Devices PROVE DeviceFits(d)'
    <3>1. DeviceFits(d) BY <1>f
    <3> QED BY <1>0, <2>0, <3>1, DeviceStep
  <2>3. ASSUME NEW e \in Emails PROVE MailFits(e)'
    <3>1. MailFits(e) BY <1>f
    <3> QED BY <1>0, <2>0, <3>1, MailStep
  <2> QED BY <2>1, <2>2, <2>3
<1>2. ASSUME NEW k \in Counters, Expires(k)
      PROVE  /\ Early' /\ QueryFits' /\ GlobalFits' /\ AccountFits'
             /\ \A d \in Devices : DeviceFits(d)'
             /\ \A e \in Emails : MailFits(e)'
  <2>1. Early' BY <1>f, <1>2, Stays DEF Early
  <2>2. QueryFits' /\ GlobalFits' /\ AccountFits'
    BY <1>0, <1>f, <1>2, QueryExpires, GlobalExpires, AccountExpires
  <2>3. ASSUME NEW d \in Devices PROVE DeviceFits(d)'
    <3>1. DeviceFits(d) BY <1>f
    <3> QED BY <1>0, <1>2, <3>1, DeviceExpires
  <2>4. ASSUME NEW e \in Emails PROVE MailFits(e)'
    <3>1. MailFits(e) BY <1>f
    <3> QED BY <1>0, <1>2, <3>1, MailExpires
  <2> QED BY <2>1, <2>2, <2>3, <2>4
<1>3. CASE Waits
  <2>1. UNCHANGED <<count, used, raced, req, faults>> BY <1>0, <1>3 DEF Waits, Still
  <2>2. Early' /\ QueryFits' /\ AccountFits'
    BY <1>f, <2>1 DEF Early, QueryFits, AccountFits, Fair
  <2>3. GlobalFits' BY <1>f, <2>1 DEF GlobalFits, Fair, Between
  <2>4. \A d \in Devices : DeviceFits(d)' BY <1>f, <2>1 DEF DeviceFits, Fair, Between, Owes
  <2>5. ASSUME NEW e \in Emails PROVE MailFits(e)'
    <3>1. MailFits(e) BY <1>f
    <3>2. Sent(e)' = Sent(e) /\ Undoing(e)' = Undoing(e) /\ (Fair(e)' <=> Fair(e))
      BY <2>1 DEF Sent, Undoing, Fair
    <3>3. \A r \in Requests : Between(r, e)' <=> Between(r, e) BY <2>1 DEF Between
    <3> QED BY <2>1, <3>1, <3>2, <3>3 DEF MailFits
  <2> QED BY <2>2, <2>3, <2>4, <2>5
<1> QED BY <1>0, <1>1, <1>2, <1>3

LEMMA FitsCaps ==
  ASSUME Typed, Fits
  PROVE  CapsHoldUnlessRaced
<1> SUFFICES ASSUME faults = 0, NEW k \in Counters \ raced
             PROVE  /\ used[k] <= Limit[k]
                    /\ k # "account" /\ (\A r \in Requests : ~Between(r, k) /\ ~Counted(r, k)) => count[k] = used[k]
  BY DEF CapsHoldUnlessRaced
<1>f. /\ Early /\ QueryFits /\ GlobalFits /\ AccountFits
      /\ \A d \in Devices : DeviceFits(d)
      /\ \A e \in Emails : MailFits(e)
  BY DEF Fits
<1>0. Fair(k) BY DEF Fair
<1>1. CASE k = "query" BY <1>0, <1>1, <1>f DEF QueryFits
<1>2. CASE k = "global"
  <2>1. \A r \in Requests : ~Between(r, "global") => req[r].bg \notin {"get", "put"} BY DEF Between
  <2> QED BY <1>0, <1>2, <1>f, <2>1 DEF GlobalFits
<1>3. CASE k = "account" BY <1>3, <1>f DEF AccountFits
<1>4. CASE k \in Devices
  <2>1. \A r \in Requests : ~Between(r, k) => ~Owes(r, k) BY DEF Between, Owes
  <2> QED BY <1>0, <1>4, <1>f, <2>1 DEF DeviceFits
<1>5. CASE k \in Emails
  <2>1. /\ IsFiniteSet(Sent(k)) /\ IsFiniteSet(Undoing(k))
        /\ count[k] = used[k] + Cardinality(Undoing(k))
    BY <1>0, <1>5, <1>f DEF MailFits
  <2> DEFINE u == Cardinality(Undoing(k))
  <2>2. u \in Nat BY <2>1, FS_CardinalityType
  <2>3. count[k] = used[k] + u BY <2>1
  <2>4. count[k] \in Nat /\ used[k] \in Int /\ Limit[k] \in Nat /\ count[k] <= Limit[k] BY <1>5, Numbers
  <2>5. ASSUME \A r \in Requests : ~Between(r, k) /\ ~Counted(r, k) PROVE u = 0
    <3>1. Undoing(k) = {} BY <2>5 DEF Undoing, Between, Counted
    <3> QED BY <3>1, FS_EmptySet
  <2> HIDE DEF u
  <2> QED BY <2>2, <2>3, <2>4, <2>5
<1> QED BY <1>1, <1>2, <1>3, <1>4, <1>5, NamesApart

\* While nothing fails: a counter that no two requests had between a read and its
\* write, and whose window did not end under one, stays within its limit and comes
\* to be what it stands for; the account's bucket stays within its limit anyway.
THEOREM CapsHold == Spec => []CapsHoldUnlessRaced
<1>1. Typed /\ Typed' /\ Fits /\ [Next]_vars => Fits' BY FitsStep
<1>2. Typed /\ Fits => CapsHoldUnlessRaced BY FitsCaps
<1> QED BY TypeInit, TypeStep, FitsInit, <1>1, <1>2, PTL DEF Spec
=============================================================================
