------------------------- MODULE SchemaWidenProofs -------------------------
(***************************************************************************)
(* For any number of writers and any shape of the schema: what D1 says of  *)
(* it is never ahead of Postgres, and loses nothing once it is there.      *)
(***************************************************************************)
EXTENDS SchemaWiden, TLAPS

\* A fresh request is a request, and so is one that keeps what its row needed.
LEMMA FreshIsWriter ==
  ASSUME NEW l \in Pcs
  PROVE  Fresh(l) \in Writer
  BY BoundsAssumption DEF Fresh, Writer, Pcs

\* Ending, giving up and moving on keep the requests well typed.
LEMMA LocalMoves ==
  ASSUME TypeOK, NEW w \in Writers, NEW l \in Pcs,
         End(w, l) \/ Give(w, l) \/ Goto(w, l)
  PROVE  wr' \in [Writers -> Writer]
<1>1. wr[w] \in Writer BY DEF TypeOK
<1>2. CASE End(w, l)
  <2>1. [Fresh(l) EXCEPT !.need = wr[w].need, !.plan = wr[w].plan] \in Writer
    BY <1>1, FreshIsWriter DEF Writer
  <2> QED BY <1>2, <2>1 DEF End, TypeOK
<1>3. CASE Give(w, l) BY <1>3, FreshIsWriter DEF Give, TypeOK
<1>4. CASE Goto(w, l)
  <2>1. [wr[w] EXCEPT !.pc = l] \in Writer BY <1>1 DEF Writer
  <2> QED BY <1>4, <2>1 DEF Goto, TypeOK
<1> QED BY <1>2, <1>3, <1>4

\* The commit's and the D1 writes' way on.
LEMMA LateMoves ==
  ASSUME TypeOK, NEW w \in Writers
  PROVE  /\ AfterCommit(w) => wr' \in [Writers -> Writer]
         /\ \A job \in {"ledger", "swap"} : Did(w, job) => wr' \in [Writers -> Writer]
<1>1. wr[w] \in Writer BY DEF TypeOK
<1>2. "landed" \in Pcs BY DEF Pcs
<1>3. ASSUME AfterCommit(w) PROVE wr' \in [Writers -> Writer]
  <2>1. CASE wr[w].plan = {} BY <1>2, <1>3, <2>1, LocalMoves DEF AfterCommit
  <2>2. CASE wr[w].plan # {}
    <3>1. [wr[w] EXCEPT !.pc = "after", !.todo = {"ledger", "swap"}] \in Writer
      BY <1>1 DEF Writer, Pcs
    <3> QED BY <1>3, <2>2, <3>1 DEF AfterCommit, TypeOK
  <2> QED BY <2>1, <2>2
<1>4. ASSUME NEW job \in {"ledger", "swap"}, Did(w, job) PROVE wr' \in [Writers -> Writer]
  <2>1. CASE wr[w].todo \ {job} = {} BY <1>2, <1>4, <2>1, LocalMoves DEF Did
  <2>2. CASE wr[w].todo \ {job} # {}
    <3>1. [wr[w] EXCEPT !.todo = wr[w].todo \ {job}] \in Writer BY <1>1 DEF Writer
    <3> QED BY <1>4, <2>2, <3>1 DEF Did, TypeOK
  <2> QED BY <2>1, <2>2
<1> QED BY <1>3, <1>4

LEMMA TypeInit == Init => TypeOK
<1> SUFFICES ASSUME Init PROVE TypeOK OBVIOUS
<1>1. Fresh("idle") \in Writer BY FreshIsWriter DEF Pcs
<1>2. wr \in [Writers -> Writer] BY <1>1 DEF Init
<1>3. faults \in 0..MaxFaults BY BoundsAssumption DEF Init
<1>4. ledger \in [Elements -> Nat] BY DEF Init
<1>5. overlap \in BOOLEAN BY DEF Init
<1>6. catalog \subseteq Elements /\ text \subseteq Elements /\ landed \subseteq Writers
  BY DEF Init
<1> QED BY <1>2, <1>3, <1>4, <1>5, <1>6 DEF TypeOK

\* Every step keeps the state well typed.
LEMMA TypeStep == TypeOK /\ [Next]_vars => TypeOK'
<1> SUFFICES ASSUME TypeOK, [Next]_vars PROVE TypeOK' OBVIOUS
<1>u. CASE UNCHANGED vars BY <1>u DEF vars, TypeOK
<1>n. ASSUME NEW w \in Writers, Step(w) \/ Fail(w) PROVE TypeOK'
  <2>r. wr[w] \in Writer BY DEF TypeOK
  <2>p. {"exec", "design", "observe", "tx", "landed", "refused", "raced", "dead"} \subseteq Pcs
    BY DEF Pcs
  <2>1. CASE Resolve(w)
    <3>1. PICK path \in {"ask", "insert"}, need \in SUBSET Elements :
            wr' = [wr EXCEPT ![w] = [Fresh(IF path = "ask" THEN "exec" ELSE "observe") EXCEPT
                                       !.path = path, !.need = need, !.obs = text]]
      BY <2>1 DEF Resolve
    <3> DEFINE l == IF path = "ask" THEN "exec" ELSE "observe"
    <3>2. Fresh(l) \in Writer BY FreshIsWriter DEF Pcs
    <3>3. [Fresh(l) EXCEPT !.path = path, !.need = need, !.obs = text] \in Writer
      BY <3>2 DEF Writer, TypeOK
    <3>5. wr' \in [Writers -> Writer] BY <3>1, <3>3 DEF TypeOK
    <3>6. overlap' \in BOOLEAN BY <2>1, Zenon DEF Resolve
    <3> QED BY <2>1, <3>5, <3>6 DEF Resolve, TypeOK
  <2>2. CASE Refuse(w)
    <3>1. wr' \in [Writers -> Writer] BY <2>2, <2>p, LocalMoves DEF Refuse
    <3> QED BY <2>2, <3>1 DEF Refuse, TypeOK
  <2>3. CASE Exec(w)
    <3>1. wr' \in [Writers -> Writer] BY <2>3, <2>p, LocalMoves DEF Exec
    <3>2. landed' \subseteq Writers BY <2>3 DEF Exec, TypeOK
    <3> QED BY <2>3, <3>1, <3>2 DEF Exec, TypeOK
  <2>4. CASE Design(w)
    <3>1. PICK P \in SUBSET (Elements \ wr[w].obs) :
            wr' = [wr EXCEPT ![w].plan = P, ![w].pc = "tx"]
      BY <2>4 DEF Design
    <3>2. [wr[w] EXCEPT !.plan = P, !.pc = "tx"] \in Writer BY <2>r, <2>p DEF Writer
    <3>3. wr' \in [Writers -> Writer] BY <3>1, <3>2 DEF TypeOK
    <3> QED BY <2>4, <3>3 DEF Design, TypeOK
  <2>5. CASE Observe(w)
    <3>1. [wr[w] EXCEPT !.plan = wr[w].need \ catalog, !.pc = "tx"] \in Writer
      BY <2>r, <2>p DEF Writer
    <3>2. wr' \in [Writers -> Writer] BY <2>5, <3>1 DEF Observe, TypeOK
    <3> QED BY <2>5, <3>2 DEF Observe, TypeOK
  <2>6. CASE Commit(w)
    <3>1. wr' \in [Writers -> Writer] BY <2>6, LateMoves DEF Commit
    <3>2. catalog' \subseteq Elements BY <2>6, <2>r DEF Commit, TypeOK, Writer
    <3> QED BY <2>6, <3>1, <3>2 DEF Commit, TypeOK
  <2>7. CASE Abort(w)
    <3>1. CASE wr[w].path = "insert" /\ wr[w].attempt < MaxAttempts
      <4>0. wr[w].attempt + 1 \in 1..MaxAttempts
        <5>1. wr[w].attempt \in 1..MaxAttempts BY <2>r DEF Writer
        <5> QED BY <5>1, <3>1, BoundsAssumption
      <4>1. [wr[w] EXCEPT !.attempt = wr[w].attempt + 1, !.pc = "observe"] \in Writer
        BY <2>r, <2>p, <4>0 DEF Writer
      <4>2. wr' = [wr EXCEPT ![w] = [wr[w] EXCEPT !.attempt = wr[w].attempt + 1, !.pc = "observe"]]
        BY <2>7, <3>1 DEF Abort
      <4>3. wr' \in [Writers -> Writer] BY <4>1, <4>2 DEF TypeOK
      <4> QED BY <2>7, <4>3 DEF Abort, TypeOK
    <3>2. CASE ~(wr[w].path = "insert" /\ wr[w].attempt < MaxAttempts)
      <4>1. wr' \in [Writers -> Writer] BY <2>7, <2>p, <3>2, LocalMoves DEF Abort
      <4> QED BY <2>7, <4>1 DEF Abort, TypeOK
    <3> QED BY <3>1, <3>2
  <2>8. CASE RowsRefused(w)
    <3>1. PICK rest \in SUBSET wr[w].need :
            wr' = [wr EXCEPT ![w].need = rest, ![w].plan = {}, ![w].attempt = 1,
                             ![w].pass = @ + 1, ![w].pc = "observe"]
      BY <2>8 DEF RowsRefused, Rerun
    <3>2. wr[w].pass \in 0..(MaxPasses - 1) BY <2>8 DEF RowsRefused, Rerun
    <3> DEFINE again == [wr[w] EXCEPT !.need = rest, !.plan = {}, !.attempt = 1,
                                      !.pass = wr[w].pass + 1, !.pc = "observe"]
    <3>a. wr[w].pass + 1 \in 0..MaxPasses /\ 1 \in 1..MaxAttempts BY <3>2, BoundsAssumption
    <3>b. rest \in SUBSET Elements BY <2>r DEF Writer
    <3>3. again \in Writer BY <2>r, <2>p, <3>a, <3>b DEF Writer
    <3>c. wr' = [wr EXCEPT ![w] = again] BY <2>r, <3>1 DEF TypeOK
    <3>4. wr' \in [Writers -> Writer] BY <3>3, <3>c DEF TypeOK
    <3> QED BY <2>8, <3>4 DEF RowsRefused, TypeOK
  <2>9. CASE Record(w)
    <3>1. wr' \in [Writers -> Writer] BY <2>9, LateMoves DEF Record
    <3>2. ledger' \in [Elements -> Nat] BY <2>9 DEF Record, TypeOK
    <3> QED BY <2>9, <3>1, <3>2 DEF Record, TypeOK
  <2>10. CASE Swap(w)
    <3>1. wr' \in [Writers -> Writer] BY <2>10, LateMoves DEF Swap
    <3>2. text' \subseteq Elements BY <2>10, <2>r DEF Swap, TypeOK, Writer
    <3> QED BY <2>10, <3>1, <3>2 DEF Swap, TypeOK
  <2>f. ASSUME Fault PROVE faults' \in 0..MaxFaults
    BY <2>f, BoundsAssumption DEF Fault, TypeOK
  <2>11. CASE CommitAnswerLost(w)
    <3>1. wr' \in [Writers -> Writer] BY <2>11, <2>p, LocalMoves DEF CommitAnswerLost
    <3>2. catalog' \subseteq Elements BY <2>11, <2>r DEF CommitAnswerLost, TypeOK, Writer
    <3> QED BY <2>11, <2>f, <3>1, <3>2 DEF CommitAnswerLost, TypeOK
  <2>12. CASE D1Fails(w)
    <3>1. wr[w].todo \subseteq {"ledger", "swap"} BY <2>r DEF Writer
    <3>2. wr' \in [Writers -> Writer] BY <2>12, <3>1, LateMoves DEF D1Fails
    <3> QED BY <2>12, <2>f, <3>2 DEF D1Fails, TypeOK
  <2>13. CASE Die(w)
    <3>1. wr' \in [Writers -> Writer] BY <2>13, <2>p, LocalMoves DEF Die
    <3> QED BY <2>13, <2>f, <3>1 DEF Die, TypeOK
  <2> QED BY <1>n, <2>1, <2>2, <2>3, <2>4, <2>5, <2>6, <2>7, <2>8, <2>9, <2>10, <2>11,
             <2>12, <2>13 DEF Step, Fail
<1> QED BY <1>u, <1>n DEF Next

\* Every reachable state of the widening is well typed.
THEOREM ShapesTypeCorrect == Spec => []TypeOK
  BY TypeInit, TypeStep, PTL DEF Spec

---------------------------------------------------------------------------
(* D1 never ahead of Postgres.                                              *)

\* What a request resolved, and once its transaction has committed what it
\* planned, is in the catalog; so a swap writes nothing that is not.
Behind(w) ==
  /\ wr[w].obs \subseteq catalog
  /\ wr[w].pc = "after" => wr[w].plan \subseteq catalog

BehindInv == TextNeverAhead /\ \A w \in Writers : Behind(w)

LEMMA BehindInit == Init => BehindInv
  BY DEF Init, BehindInv, TextNeverAhead, Behind, Fresh

\* What the moves do to the fields that Behind speaks of.
LEMMA FieldsOfMoves ==
  ASSUME TypeOK, NEW w \in Writers
  PROVE  /\ \A l \in Pcs : End(w, l) \/ Give(w, l) => wr'[w].pc = l /\ wr'[w].obs = {}
         /\ \A l \in Pcs : Goto(w, l) => wr'[w].pc = l /\ wr'[w].obs = wr[w].obs
         /\ \A l \in Pcs, v \in Writers \ {w} :
              End(w, l) \/ Give(w, l) \/ Goto(w, l) => wr'[v] = wr[v]
<1>1. wr \in [Writers -> Writer] BY DEF TypeOK
<1>2. wr[w] \in Writer BY <1>1
<1>3. \A l \in Pcs : Fresh(l).pc = l /\ Fresh(l).obs = {} BY DEF Fresh
<1>4. ASSUME NEW l \in Pcs, End(w, l)
      PROVE  wr'[w].pc = l /\ wr'[w].obs = {} /\ \A v \in Writers \ {w} : wr'[v] = wr[v]
  <2> DEFINE f == [Fresh(l) EXCEPT !.need = wr[w].need, !.plan = wr[w].plan]
  <2>1. f.pc = l /\ f.obs = {} BY <1>3 DEF Fresh
  <2>2. wr' = [wr EXCEPT ![w] = f] BY <1>4 DEF End
  <2> HIDE DEF f
  <2> QED BY <1>1, <2>1, <2>2
<1>5. ASSUME NEW l \in Pcs, Give(w, l)
      PROVE  wr'[w].pc = l /\ wr'[w].obs = {} /\ \A v \in Writers \ {w} : wr'[v] = wr[v]
  BY <1>1, <1>3, <1>5 DEF Give
<1>6. ASSUME NEW l \in Pcs, Goto(w, l)
      PROVE  wr'[w].pc = l /\ wr'[w].obs = wr[w].obs /\ \A v \in Writers \ {w} : wr'[v] = wr[v]
  <2>1. [wr[w] EXCEPT !.pc = l].pc = l /\ [wr[w] EXCEPT !.pc = l].obs = wr[w].obs
    BY <1>2 DEF Writer
  <2> QED BY <1>1, <1>6, <2>1 DEF Goto
<1> QED BY <1>4, <1>5, <1>6

\* The catalog only grows, so a request no step touches stays behind it; and
\* the one that takes the step does by what its transaction has committed.
LEMMA BehindStep == TypeOK /\ BehindInv /\ [Next]_vars => BehindInv'
<1> SUFFICES ASSUME TypeOK, BehindInv, [Next]_vars PROVE BehindInv' OBVIOUS
<1>u. CASE UNCHANGED vars BY <1>u DEF vars, BehindInv, TextNeverAhead, Behind
<1>n. ASSUME NEW w \in Writers, Step(w) \/ Fail(w) PROVE BehindInv'
  <2>r. wr \in [Writers -> Writer] BY DEF TypeOK
  <2>b. \A v \in Writers : Behind(v) BY DEF BehindInv
  <2>t. text \subseteq catalog BY DEF BehindInv, TextNeverAhead
  <2>p. {"exec", "design", "observe", "tx", "after", "landed", "refused", "raced", "dead"}
          \subseteq Pcs
    BY DEF Pcs
  <2>m. \A l \in Pcs : /\ End(w, l) \/ Give(w, l) => wr'[w].pc = l /\ wr'[w].obs = {}
                       /\ Goto(w, l) => wr'[w].pc = l /\ wr'[w].obs = wr[w].obs
    BY FieldsOfMoves
  <2>v. \A l \in Pcs, v \in Writers \ {w} : End(w, l) \/ Give(w, l) \/ Goto(w, l) => wr'[v] = wr[v]
    BY FieldsOfMoves
  <2>g. catalog \subseteq catalog'
    BY <1>n DEF Step, Fail, Resolve, Refuse, Exec, Design, Observe, Commit, Abort, RowsRefused,
       Record, Swap, CommitAnswerLost, D1Fails, Die
  <2>k. CASE Resolve(w)
    <3>1. PICK path \in {"ask", "insert"}, need \in SUBSET Elements :
            wr' = [wr EXCEPT ![w] = [Fresh(IF path = "ask" THEN "exec" ELSE "observe") EXCEPT
                                       !.path = path, !.need = need, !.obs = text]]
      BY <2>k DEF Resolve
    <3> DEFINE l == IF path = "ask" THEN "exec" ELSE "observe"
               f == [Fresh(l) EXCEPT !.path = path, !.need = need, !.obs = text]
    <3>2. l # "after" OBVIOUS
    <3>3. f.obs = text /\ f.pc = l BY DEF Fresh
    <3>4. wr'[w] = f /\ \A v \in Writers \ {w} : wr'[v] = wr[v] BY <2>r, <3>1
    <3> HIDE DEF f, l
    <3>5. Behind(w)' BY <2>t, <2>g, <3>2, <3>3, <3>4 DEF Behind
    <3>6. ASSUME NEW v \in Writers, v # w PROVE Behind(v)'
      BY <2>b, <2>g, <3>4, <3>6 DEF Behind
    <3>7. text' = text BY <2>k DEF Resolve
    <3> QED BY <2>t, <2>g, <3>5, <3>6, <3>7 DEF BehindInv, TextNeverAhead
  <2>l. CASE ~Resolve(w)
    <3>o. ASSUME NEW v \in Writers, v # w PROVE Behind(v)'
      <4>1. wr'[v] = wr[v]
        BY <1>n, <2>l, <2>r, <3>o
           DEF Step, Fail, Refuse, Exec, Design, Observe, Commit, Abort, RowsRefused, Rerun,
               Record, Swap, CommitAnswerLost, D1Fails, Die, End, Give, Goto, AfterCommit, Did
      <4> QED BY <4>1, <2>b, <2>g DEF Behind
    <3>w. Behind(w)'
      <4>1. wr[w] \in Writer /\ Behind(w) BY <2>r, <2>b
      <4>3. CASE Refuse(w) \/ Exec(w)
        BY <4>1, <4>3, <2>m, <2>p, <2>g DEF Refuse, Exec, Behind
      <4>4. CASE Design(w) \/ Observe(w)
        <5>1. PICK P : wr' = [wr EXCEPT ![w].plan = P, ![w].pc = "tx"]
          BY <4>4 DEF Design, Observe
        <5>2. wr'[w].obs = wr[w].obs /\ wr'[w].pc = "tx" BY <4>1, <5>1, <2>r DEF Writer
        <5> QED BY <4>1, <5>2, <2>g DEF Behind
      <4>5. CASE Commit(w)
        <5>1. CASE wr[w].plan = {}
          BY <4>5, <5>1, <2>m, <2>p DEF Commit, AfterCommit, Behind
        <5>2. CASE wr[w].plan # {}
          <6>1. wr'[w] = [wr[w] EXCEPT !.pc = "after", !.todo = {"ledger", "swap"}]
            BY <4>5, <5>2, <2>r DEF Commit, AfterCommit
          <6>2. wr'[w].obs = wr[w].obs /\ wr'[w].plan = wr[w].plan BY <4>1, <6>1 DEF Writer
          <6> QED BY <4>1, <4>5, <6>2, <2>g DEF Commit, Behind
        <5> QED BY <5>1, <5>2
      <4>6. CASE Abort(w)
        <5>1. CASE wr[w].path = "insert" /\ wr[w].attempt < MaxAttempts
          <6>1. wr'[w] = [wr[w] EXCEPT !.attempt = wr[w].attempt + 1, !.pc = "observe"]
            BY <4>6, <5>1, <2>r DEF Abort
          <6>2. wr'[w].obs = wr[w].obs /\ wr'[w].pc = "observe" BY <4>1, <6>1 DEF Writer
          <6> QED BY <4>1, <6>2, <2>g DEF Behind
        <5>2. CASE ~(wr[w].path = "insert" /\ wr[w].attempt < MaxAttempts)
          BY <4>6, <5>2, <2>m, <2>p DEF Abort, Behind
        <5> QED BY <5>1, <5>2
      <4>7. CASE RowsRefused(w)
        <5>1. PICK rest \in SUBSET wr[w].need :
                wr' = [wr EXCEPT ![w].need = rest, ![w].plan = {}, ![w].attempt = 1,
                                 ![w].pass = @ + 1, ![w].pc = "observe"]
          BY <4>7 DEF RowsRefused, Rerun
        <5> DEFINE again == [wr[w] EXCEPT !.need = rest, !.plan = {}, !.attempt = 1,
                                          !.pass = wr[w].pass + 1, !.pc = "observe"]
        <5>3. again.obs = wr[w].obs /\ again.pc = "observe" BY <4>1 DEF Writer
        <5>4. wr' = [wr EXCEPT ![w] = again] BY <2>r, <5>1
        <5> HIDE DEF again
        <5>2. wr'[w].obs = wr[w].obs /\ wr'[w].pc = "observe" BY <2>r, <5>3, <5>4
        <5> QED BY <4>1, <5>2, <2>g DEF Behind
      <4>8. ASSUME NEW job \in {"ledger", "swap"}, Did(w, job), wr[w].pc = "after" PROVE Behind(w)'
        <5>1. CASE wr[w].todo \ {job} = {} BY <4>8, <5>1, <2>m, <2>p DEF Did, Behind
        <5>2. CASE wr[w].todo \ {job} # {}
          <6>1. wr'[w] = [wr[w] EXCEPT !.todo = wr[w].todo \ {job}] BY <4>8, <5>2, <2>r DEF Did
          <6>2. wr'[w].obs = wr[w].obs /\ wr'[w].plan = wr[w].plan BY <4>1, <6>1 DEF Writer
          <6> QED BY <4>1, <4>8, <6>2, <2>g DEF Behind
        <5> QED BY <5>1, <5>2
      <4>9. CASE Record(w) \/ Swap(w) BY <4>8, <4>9 DEF Record, Swap
      <4>a. CASE D1Fails(w)
        <5>1. wr[w].todo \subseteq {"ledger", "swap"} BY <4>1 DEF Writer
        <5> QED BY <4>8, <4>a, <5>1 DEF D1Fails
      <4>b. CASE CommitAnswerLost(w) \/ Die(w)
        BY <4>b, <2>m, <2>p DEF CommitAnswerLost, Die, Behind
      <4> QED BY <1>n, <2>l, <4>3, <4>4, <4>5, <4>6, <4>7, <4>9, <4>a, <4>b DEF Step, Fail
    <3>x. text' \subseteq catalog'
      <4>1. CASE Swap(w)
        <5>1. wr[w].obs \cup wr[w].plan \subseteq catalog BY <4>1, <2>b DEF Swap, Behind
        <5> QED BY <4>1, <5>1, <2>t, <2>g DEF Swap
      <4>2. CASE ~Swap(w)
        <5>1. text' = text
          BY <1>n, <4>2 DEF Step, Fail, Resolve, Refuse, Exec, Design, Observe, Commit, Abort,
             RowsRefused, Record, CommitAnswerLost, D1Fails, Die
        <5> QED BY <5>1, <2>t, <2>g
      <4> QED BY <4>1, <4>2
    <3> QED BY <3>o, <3>w, <3>x DEF BehindInv, TextNeverAhead
  <2> QED BY <2>k, <2>l
<1> QED BY <1>u, <1>n DEF Next

\* D1 never describes a table or column that Postgres lacks, whatever races,
\* fails or is lost between the transaction and the compare-and-swap.
THEOREM D1NeverLeads == Spec => []TextNeverAhead
<1>1. BehindInv => TextNeverAhead BY DEF BehindInv
<1> QED BY <1>1, ShapesTypeCorrect, BehindInit, BehindStep, PTL DEF Spec

\* The schema in D1 loses nothing: a swap goes ahead only over the text its
\* request resolved, and appends to that (rewriteWidenedSchema).
THEOREM SchemaNeverShrinks == Spec => TextOnlyGrows
<1>1. ASSUME [Next]_vars PROVE [text \subseteq text']_vars
  <2>1. CASE UNCHANGED vars BY <2>1
  <2>2. ASSUME NEW w \in Writers, Step(w) \/ Fail(w) PROVE text \subseteq text'
    BY <2>2 DEF Step, Fail, Resolve, Refuse, Exec, Design, Observe, Commit, Abort,
       RowsRefused, Record, Swap, CommitAnswerLost, D1Fails, Die
  <2> QED BY <1>1, <2>1, <2>2 DEF Next
<1> QED BY <1>1, PTL DEF Spec, TextOnlyGrows

---------------------------------------------------------------------------
(* What a step makes of a writer, and of the stores with it.                *)

Working == {"exec", "design", "observe", "tx"}
Kept(w, r) == r.need = wr[w].need /\ r.plan = wr[w].plan

Arrives(w, r) ==
  /\ wr[w].pc = "idle" /\ r.pc \in {"exec", "observe"}
  /\ r.plan = {} /\ r.todo = {} /\ r.obs = text
  /\ overlap' = (overlap \/ InFlight # {})
  /\ UNCHANGED <<catalog, text, ledger, landed, faults>>

GoesOn(w, r) ==
  /\ wr[w].pc \in Working /\ r.pc \in {"design", "observe", "tx"}
  /\ r.todo = wr[w].todo /\ r.obs = wr[w].obs
  /\ UNCHANGED <<catalog, text, ledger, landed, overlap, faults>>

Quits(w, r) ==
  /\ wr[w].pc \in Working /\ r.pc \in {"refused", "raced"} /\ r.todo = {}
  /\ UNCHANGED <<catalog, text, ledger, landed, overlap, faults>>

\* The row lands, with what it was widened for; it may be the answer that is lost.
Lands(w, r) ==
  /\ wr[w].pc \in Working
  /\ wr[w].plan \cap catalog = {} /\ wr[w].need \subseteq catalog \cup wr[w].plan
  /\ catalog' = catalog \cup wr[w].plan /\ landed' = landed \cup {w}
  /\ UNCHANGED <<text, ledger, overlap>>
  /\ Kept(w, r)
  /\ \/ r.pc = "landed" /\ wr[w].plan = {} /\ r.todo = {} /\ faults' = faults
     \/ r.pc = "after" /\ r.todo = {"ledger", "swap"} /\ r.obs = wr[w].obs /\ faults' = faults
     \/ r.pc = "refused" /\ r.todo = {} /\ faults' = faults + 1

Writes(w, r, job) ==
  /\ wr[w].pc = "after" /\ job \in wr[w].todo
  /\ UNCHANGED <<catalog, landed, overlap>>
  /\ Kept(w, r)
  /\ \/ r.pc = "landed" /\ r.todo = {} /\ wr[w].todo = {job}
     \/ r.pc = "after" /\ r.todo = wr[w].todo \ {job} /\ r.obs = wr[w].obs
  /\ \/ UNCHANGED <<text, ledger>> /\ faults' = faults + 1
     \/ /\ job = "ledger" /\ UNCHANGED <<text, faults>>
        /\ ledger' = [e \in Elements |-> IF e \in wr[w].plan THEN ledger[e] + 1 ELSE ledger[e]]
     \/ /\ job = "swap" /\ UNCHANGED <<ledger, faults>>
        /\ text' = IF text = wr[w].obs THEN wr[w].obs \cup wr[w].plan ELSE text

Dies(w, r) ==
  /\ wr[w].pc \in Working \cup {"after"} /\ r.pc = "dead" /\ r.todo = {}
  /\ w \in landed => Kept(w, r)
  /\ faults' = faults + 1
  /\ UNCHANGED <<catalog, text, ledger, landed, overlap>>

Moved(w, r) ==
  \/ Arrives(w, r) \/ GoesOn(w, r) \/ Quits(w, r) \/ Lands(w, r) \/ Dies(w, r)
  \/ \E job \in {"ledger", "swap"} : Writes(w, r, job)

\* Whose row has landed goes no further, and the catalog has what it needs; a
\* request not yet in its transaction has widened nothing.
Landing(w) ==
  /\ w \in landed => wr[w].pc \in {"after", "landed", "refused", "dead"}
                     /\ wr[w].need \subseteq catalog
  /\ wr[w].pc \in {"after", "landed"} => w \in landed
  /\ wr[w].pc = "exec" => wr[w].plan = {}
  /\ wr[w].pc # "after" => wr[w].todo = {}

LEMMA EndGive ==
  ASSUME NEW w \in Writers, NEW l
  PROVE  /\ End(w, l) => \E r : /\ wr' = [wr EXCEPT ![w] = r] /\ Kept(w, r)
                                /\ r.pc = l /\ r.todo = {}
         /\ Give(w, l) => \E r : wr' = [wr EXCEPT ![w] = r] /\ r.pc = l /\ r.todo = {}
<1>1. Fresh(l).pc = l /\ Fresh(l).todo = {} BY DEF Fresh
<1> DEFINE f == [Fresh(l) EXCEPT !.need = wr[w].need, !.plan = wr[w].plan]
<1>2. f.pc = l /\ f.todo = {} /\ f.need = wr[w].need /\ f.plan = wr[w].plan BY DEF Fresh
<1>3. End(w, l) => wr' = [wr EXCEPT ![w] = f] BY DEF End
<1> HIDE DEF f
<1>4. End(w, l) => \E r : /\ wr' = [wr EXCEPT ![w] = r] /\ Kept(w, r)
                          /\ r.pc = l /\ r.todo = {}
  BY <1>2, <1>3 DEF Kept
<1>5. Give(w, l) => \E r : wr' = [wr EXCEPT ![w] = r] /\ r.pc = l /\ r.todo = {}
  BY <1>1 DEF Give
<1> QED BY <1>4, <1>5

LEMMA Moves ==
  ASSUME TypeOK, NEW w \in Writers, Landing(w), Step(w) \/ Fail(w)
  PROVE  \E r : wr' = [wr EXCEPT ![w] = r] /\ Moved(w, r)
<1>r. wr[w] \in Writer BY DEF TypeOK
<1>1. CASE Resolve(w)
  <2>1. PICK path \in {"ask", "insert"}, need \in SUBSET Elements :
          wr' = [wr EXCEPT ![w] = [Fresh(IF path = "ask" THEN "exec" ELSE "observe") EXCEPT
                                     !.path = path, !.need = need, !.obs = text]]
    BY <1>1 DEF Resolve
  <2> DEFINE l == IF path = "ask" THEN "exec" ELSE "observe"
             r == [Fresh(l) EXCEPT !.path = path, !.need = need, !.obs = text]
  <2>2. r.pc = l /\ r.plan = {} /\ r.todo = {} /\ r.obs = text BY DEF Fresh
  <2>3. wr' = [wr EXCEPT ![w] = r] BY <2>1
  <2>4. l \in {"exec", "observe"} OBVIOUS
  <2> HIDE DEF r, l
  <2>5. Arrives(w, r) BY <1>1, <2>2, <2>4 DEF Resolve, Arrives
  <2> QED BY <2>3, <2>5 DEF Moved
<1>2. CASE Refuse(w)
  <2>1. PICK r : wr' = [wr EXCEPT ![w] = r] /\ r.pc = "refused" /\ r.todo = {}
    BY <1>2, EndGive DEF Refuse
  <2>2. Quits(w, r) BY <1>2, <2>1 DEF Refuse, Quits, Working
  <2> QED BY <2>1, <2>2 DEF Moved
\* A move to another place that keeps what D1 said.
<1>g. ASSUME wr[w].pc \in Working, NEW r, wr' = [wr EXCEPT ![w] = r],
             r.pc \in {"design", "observe", "tx"}, r.todo = wr[w].todo, r.obs = wr[w].obs,
             UNCHANGED <<catalog, text, ledger, landed, overlap, faults>>
      PROVE  \E q : wr' = [wr EXCEPT ![w] = q] /\ Moved(w, q)
  BY <1>g DEF GoesOn, Moved
<1>3. CASE Exec(w)
  <2>1. wr[w].pc = "exec" /\ UNCHANGED <<catalog, text, ledger, overlap, faults>>
    BY <1>3 DEF Exec
  <2>2. CASE wr[w].need \subseteq catalog
    <3>1. End(w, "landed") /\ landed' = landed \cup {w} BY <1>3, <2>2 DEF Exec
    <3>2. PICK r : wr' = [wr EXCEPT ![w] = r] /\ Kept(w, r) /\ r.pc = "landed" /\ r.todo = {}
      BY <3>1, EndGive
    <3>3. wr[w].plan = {} BY <2>1 DEF Landing
    <3>4. Lands(w, r) BY <2>1, <2>2, <3>1, <3>2, <3>3 DEF Lands, Working
    <3> QED BY <3>2, <3>4 DEF Moved
  <2>3. CASE ~(wr[w].need \subseteq catalog)
    <3> DEFINE r == [wr[w] EXCEPT !.pc = "design"]
    <3>1. wr' = [wr EXCEPT ![w] = r] /\ landed' = landed BY <1>3, <2>3 DEF Exec, Goto
    <3>2. r.pc = "design" /\ r.todo = wr[w].todo /\ r.obs = wr[w].obs BY <1>r DEF Writer
    <3> HIDE DEF r
    <3> QED BY <1>g, <2>1, <3>1, <3>2 DEF Working
  <2> QED BY <2>2, <2>3
<1>4. CASE Design(w) \/ Observe(w)
  <2>1. /\ wr[w].pc \in Working
        /\ UNCHANGED <<catalog, text, ledger, landed, overlap, faults>>
    BY <1>4 DEF Design, Observe, Working
  <2>2. PICK P : wr' = [wr EXCEPT ![w].plan = P, ![w].pc = "tx"] BY <1>4 DEF Design, Observe
  <2> DEFINE r == [wr[w] EXCEPT !.plan = P, !.pc = "tx"]
  <2>3. wr' = [wr EXCEPT ![w] = r] BY <2>2 DEF TypeOK
  <2>4. r.pc = "tx" /\ r.todo = wr[w].todo /\ r.obs = wr[w].obs BY <1>r DEF Writer
  <2> HIDE DEF r
  <2> QED BY <1>g, <2>1, <2>3, <2>4
<1>5. CASE Commit(w)
  <2>1. /\ wr[w].pc = "tx" /\ wr[w].plan \cap catalog = {}
        /\ wr[w].need \subseteq catalog \cup wr[w].plan
        /\ catalog' = catalog \cup wr[w].plan /\ landed' = landed \cup {w}
        /\ AfterCommit(w) /\ UNCHANGED <<text, ledger, overlap, faults>>
    BY <1>5 DEF Commit, Duplicate, Complete
  <2>2. CASE wr[w].plan = {}
    <3>1. PICK r : wr' = [wr EXCEPT ![w] = r] /\ Kept(w, r) /\ r.pc = "landed" /\ r.todo = {}
      BY <2>1, <2>2, EndGive DEF AfterCommit
    <3>2. Lands(w, r) BY <2>1, <2>2, <3>1 DEF Lands, Working
    <3> QED BY <3>1, <3>2 DEF Moved
  <2>3. CASE wr[w].plan # {}
    <3> DEFINE r == [wr[w] EXCEPT !.pc = "after", !.todo = {"ledger", "swap"}]
    <3>1. wr' = [wr EXCEPT ![w] = r] BY <2>1, <2>3 DEF AfterCommit, TypeOK
    <3>2. /\ r.pc = "after" /\ r.todo = {"ledger", "swap"} /\ r.obs = wr[w].obs /\ Kept(w, r)
      BY <1>r DEF Writer, Kept
    <3> HIDE DEF r
    <3>3. Lands(w, r) BY <2>1, <3>2 DEF Lands, Working
    <3> QED BY <3>1, <3>3 DEF Moved
  <2> QED BY <2>2, <2>3
<1>6. CASE Abort(w)
  <2>1. wr[w].pc = "tx" /\ UNCHANGED <<catalog, text, ledger, landed, overlap, faults>>
    BY <1>6 DEF Abort
  <2>2. CASE wr[w].path = "insert" /\ wr[w].attempt < MaxAttempts
    <3> DEFINE r == [wr[w] EXCEPT !.attempt = wr[w].attempt + 1, !.pc = "observe"]
    <3>1. wr' = [wr EXCEPT ![w] = r] BY <1>6, <2>2 DEF Abort, TypeOK
    <3>2. r.pc = "observe" /\ r.todo = wr[w].todo /\ r.obs = wr[w].obs BY <1>r DEF Writer
    <3> HIDE DEF r
    <3> QED BY <1>g, <2>1, <3>1, <3>2 DEF Working
  <2>3. CASE ~(wr[w].path = "insert" /\ wr[w].attempt < MaxAttempts)
    <3> DEFINE l == IF wr[w].path = "insert" THEN "raced" ELSE "refused"
    <3>1. Give(w, l) BY <1>6, <2>3 DEF Abort
    <3>2. l \in {"refused", "raced"} OBVIOUS
    <3> HIDE DEF l
    <3>3. PICK r : wr' = [wr EXCEPT ![w] = r] /\ r.pc = l /\ r.todo = {} BY <3>1, EndGive
    <3>4. Quits(w, r) BY <2>1, <3>2, <3>3 DEF Quits, Working
    <3> QED BY <3>3, <3>4 DEF Moved
  <2> QED BY <2>2, <2>3
<1>7. CASE RowsRefused(w)
  <2>1. wr[w].pc = "tx" /\ UNCHANGED <<catalog, text, ledger, landed, overlap, faults>>
    BY <1>7 DEF RowsRefused, Rerun
  <2>2. PICK rest \in SUBSET wr[w].need :
          wr' = [wr EXCEPT ![w].need = rest, ![w].plan = {}, ![w].attempt = 1,
                           ![w].pass = @ + 1, ![w].pc = "observe"]
    BY <1>7 DEF RowsRefused, Rerun
  <2> DEFINE r == [wr[w] EXCEPT !.need = rest, !.plan = {}, !.attempt = 1,
                                !.pass = wr[w].pass + 1, !.pc = "observe"]
  <2>3. wr' = [wr EXCEPT ![w] = r] BY <2>2 DEF TypeOK
  <2>4. r.pc = "observe" /\ r.todo = wr[w].todo /\ r.obs = wr[w].obs BY <1>r DEF Writer
  <2> HIDE DEF r
  <2> QED BY <1>g, <2>1, <2>3, <2>4 DEF Working
\* What is left to do once one of the D1 writes is done with.
<1>d. ASSUME NEW job \in {"ledger", "swap"}, job \in wr[w].todo, Did(w, job)
      PROVE  \E r : /\ wr' = [wr EXCEPT ![w] = r] /\ Kept(w, r)
                    /\ \/ r.pc = "landed" /\ r.todo = {} /\ wr[w].todo = {job}
                       \/ r.pc = wr[w].pc /\ r.todo = wr[w].todo \ {job} /\ r.obs = wr[w].obs
  <2>1. CASE wr[w].todo \ {job} = {}
    <3>1. PICK r : wr' = [wr EXCEPT ![w] = r] /\ Kept(w, r) /\ r.pc = "landed" /\ r.todo = {}
      BY <1>d, <2>1, EndGive DEF Did
    <3>2. wr[w].todo = {job} BY <1>d, <2>1
    <3> QED BY <3>1, <3>2
  <2>2. CASE wr[w].todo \ {job} # {}
    <3> DEFINE rest == wr[w].todo \ {job}  r == [wr[w] EXCEPT !.todo = rest]
    <3>1. wr' = [wr EXCEPT ![w] = r] BY <1>d, <2>2 DEF Did, TypeOK
    <3>2. r.pc = wr[w].pc /\ r.todo = rest /\ r.obs = wr[w].obs /\ Kept(w, r)
      BY <1>r DEF Writer, Kept
    <3> HIDE DEF r
    <3> QED BY <3>1, <3>2
  <2> QED BY <2>1, <2>2
<1>8. CASE Record(w)
  <2>1. PICK r : /\ wr' = [wr EXCEPT ![w] = r] /\ Kept(w, r)
                 /\ \/ r.pc = "landed" /\ r.todo = {} /\ wr[w].todo = {"ledger"}
                    \/ r.pc = wr[w].pc /\ r.todo = wr[w].todo \ {"ledger"} /\ r.obs = wr[w].obs
    BY <1>8, <1>d DEF Record
  <2>2. Writes(w, r, "ledger") BY <1>8, <2>1 DEF Record, Writes
  <2> QED BY <2>1, <2>2 DEF Moved
<1>9. CASE Swap(w)
  <2>1. PICK r : /\ wr' = [wr EXCEPT ![w] = r] /\ Kept(w, r)
                 /\ \/ r.pc = "landed" /\ r.todo = {} /\ wr[w].todo = {"swap"}
                    \/ r.pc = wr[w].pc /\ r.todo = wr[w].todo \ {"swap"} /\ r.obs = wr[w].obs
    BY <1>9, <1>d DEF Swap
  <2>2. Writes(w, r, "swap") BY <1>9, <2>1 DEF Swap, Writes
  <2> QED BY <2>1, <2>2 DEF Moved
<1>10. CASE CommitAnswerLost(w)
  <2>1. PICK r : wr' = [wr EXCEPT ![w] = r] /\ Kept(w, r) /\ r.pc = "refused" /\ r.todo = {}
    BY <1>10, EndGive DEF CommitAnswerLost
  <2>2. Lands(w, r)
    BY <1>10, <2>1 DEF CommitAnswerLost, Duplicate, Complete, Fault, Lands, Working
  <2> QED BY <2>1, <2>2 DEF Moved
<1>11. CASE D1Fails(w)
  <2>1. /\ wr[w].pc = "after" /\ faults' = faults + 1
        /\ UNCHANGED <<catalog, text, ledger, landed, overlap>>
    BY <1>11 DEF D1Fails, Fault
  <2>2. PICK job \in wr[w].todo : Did(w, job) BY <1>11 DEF D1Fails
  <2>3. job \in {"ledger", "swap"} BY <1>r, <2>2 DEF Writer
  <2>4. PICK r : /\ wr' = [wr EXCEPT ![w] = r] /\ Kept(w, r)
                 /\ \/ r.pc = "landed" /\ r.todo = {} /\ wr[w].todo = {job}
                    \/ r.pc = wr[w].pc /\ r.todo = wr[w].todo \ {job} /\ r.obs = wr[w].obs
    BY <1>d, <2>2, <2>3
  <2>5. Writes(w, r, job) BY <2>1, <2>2, <2>4 DEF Writes
  <2> QED BY <2>3, <2>4, <2>5 DEF Moved
<1>12. CASE Die(w)
  <2>1. /\ wr[w].pc \in Working \cup {"after"} /\ faults' = faults + 1
        /\ UNCHANGED <<catalog, text, ledger, landed, overlap>>
    BY <1>12, <1>r DEF Die, Fault, InFlight, Working, Writer, Pcs
  <2>2. PICK r : /\ wr' = [wr EXCEPT ![w] = r] /\ r.pc = "dead" /\ r.todo = {}
                 /\ w \in landed => Kept(w, r)
    BY <1>12, EndGive DEF Die
  <2>3. Dies(w, r) BY <2>1, <2>2 DEF Dies
  <2> QED BY <2>2, <2>3 DEF Moved
<1> QED BY <1>1, <1>2, <1>3, <1>4, <1>5, <1>6, <1>7, <1>8, <1>9, <1>10, <1>11, <1>12
    DEF Step, Fail

---------------------------------------------------------------------------
(* The catalog is what landed rows brought in.                              *)

\* No two rows brought in the same element.
Apart == \A v, w \in landed : v # w => wr[v].plan \cap wr[w].plan = {}

Brought ==
  /\ \A w \in Writers : Landing(w)
  /\ catalog = UNION {wr[w].plan : w \in landed}
  /\ Apart

LEMMA BroughtInit == Init => Brought
<1> SUFFICES ASSUME Init PROVE Brought OBVIOUS
<1>1. \A w \in Writers : wr[w].pc = "idle" /\ wr[w].todo = {} BY DEF Init, Fresh
<1> QED BY <1>1 DEF Init, Brought, Landing, Apart

\* A step that lands no row, of a writer that stays landed or was not.
LEMMA NoLanding ==
  ASSUME TypeOK, Brought, NEW w \in Writers, NEW r, wr' = [wr EXCEPT ![w] = r],
         UNCHANGED <<catalog, landed>>,
         w \in landed => Kept(w, r) /\ r.pc \in {"after", "landed", "refused", "dead"},
         r.pc \in {"after", "landed"} => w \in landed,
         r.pc = "exec" => r.plan = {}, r.pc # "after" => r.todo = {}
  PROVE  Brought'
<1>1. wr'[w] = r /\ \A v \in Writers \ {w} : wr'[v] = wr[v] BY DEF TypeOK
<1>2. landed \subseteq Writers BY DEF TypeOK
<1>3. \A v \in landed : wr'[v].plan = wr[v].plan /\ wr'[v].need = wr[v].need
  BY <1>1, <1>2 DEF Kept
<1>4. ASSUME NEW v \in Writers PROVE Landing(v)'
  <2>1. CASE v = w BY <1>1, <1>3, <2>1 DEF Brought, Landing
  <2>2. CASE v # w BY <1>1, <2>2 DEF Brought, Landing
  <2> QED BY <2>1, <2>2
<1>5. {wr'[v].plan : v \in landed'} = {wr[v].plan : v \in landed} BY <1>3
<1>6. Apart' BY <1>3 DEF Brought, Apart
<1> QED BY <1>4, <1>5, <1>6 DEF Brought

LEMMA BroughtStep == TypeOK /\ Brought /\ [Next]_vars => Brought'
<1> SUFFICES ASSUME TypeOK, Brought, [Next]_vars PROVE Brought' OBVIOUS
<1>1. CASE UNCHANGED vars BY <1>1 DEF vars, Brought, Landing, Apart
<1>2. ASSUME NEW w \in Writers, Step(w) \/ Fail(w) PROVE Brought'
  <2>l. Landing(w) BY DEF Brought
  <2>r. PICK r : wr' = [wr EXCEPT ![w] = r] /\ Moved(w, r) BY <1>2, <2>l, Moves
  <2>1. CASE Arrives(w, r) BY <2>1, <2>l, <2>r, NoLanding DEF Arrives, Landing
  <2>2. CASE GoesOn(w, r) BY <2>2, <2>l, <2>r, NoLanding DEF GoesOn, Landing, Working
  <2>3. CASE Quits(w, r) BY <2>3, <2>l, <2>r, NoLanding DEF Quits, Landing, Working
  <2>4. CASE Dies(w, r) BY <2>4, <2>l, <2>r, NoLanding DEF Dies
  <2>5. ASSUME NEW job \in {"ledger", "swap"}, Writes(w, r, job) PROVE Brought'
    BY <2>5, <2>l, <2>r, NoLanding DEF Writes, Landing
  <2>6. CASE Lands(w, r)
    <3>1. wr'[w] = r /\ \A v \in Writers \ {w} : wr'[v] = wr[v] BY <2>r DEF TypeOK
    <3>2. /\ w \notin landed /\ landed \subseteq Writers
          /\ wr[w].plan \cap catalog = {} /\ wr[w].need \subseteq catalog \cup wr[w].plan
          /\ catalog' = catalog \cup wr[w].plan /\ landed' = landed \cup {w}
          /\ r.need = wr[w].need /\ r.plan = wr[w].plan
          /\ r.pc \in {"after", "landed", "refused"} /\ (r.pc # "after" => r.todo = {})
      BY <2>6, <2>l DEF Lands, Landing, Working, Kept, TypeOK
    <3>3. \A v \in landed : wr'[v] = wr[v] /\ v # w BY <3>1, <3>2
    <3>4. ASSUME NEW v \in Writers PROVE Landing(v)'
      <4>1. CASE v = w BY <3>1, <3>2, <4>1 DEF Landing
      <4>2. CASE v # w BY <3>1, <3>2, <4>2 DEF Brought, Landing
      <4> QED BY <4>1, <4>2
    <3>5. catalog' = UNION {wr'[v].plan : v \in landed'}
      <4> DEFINE S == {wr[v].plan : v \in landed}
      <4>1. {wr'[v].plan : v \in landed'} = S \cup {wr[w].plan}
        BY <3>1, <3>2, <3>3
      <4>2. catalog = UNION S BY DEF Brought
      <4> HIDE DEF S
      <4>3. UNION (S \cup {wr[w].plan}) = (UNION S) \cup wr[w].plan OBVIOUS
      <4> QED BY <3>2, <4>1, <4>2, <4>3
    <3>6. \A v \in landed : wr[v].plan \subseteq catalog BY DEF Brought
    <3>7. Apart'
      <4> SUFFICES ASSUME NEW u \in landed', NEW v \in landed', u # v
                   PROVE  wr'[u].plan \cap wr'[v].plan = {}
        BY DEF Apart
      <4>1. CASE u = w
        <5>1. v \in landed BY <3>2, <4>1
        <5> QED BY <3>1, <3>2, <3>3, <3>6, <4>1, <5>1
      <4>2. CASE v = w
        <5>1. u \in landed BY <3>2, <4>2
        <5> QED BY <3>1, <3>2, <3>3, <3>6, <4>2, <5>1
      <4>3. CASE u # w /\ v # w BY <3>2, <3>3, <4>3 DEF Brought, Apart
      <4> QED BY <4>1, <4>2, <4>3
    <3> QED BY <3>4, <3>5, <3>7 DEF Brought
  <2> QED BY <2>r, <2>1, <2>2, <2>3, <2>4, <2>5, <2>6 DEF Moved
<1> QED BY <1>1, <1>2 DEF Next

\* The DDL and the row are one transaction that re-plans against the catalog it
\* finds: the catalog holds what landed rows brought in and nothing else, though
\* writes were tried, raced, answered in vain or re-run without bad rows.
THEOREM WidenedForLandedRows == Spec => []WidenedOnlyForLandedRows
<1>1. TypeOK /\ Brought => WidenedOnlyForLandedRows
  BY DEF TypeOK, Brought, Landing, WidenedOnlyForLandedRows
<1> QED BY <1>1, TypeInit, TypeStep, BroughtInit, BroughtStep, PTL DEF Spec

---------------------------------------------------------------------------
(* D1 tells the truth once nothing is in flight.                            *)

Owed(e) == \E w \in Writers : wr[w].pc = "after" /\ "ledger" \in wr[w].todo /\ e \in wr[w].plan

\* While nothing has failed, the ledger has each element of the catalog once,
\* but for those whose writer has not recorded them yet.
Recorded ==
  faults = 0 => \A e \in Elements : ledger[e] = IF e \in catalog /\ ~Owed(e) THEN 1 ELSE 0

Swapping(w) == wr[w].pc = "after" /\ "swap" \in wr[w].todo

\* While nothing has failed or overlapped, the one writer in flight has D1's
\* schema in hand, and that lacks at most what it is about to append.
Single ==
  /\ \A v, w \in InFlight : v = w
  /\ \A w \in Writers : wr[w].pc \in Working \/ Swapping(w) => wr[w].obs = text
  /\ \A w \in Writers : Swapping(w) => catalog = text \cup wr[w].plan
  /\ (\A w \in Writers : ~Swapping(w)) => catalog = text

Synced == faults = 0 /\ ~overlap => Single

LEMMA TrueInit == Init => Recorded /\ Synced
<1> SUFFICES ASSUME Init PROVE Recorded /\ Synced OBVIOUS
<1>1. \A w \in Writers : wr[w].pc = "idle" BY DEF Init, Fresh
<1>2. \A w \in Writers : ~Swapping(w) /\ w \notin InFlight /\ wr[w].pc \notin Working
  BY <1>1 DEF Swapping, InFlight, Working
<1>3. Synced BY <1>2 DEF Synced, Single, Init, InFlight
<1>4. Recorded BY DEF Init, Recorded
<1> QED BY <1>3, <1>4

LEMMA RecordedStep == TypeOK /\ Brought /\ Recorded /\ [Next]_vars => Recorded'
<1> SUFFICES ASSUME TypeOK, Brought, Recorded, [Next]_vars, faults' = 0, NEW e \in Elements
             PROVE  ledger'[e] = IF e \in catalog' /\ ~Owed(e)' THEN 1 ELSE 0
  BY DEF Recorded
<1>1. CASE UNCHANGED vars BY <1>1 DEF vars, Recorded, Owed
<1>2. ASSUME NEW w \in Writers, Step(w) \/ Fail(w)
      PROVE  ledger'[e] = IF e \in catalog' /\ ~Owed(e)' THEN 1 ELSE 0
  <2>l. Landing(w) BY DEF Brought
  <2>r. PICK r : wr' = [wr EXCEPT ![w] = r] /\ Moved(w, r) BY <1>2, <2>l, Moves
  <2>w. wr'[w] = r /\ \A v \in Writers \ {w} : wr'[v] = wr[v] BY <2>r DEF TypeOK
  <2>f. faults \in Nat /\ faults + 1 # 0 BY BoundsAssumption DEF TypeOK
  <2>0. faults = 0 => ledger[e] = IF e \in catalog /\ ~Owed(e) THEN 1 ELSE 0 BY DEF Recorded
  <2>1. CASE Arrives(w, r) \/ GoesOn(w, r) \/ Quits(w, r)
    <3>1. /\ UNCHANGED <<catalog, ledger, faults>>
          /\ wr[w].pc # "after" /\ r.pc # "after"
      BY <2>1 DEF Arrives, GoesOn, Quits, Working
    <3>2. Owed(e)' <=> Owed(e) BY <2>w, <3>1 DEF Owed
    <3> QED BY <2>0, <3>1, <3>2
  <2>2. CASE Lands(w, r)
    <3>1. /\ faults' = faults /\ UNCHANGED ledger /\ catalog' = catalog \cup wr[w].plan
          /\ wr[w].plan \cap catalog = {} /\ wr[w].pc # "after" /\ r.plan = wr[w].plan
          /\ \/ r.pc = "landed" /\ wr[w].plan = {}
             \/ r.pc = "after" /\ r.todo = {"ledger", "swap"}
      BY <2>2, <2>f DEF Lands, Working, Kept
    <3>2. CASE e \in wr[w].plan
      <4>1. Owed(e)' BY <2>w, <3>1, <3>2 DEF Owed
      <4> QED BY <2>0, <3>1, <3>2, <4>1
    <3>3. CASE e \notin wr[w].plan
      <4>1. Owed(e)' <=> Owed(e) BY <2>w, <3>1, <3>3 DEF Owed
      <4> QED BY <2>0, <3>1, <3>3, <4>1
    <3> QED BY <3>2, <3>3
  <2>3. CASE Dies(w, r) BY <2>3, <2>f DEF Dies
  <2>4. ASSUME NEW job \in {"ledger", "swap"}, Writes(w, r, job)
        PROVE  ledger'[e] = IF e \in catalog' /\ ~Owed(e)' THEN 1 ELSE 0
    <3>1. /\ faults' = faults /\ catalog' = catalog /\ r.plan = wr[w].plan
          /\ wr[w].pc = "after" /\ job \in wr[w].todo
          /\ \/ r.pc = "landed" /\ wr[w].todo = {job}
             \/ r.pc = "after" /\ r.todo = wr[w].todo \ {job}
          /\ job = "ledger" =>
               ledger' = [x \in Elements |-> IF x \in wr[w].plan THEN ledger[x] + 1 ELSE ledger[x]]
          /\ job = "swap" => ledger' = ledger
      BY <2>4, <2>f DEF Writes, Kept
    <3>2. CASE job = "ledger" /\ e \in wr[w].plan
      <4>1. w \in landed BY <2>l, <3>1 DEF Landing
      <4>2. e \in catalog BY <3>2, <4>1 DEF Brought
      <4>3. Owed(e) BY <3>1, <3>2 DEF Owed
      <4>4. ~Owed(e)'
        <5> SUFFICES ASSUME NEW v \in Writers, wr'[v].pc = "after", "ledger" \in wr'[v].todo,
                            e \in wr'[v].plan
                     PROVE  FALSE
          BY DEF Owed
        <5>1. v # w BY <2>w, <3>1, <3>2
        <5>2. v \in landed BY <2>w, <5>1 DEF Brought, Landing
        <5> QED BY <2>w, <3>2, <4>1, <5>1, <5>2 DEF Brought, Apart
      <4>5. ledger[e] = 0 BY <2>0, <3>1, <4>3
      <4>6. ledger'[e] = 1 BY <3>1, <3>2, <4>5
      <4> QED BY <3>1, <4>2, <4>4, <4>6
    <3>3. CASE ~(job = "ledger" /\ e \in wr[w].plan)
      <4>1. ledger'[e] = ledger[e] BY <3>1, <3>3
      <4>2. Owed(e)' <=> Owed(e)
        <5>1. \A v \in Writers \ {w} : wr'[v] = wr[v] BY <2>w
        <5>2. (wr'[w].pc = "after" /\ "ledger" \in wr'[w].todo /\ e \in wr'[w].plan)
                <=> (wr[w].pc = "after" /\ "ledger" \in wr[w].todo /\ e \in wr[w].plan)
          BY <2>w, <3>1, <3>3
        <5> QED BY <5>1, <5>2 DEF Owed
      <4> QED BY <2>0, <3>1, <4>1, <4>2
    <3> QED BY <3>2, <3>3
  <2> QED BY <2>r, <2>1, <2>2, <2>3, <2>4 DEF Moved
<1> QED BY <1>1, <1>2 DEF Next

LEMMA SyncedStep == TypeOK /\ Brought /\ Synced /\ [Next]_vars => Synced'
<1> SUFFICES ASSUME TypeOK, Brought, Synced, [Next]_vars, faults' = 0, ~overlap'
             PROVE  Single'
  BY DEF Synced
<1>1. CASE UNCHANGED vars
  BY <1>1 DEF vars, Synced, Single, InFlight, Swapping
<1>2. ASSUME NEW w \in Writers, Step(w) \/ Fail(w) PROVE Single'
  <2>l. Landing(w) BY DEF Brought
  <2>r. PICK r : wr' = [wr EXCEPT ![w] = r] /\ Moved(w, r) BY <1>2, <2>l, Moves
  <2>w. wr'[w] = r /\ \A v \in Writers \ {w} : wr'[v] = wr[v] BY <2>r DEF TypeOK
  <2>f. faults \in Nat /\ faults + 1 # 0 BY BoundsAssumption DEF TypeOK
  <2>p. faults = 0 /\ ~overlap => Single BY DEF Synced
  <2>d. \A v \in Writers : wr[v].pc \in Pcs BY DEF TypeOK, Writer
  <2>i. \A v \in Writers : v \in InFlight <=> wr[v].pc \in Working \cup {"after"}
    BY <2>d DEF InFlight, Working, Pcs
  <2>1. CASE Arrives(w, r)
    <3>1. /\ Single /\ InFlight = {} /\ r.pc \in {"exec", "observe"} /\ r.obs = text
          /\ UNCHANGED <<catalog, text>>
      BY <2>1, <2>p DEF Arrives
    <3>2. \A v \in Writers : wr[v].pc \notin Working /\ ~Swapping(v) BY <2>i, <3>1 DEF Swapping
    <3>3. \A v \in Writers : ~Swapping(v)' BY <2>w, <3>1, <3>2 DEF Swapping
    <3>4. InFlight' = {w} \/ InFlight' = {} BY <2>w, <3>1 DEF InFlight
    <3>5. \A u, v \in InFlight' : u = v BY <3>4
    <3>6. \A v \in Writers : wr'[v].pc \in Working \/ Swapping(v)' => wr'[v].obs = text'
      BY <2>w, <3>1, <3>2, <3>3
    <3>7. catalog' = text' BY <3>1, <3>2 DEF Single
    <3> QED BY <3>3, <3>5, <3>6, <3>7 DEF Single
\* The rest are steps of the one writer in flight.
  <2>o. ASSUME Single, w \in InFlight
        PROVE  /\ InFlight' \subseteq {w}
               /\ \A v \in Writers \ {w} : wr'[v].pc \notin Working /\ ~Swapping(v)' /\ ~Swapping(v)
    <3>1. \A v \in Writers \ {w} : v \notin InFlight BY <2>o DEF Single
    <3>2. \A v \in Writers \ {w} : wr'[v].pc \notin Working /\ ~Swapping(v)' /\ ~Swapping(v)
      BY <2>i, <2>w, <3>1 DEF Swapping
    <3>3. InFlight' \subseteq {w} BY <2>w, <3>1 DEF InFlight
    <3> QED BY <3>2, <3>3
  <2>2. CASE GoesOn(w, r) \/ Quits(w, r)
    <3>1. /\ Single /\ w \in InFlight /\ wr[w].pc \in Working /\ ~Swapping(w) /\ r.pc # "after"
          /\ r.pc \in Working => r.obs = wr[w].obs
          /\ UNCHANGED <<catalog, text>>
      BY <2>2, <2>i, <2>p DEF GoesOn, Quits, Working, Swapping
    <3>2. \A v \in Writers : ~Swapping(v)' /\ ~Swapping(v) BY <2>o, <2>w, <3>1 DEF Swapping
    <3>3. \A v \in Writers : wr'[v].pc \in Working => wr'[v].obs = text'
      BY <2>o, <2>w, <3>1 DEF Single
    <3>4. catalog' = text' BY <3>1, <3>2 DEF Single
    <3> QED BY <2>o, <3>1, <3>2, <3>3, <3>4 DEF Single
  <2>3. CASE Lands(w, r)
    <3>1. /\ Single /\ w \in InFlight /\ wr[w].pc \in Working /\ ~Swapping(w)
          /\ catalog' = catalog \cup wr[w].plan /\ text' = text /\ r.plan = wr[w].plan
          /\ \/ r.pc = "landed" /\ wr[w].plan = {}
             \/ r.pc = "after" /\ r.todo = {"ledger", "swap"} /\ r.obs = wr[w].obs
      BY <2>3, <2>f, <2>i, <2>p DEF Lands, Working, Kept, Swapping
    <3>2. \A v \in Writers : ~Swapping(v) BY <2>o, <3>1
    <3>3. catalog = text /\ wr[w].obs = text BY <3>1, <3>2 DEF Single
    <3>4. r.pc \notin Working BY <3>1 DEF Working
    <3>5. CASE r.pc = "landed"
      <4>1. \A v \in Writers : ~Swapping(v)' /\ wr'[v].pc \notin Working
        BY <2>o, <2>w, <3>1, <3>4, <3>5 DEF Swapping
      <4> QED BY <2>o, <3>1, <3>3, <3>5, <4>1 DEF Single
    <3>6. CASE r.pc = "after"
      <4>1. Swapping(w)' /\ wr'[w].obs = text' /\ catalog' = text' \cup wr'[w].plan
        BY <2>w, <3>1, <3>3, <3>6 DEF Swapping
      <4> QED BY <2>o, <3>1, <4>1 DEF Single
    <3> QED BY <3>1, <3>5, <3>6
  <2>4. CASE Dies(w, r) BY <2>4, <2>f DEF Dies
  <2>5. ASSUME NEW job \in {"ledger", "swap"}, Writes(w, r, job) PROVE Single'
    <3>1. /\ Single /\ w \in InFlight /\ wr[w].pc = "after" /\ job \in wr[w].todo
          /\ catalog' = catalog /\ r.plan = wr[w].plan
          /\ \/ r.pc = "landed" /\ wr[w].todo = {job}
             \/ r.pc = "after" /\ r.todo = wr[w].todo \ {job} /\ r.obs = wr[w].obs
          /\ job = "ledger" => text' = text
          /\ job = "swap" => text' = IF text = wr[w].obs THEN wr[w].obs \cup wr[w].plan ELSE text
      BY <2>5, <2>f, <2>i, <2>p DEF Writes, Kept
    <3>2. r.pc \notin Working BY <3>1 DEF Working
    <3>3. CASE job = "ledger"
      <4>1. Swapping(w)' <=> Swapping(w) BY <2>w, <3>1, <3>3 DEF Swapping
      <4>2. Swapping(w)' => wr'[w].obs = text' /\ catalog' = text' \cup wr'[w].plan
        BY <2>w, <3>1, <3>3, <4>1 DEF Single, Swapping
      <4>3. ~Swapping(w)' => catalog' = text'
        BY <2>o, <3>1, <3>3, <4>1 DEF Single
      <4> QED BY <2>o, <2>w, <3>1, <3>2, <4>2, <4>3 DEF Single
    <3>4. CASE job = "swap"
      <4>1. Swapping(w) BY <3>1, <3>4 DEF Swapping
      <4>2. wr[w].obs = text /\ catalog = text \cup wr[w].plan BY <4>1 , <3>1 DEF Single
      <4>3. catalog' = text' BY <3>1, <3>4, <4>2
      <4>4. ~Swapping(w)' BY <2>w, <3>1, <3>4 DEF Swapping
      <4> QED BY <2>o, <2>w, <3>1, <3>2, <4>3, <4>4 DEF Single
    <3> QED BY <3>3, <3>4
  <2> QED BY <2>r, <2>1, <2>2, <2>3, <2>4, <2>5 DEF Moved
<1> QED BY <1>1, <1>2 DEF Next

\* recordDbaChanges and rewriteWidenedSchema: when nothing failed and nothing is
\* in flight, the ledger has each element of the catalog once, and after widens
\* that never overlapped the schema text is the catalog.
THEOREM StoresAgreeWhenQuiet == Spec => []QuietStoresAgree
<1>1. Recorded /\ Synced => QuietStoresAgree
  <2> SUFFICES ASSUME Recorded, Synced, faults = 0, InFlight = {}
               PROVE  /\ \A e \in Elements : ledger[e] = IF e \in catalog THEN 1 ELSE 0
                      /\ ~overlap => text = catalog
    BY DEF QuietStoresAgree
  <2>1. \A w \in Writers : wr[w].pc # "after" BY DEF InFlight
  <2>2. \A e \in Elements : ~Owed(e) BY <2>1 DEF Owed
  <2>3. \A w \in Writers : ~Swapping(w) BY <2>1 DEF Swapping
  <2> QED BY <2>2, <2>3 DEF Recorded, Synced, Single
<1> QED BY <1>1, TypeInit, TypeStep, BroughtInit, BroughtStep, TrueInit, RecordedStep, SyncedStep,
           PTL DEF Spec
=============================================================================
