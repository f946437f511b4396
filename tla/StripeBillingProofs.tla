------------------------ MODULE StripeBillingProofs ------------------------
(***************************************************************************)
(* For any number of subscriptions, invocations and events: what Stripe    *)
(* sends is handled once, two live subscriptions need a checkout nobody    *)
(* could see, and the row converges on what Stripe says.                   *)
(***************************************************************************)
EXTENDS StripeBilling, FiniteSetTheorems, SequenceTheorems, TLAPS

Pcs == {"idle", "lookup", "link", "sync", "cancel", "emit", "mark"}
Msg == [kind : SubscriptionKinds \cup {"checkout", "payment_failed"},
        sub : Subs, status : Statuses]

Typed ==
  /\ session \in [Subs -> {"none", "open", "expired", "paid"}]
  /\ sub \in [Subs -> [status : Statuses, cust : Customers]]
  /\ sent \in Seq(Msg) /\ Len(sent) <= MaxEvents
  /\ row \in [cust : Customers, sub : Customers, status : Statuses, converted : 0..MaxEvents]
  /\ inbox \in [1..MaxEvents -> {"absent", "recorded", "processed"}]
  /\ inv \in [Invocations -> [pc : Pcs, ev : 0..Len(sent)]]
  /\ queued \in [1..MaxEvents -> 0..1]
  /\ applied \subseteq 1..Len(sent)
  /\ ordered \in BOOLEAN /\ doubled \in BOOLEAN
  /\ faults \in 0..MaxFaults

\* Where an invocation is says what has been done of its event.
Held(i) ==
  LET e == inv[i].ev  l == inv[i].pc IN
  /\ e \in 1..Len(sent) /\ inbox[e] = "recorded"
  /\ l \in {"lookup", "link", "sync", "cancel"} <=> e \notin applied
  /\ l # "mark" => queued[e] = 0
  /\ l = "lookup" => sent[e].kind # "checkout"
  /\ l = "link" => sent[e].kind \in {"checkout", "created"}
  /\ l = "sync" => sent[e].kind \in {"created", "updated"} /\ row # NoRow
  /\ l = "cancel" => sent[e].kind = "deleted" /\ row # NoRow

\* Each event is held once, and done once.
Once ==
  /\ \A i \in Invocations : IF inv[i].pc = "idle" THEN inv[i].ev = 0 ELSE Held(i)
  /\ \A i, j \in Invocations :
       i # j /\ inv[i].pc # "idle" /\ inv[j].pc # "idle" => inv[i].ev # inv[j].ev
  /\ \A e \in 1..MaxEvents :
       /\ inbox[e] = "absent" => e \notin applied /\ queued[e] = 0
       /\ inbox[e] = "processed" => e \in applied
       /\ e > Len(sent) => inbox[e] = "absent"

Orphans == {e \in 1..Len(sent) : inbox[e] = "recorded" /\ \A i \in Invocations : inv[i].ev # e}
Orphaned == Cardinality(Orphans) <= faults

SubEv == {e \in 1..Len(sent) : sent[e].kind \in SubscriptionKinds}

\* What Stripe has sent of a subscription: first that it was created, last how it is.
Told ==
  /\ \A t \in Subs : sub[t].status # "none" <=> session[t] = "paid"
  /\ \A t \in Subs : session[t] = "paid" =>
       \E e \in SubEv : sent[e].kind = "created" /\ sent[e].sub = t
  /\ \A e \in 1..Len(sent) :
       /\ session[sent[e].sub] = "paid" /\ sent[e].status # "none"
       /\ sent[e].status \in Terminal => sub[sent[e].sub].status \in Terminal
       /\ sent[e].kind = "deleted" => sent[e].status = "canceled"
  /\ \A e \in SubEv : \E f \in SubEv : f <= e /\ sent[f].kind = "created" /\ sent[f].sub = sent[e].sub
  /\ \A e \in SubEv : (\A f \in SubEv : sent[f].sub = sent[e].sub => f <= e) =>
       sent[e].status = sub[sent[e].sub].status
  /\ Len(sent) > 0 => \E e \in SubEv : \A f \in SubEv : f <= e
  /\ \A t, u \in Subs : u < t /\ session[t] # "none" => session[u] # "none"

\* The row exists once a subscription is synced; while no checkout is opened beside an
\* unseen one, it and all the subscriptions that may bill share a Stripe customer.
Shared ==
  /\ \A e \in applied : sent[e].kind = "created" => row # NoRow
  /\ ~doubled =>
       \A t \in Subs : session[t] \in {"open", "paid"} =>
         /\ row # NoRow => row.cust = sub[t].cust
         /\ \A u \in Subs : session[u] \in {"open", "paid"} => sub[u].cust = sub[t].cust

\* Subscription events are applied as they were sent.
InOrder == ordered => \A e, f \in SubEv : f < e /\ e \in applied => f \in applied

\* One subscription after the other: one that may still bill was opened last, and
\* the events of a subscription were sent before those of the next.
InTurn ==
  ordered /\ ~doubled =>
    /\ \A t, u \in Subs : 
         (session[t] = "open" \/ t \in Live) /\ session[u] # "none" => u <= t
    /\ \A e, f \in 1..Len(sent) : e < f => sent[e].sub <= sent[f].sub

Paying == {e \in SubEv : sent[e].kind \in {"created", "updated"} /\ sent[e].status = "active"}

\* The row has the last event applied, and the first paying one.
Current ==
  /\ \A e \in applied \cap SubEv : \E f \in applied \cap SubEv : \A g \in applied \cap SubEv : g <= f
  /\ ordered /\ ~doubled =>
       /\ \A e \in applied \cap SubEv :
            (\A f \in applied \cap SubEv : f <= e) => row.status = sent[e].status
       /\ \/ row.converted = 0 /\ applied \cap Paying = {}
          \/ row.converted \in applied \cap Paying /\ \A e \in applied \cap Paying : row.converted <= e

IInv == Typed /\ Once /\ Orphaned /\ Told /\ Shared /\ InOrder /\ InTurn /\ Current

LEMMA SentIs ==
  ASSUME Typed, NEW e \in 1..Len(sent)
  PROVE  /\ sent[e] \in Msg /\ sent[e].sub \in Subs /\ sent[e].status \in Statuses
         /\ sent[e].kind \in SubscriptionKinds \cup {"checkout", "payment_failed"}
<1>1. sent[e] \in Msg BY DEF Typed
<1> QED BY <1>1 DEF Msg

---------------------------------------------------------------------------
(* Stripe's steps.                                                          *)

\* An event of t that says its status is s; a subscription event comes first, and
\* at most one other event with it.
Sending(t, s, msgs) ==
  /\ msgs \in Seq(Msg) /\ Len(msgs) \in {1, 2}
  /\ \A k \in 1..Len(msgs) : /\ msgs[k].sub = t /\ msgs[k].status = s
                             /\ msgs[k].kind \in SubscriptionKinds <=> k = 1
  /\ msgs[1].kind = "created" <=> session[t] = "open"
  /\ msgs[1].kind = "deleted" => s = "canceled"
  /\ s # "none"
  /\ session[t] = "open" \/ t \in Live
  /\ session' = [session EXCEPT ![t] = "paid"]
  /\ sub' = [sub EXCEPT ![t].status = s]
  /\ Send(msgs)
  /\ UNCHANGED <<row, inbox, inv, queued, applied, ordered, doubled, faults>>

LEMMA SendingStep ==
  ASSUME Typed, Told, NEW t \in Subs, Pay(t) \/ Update(t) \/ Cancel(t)
  PROVE  \E s \in Statuses : \E msgs : Sending(t, s, msgs)
<1>1. /\ session \in [Subs -> {"none", "open", "expired", "paid"}]
      /\ sub[t].status \in Statuses
  BY DEF Typed
<1>2. ASSUME NEW k \in SubscriptionKinds \cup {"checkout", "payment_failed"}, NEW s \in Statuses
      PROVE  /\ Event(k, t, s) \in Msg /\ Event(k, t, s).kind = k
             /\ Event(k, t, s).sub = t /\ Event(k, t, s).status = s
  BY <1>2 DEF Event, Msg
<1>n. 1..1 = {1} /\ 1..2 = {1, 2} OBVIOUS
<1>3. ASSUME NEW a \in Msg, NEW b \in Msg
      PROVE  /\ <<a>> \in Seq(Msg) /\ Len(<<a>>) = 1 /\ <<a>>[1] = a
             /\ <<a, b>> \in Seq(Msg) /\ Len(<<a, b>>) = 2
             /\ <<a, b>>[1] = a /\ <<a, b>>[2] = b
             /\ <<a>> \o <<b>> = <<a, b>> /\ <<a>> \o <<>> = <<a>>
  <2>1. /\ <<a>> \in Seq(Msg) /\ Len(<<a>>) = 1 /\ <<a>>[1] = a
        /\ <<a, b>> \in Seq(Msg) /\ Len(<<a, b>>) = 2
        /\ <<a, b>>[1] = a /\ <<a, b>>[2] = b
    BY <1>3
  <2>2. <<a>> \o <<>> = <<a>> BY <2>1, ConcatEmptySeq
  <2>3. <<a>> \o <<b>> = <<a, b>>
    <3>1. <<b>> \in Seq(Msg) /\ Len(<<b>>) = 1 /\ <<b>>[1] = b BY <1>3
    <3>2. /\ <<a>> \o <<b>> \in Seq(Msg) /\ Len(<<a>> \o <<b>>) = 2
          /\ (<<a>> \o <<b>>)[1] = a /\ (<<a>> \o <<b>>)[2] = b
      BY <2>1, <3>1, ConcatProperties
    <3>3. \A k \in 1..2 : (<<a>> \o <<b>>)[k] = <<a, b>>[k] BY <1>n, <2>1, <3>2
    <3> QED BY <2>1, <3>2, <3>3, SeqEqual
  <2> QED BY <2>1, <2>2, <2>3
<1>4. CASE Pay(t)
  <2>1. PICK s \in {"incomplete", "active"} :
          /\ sub' = [sub EXCEPT ![t].status = s]
          /\ Send(<<Event("created", t, s), Event("checkout", t, s)>>)
    BY <1>4 DEF Pay
  <2> DEFINE a == Event("created", t, s)  b == Event("checkout", t, s)
  <2>2. s \in Statuses /\ "created" \in SubscriptionKinds /\ "checkout" \notin SubscriptionKinds
    BY DEF Statuses, SubscriptionKinds
  <2>3. /\ a \in Msg /\ a.kind = "created" /\ a.sub = t /\ a.status = s
        /\ b \in Msg /\ b.kind = "checkout" /\ b.sub = t /\ b.status = s
    BY <1>2, <2>2
  <2>4. /\ session[t] = "open" /\ session' = [session EXCEPT ![t] = "paid"]
        /\ UNCHANGED <<row, inbox, inv, queued, applied, ordered, doubled, faults>>
    BY <1>4 DEF Pay, d1, history
  <2> HIDE DEF a, b
  <2>5. Sending(t, s, <<a, b>>) BY <1>n, <1>3, <2>1, <2>2, <2>3, <2>4 DEF Sending, a, b
  <2> QED BY <2>2, <2>5
<1>5. CASE Update(t)
  <2>1. PICK m \in Moves :
          /\ sub[t].status = m[1]
          /\ sub' = [sub EXCEPT ![t].status = m[2]]
          /\ Send(<<Event("updated", t, m[2])>> \o
                  (IF m[2] = "past_due" THEN <<Event("payment_failed", t, m[2])>> ELSE <<>>))
    BY <1>5 DEF Update
  <2> DEFINE s == m[2]  a == Event("updated", t, s)  b == Event("payment_failed", t, s)
  <2>2. /\ m[1] \in {"incomplete", "active", "past_due"}
        /\ s \in {"incomplete_expired", "active", "past_due"}
    BY DEF Moves
  <2> HIDE DEF s
  <2>3. /\ "updated" \in SubscriptionKinds /\ "payment_failed" \notin SubscriptionKinds
        /\ s \in Statuses /\ s # "none"
    BY <2>2 DEF Statuses, SubscriptionKinds
  <2>4. /\ a \in Msg /\ a.kind = "updated" /\ a.sub = t /\ a.status = s
        /\ b \in Msg /\ b.kind = "payment_failed" /\ b.sub = t /\ b.status = s
    BY <1>2, <2>3
  <2>5. t \in Live BY <2>1, <2>2 DEF Live, Terminal
  <2>6. session[t] = "paid" BY <2>5 DEF Told, Live, Terminal
  <2>7. /\ session' = [session EXCEPT ![t] = "paid"]
        /\ UNCHANGED <<row, inbox, inv, queued, applied, ordered, doubled, faults>>
    BY <1>1, <1>5, <2>6 DEF Update, d1, history
  <2>8. sub' = [sub EXCEPT ![t].status = s] BY <2>1 DEF s
  <2>9. Send(<<a, b>>) \/ Send(<<a>>) BY <1>3, <2>1, <2>4 DEF s
  <2> HIDE DEF a, b
  <2>10. Sending(t, s, <<a, b>>) \/ Sending(t, s, <<a>>)
    BY <1>n, <1>3, <2>3, <2>4, <2>5, <2>6, <2>7, <2>8, <2>9 DEF Sending
  <2> QED BY <2>3, <2>10
<1>6. CASE Cancel(t)
  <2> DEFINE a == Event("deleted", t, "canceled")
  <2>1. /\ sub' = [sub EXCEPT ![t].status = "canceled"] /\ Send(<<a>>)
        /\ UNCHANGED <<row, inbox, inv, queued, applied, ordered, doubled, faults>>
        /\ session' = session /\ t \in Live
    BY <1>6 DEF Cancel, d1, history, Live, Terminal
  <2>2. session[t] = "paid" BY <2>1 DEF Told, Live, Terminal
  <2>3. "deleted" \in SubscriptionKinds /\ "canceled" \in Statuses
    BY DEF Statuses, SubscriptionKinds
  <2>4. a \in Msg /\ a.kind = "deleted" /\ a.sub = t /\ a.status = "canceled"
    BY <1>2, <2>3
  <2>5. session' = [session EXCEPT ![t] = "paid"] BY <1>1, <2>1, <2>2
  <2> HIDE DEF a
  <2>7. <<a>> \in Seq(Msg) /\ Len(<<a>>) = 1 /\ <<a>>[1] = a BY <1>3, <2>4
  <2>6. Sending(t, "canceled", <<a>>) BY <1>n, <2>7, <2>1, <2>2, <2>3, <2>4, <2>5 DEF Sending
  <2> QED BY <2>3, <2>6
<1> QED BY <1>4, <1>5, <1>6

\* What was sent stays where it was; what is new is of t, and one subscription event.
LEMMA SentGrows ==
  ASSUME Typed, NEW t \in Subs, NEW s \in Statuses, NEW msgs, Sending(t, s, msgs)
  PROVE  /\ sent' \in Seq(Msg) /\ Len(sent) \in Nat /\ Len(sent') \in Nat
         /\ Len(sent) < Len(sent') /\ Len(sent') <= MaxEvents
         /\ \A e \in 1..Len(sent) : sent'[e] = sent[e]
         /\ \A e \in (Len(sent) + 1)..Len(sent') :
              /\ sent'[e] \in Msg /\ sent'[e].sub = t /\ sent'[e].status = s
              /\ sent'[e].kind \in SubscriptionKinds <=> e = Len(sent) + 1
         /\ sent'[Len(sent) + 1] = msgs[1]
         /\ SubEv' = SubEv \cup {Len(sent) + 1}
<1>1. sent \in Seq(Msg) /\ msgs \in Seq(Msg) /\ sent' = sent \o msgs /\ Len(sent) + Len(msgs) <= MaxEvents
      /\ Len(msgs) \in {1, 2} /\ Len(sent) \in Nat /\ Len(msgs) \in Nat
  BY DEF Typed, Sending, Send
<1>2. /\ sent' \in Seq(Msg) /\ Len(sent') = Len(sent) + Len(msgs)
      /\ \A k \in 1..Len(sent) + Len(msgs) :
           sent'[k] = IF k <= Len(sent) THEN sent[k] ELSE msgs[k - Len(sent)]
  BY <1>1, ConcatProperties
<1>3. \A e \in 1..Len(sent) : sent'[e] = sent[e] BY <1>1, <1>2
<1>l. /\ Len(sent) \in Nat /\ Len(sent') \in Nat /\ Len(sent) < Len(sent')
      /\ Len(sent) + 1 \in 1..Len(sent')
  <2>1. Len(sent') = Len(sent) + 1 \/ Len(sent') = Len(sent) + 2 BY <1>1, <1>2
  <2> QED BY <1>1, <2>1
<1>4. ASSUME NEW e \in (Len(sent) + 1)..Len(sent')
      PROVE  /\ sent'[e] \in Msg /\ sent'[e].sub = t /\ sent'[e].status = s
             /\ sent'[e].kind \in SubscriptionKinds <=> e = Len(sent) + 1
  <2> DEFINE k == e - Len(sent)
  <2>1. k \in 1..Len(msgs) /\ sent'[e] = msgs[k] BY <1>1, <1>2
  <2>2. k = 1 <=> e = Len(sent) + 1 BY <1>1
  <2>3. msgs[k] \in Msg BY <1>1, <2>1
  <2> HIDE DEF k
  <2>4. msgs[k].sub = t /\ msgs[k].status = s /\ (msgs[k].kind \in SubscriptionKinds <=> k = 1)
    <3>1. \A j \in 1..Len(msgs) : /\ msgs[j].sub = t /\ msgs[j].status = s
                                  /\ msgs[j].kind \in SubscriptionKinds <=> j = 1
      BY DEF Sending
    <3> QED BY <2>1, <3>1
  <2> QED BY <2>1, <2>2, <2>3, <2>4
<1>5. sent'[Len(sent) + 1] = msgs[1] BY <1>1, <1>2
<1>6. SubEv' = SubEv \cup {Len(sent) + 1}
  <2>1. ASSUME NEW e \in 1..Len(sent') PROVE e \in SubEv' <=> e \in SubEv \cup {Len(sent) + 1}
    BY <1>1, <1>2, <1>3, <1>4 DEF SubEv
  <2>2. SubEv' \subseteq 1..Len(sent') BY DEF SubEv
  <2>3. SubEv \subseteq 1..Len(sent') BY <1>1, <1>2 DEF SubEv
  <2> QED BY <1>l, <2>1, <2>2, <2>3
<1>7. Len(sent') <= MaxEvents BY <1>1, <1>2
<1> QED BY <1>l, <1>1, <1>2, <1>3, <1>4, <1>5, <1>6, <1>7

LEMMA SendingTold ==
  ASSUME Typed, Told, NEW t \in Subs, NEW s \in Statuses, NEW msgs, Sending(t, s, msgs)
  PROVE  Told'
<1> DEFINE n == Len(sent) + 1
<1>1. /\ Len(sent) \in Nat /\ Len(sent') \in Nat /\ Len(sent) < Len(sent')
      /\ \A e \in 1..Len(sent) : sent'[e] = sent[e]
      /\ \A e \in n..Len(sent') :
           /\ sent'[e].sub = t /\ sent'[e].status = s
           /\ sent'[e].kind \in SubscriptionKinds <=> e = n
      /\ sent'[n] = msgs[1]
      /\ SubEv' = SubEv \cup {n}
  BY SentGrows
<1>2. SubEv \subseteq 1..Len(sent) /\ n \in Nat /\ n \in 1..Len(sent') /\ n \notin SubEv
  BY <1>1 DEF SubEv
<1>3. /\ session' = [session EXCEPT ![t] = "paid"] /\ sub' = [sub EXCEPT ![t].status = s]
      /\ s # "none" /\ (session[t] = "open" \/ t \in Live)
      /\ msgs[1].kind = "created" <=> session[t] = "open"
      /\ msgs[1].kind = "deleted" => s = "canceled"
  BY DEF Sending
<1>4. /\ \A u \in Subs : session'[u] = IF u = t THEN "paid" ELSE session[u]
      /\ \A u \in Subs : sub'[u].status = IF u = t THEN s ELSE sub[u].status
  BY <1>3 DEF Typed
<1>5. session[t] \in {"open", "paid"} /\ sub[t].status \notin {"canceled", "incomplete_expired"}
  BY <1>3 DEF Told, Live, Terminal
<1>6. \A e \in 1..Len(sent) : sent[e] \in Msg /\ sent[e].sub \in Subs
  BY SentIs
<1> HIDE DEF n
<1>7. \A e \in 1..Len(sent) : e \in 1..Len(sent') /\ e < n BY <1>1 DEF n
<1>8. \A e \in 1..Len(sent') : e \in 1..Len(sent) \/ e \in n..Len(sent') BY <1>1 DEF n
<1>a. \A u \in Subs : sub'[u].status # "none" <=> session'[u] = "paid"
  BY <1>3, <1>4 DEF Told
<1>b. \A u \in Subs : session'[u] = "paid" =>
        \E e \in SubEv' : sent'[e].kind = "created" /\ sent'[e].sub = u
  <2> SUFFICES ASSUME NEW u \in Subs, session'[u] = "paid"
               PROVE  \E e \in SubEv' : sent'[e].kind = "created" /\ sent'[e].sub = u
    OBVIOUS
  <2>1. CASE session[u] = "paid"
    <3>1. PICK e \in SubEv : sent[e].kind = "created" /\ sent[e].sub = u BY <2>1 DEF Told
    <3> QED BY <1>1, <1>2, <3>1
  <2>2. CASE session[u] # "paid"
    <3>1. u = t /\ session[t] = "open" BY <1>4, <1>5, <2>2
    <3>2. sent'[n].kind = "created" /\ sent'[n].sub = t
      <4>1. n \in n..Len(sent') BY <1>2
      <4> QED BY <1>1, <1>3, <3>1, <4>1
    <3> QED BY <1>1, <3>1, <3>2
  <2> QED BY <2>1, <2>2
<1>c. \A e \in 1..Len(sent') :
        /\ session'[sent'[e].sub] = "paid" /\ sent'[e].status # "none"
        /\ sent'[e].status \in Terminal => sub'[sent'[e].sub].status \in Terminal
        /\ sent'[e].kind = "deleted" => sent'[e].status = "canceled"
  <2> SUFFICES ASSUME NEW e \in 1..Len(sent')
               PROVE  /\ session'[sent'[e].sub] = "paid" /\ sent'[e].status # "none"
                      /\ sent'[e].status \in Terminal => sub'[sent'[e].sub].status \in Terminal
                      /\ sent'[e].kind = "deleted" => sent'[e].status = "canceled"
    OBVIOUS
  <2>1. CASE e \in 1..Len(sent)
    <3>1. /\ session[sent[e].sub] = "paid" /\ sent[e].status # "none"
          /\ sent[e].status \in Terminal => sub[sent[e].sub].status \in Terminal
          /\ sent[e].kind = "deleted" => sent[e].status = "canceled"
      BY <2>1 DEF Told
    <3>2. sent[e].sub = t => sub[t].status \notin Terminal
      BY <1>5, <2>1, <3>1 DEF Told, Terminal
    <3> QED BY <1>1, <1>4, <1>6, <2>1, <3>1, <3>2
  <2>2. CASE e \in n..Len(sent')
    <3>1. e = n => (sent'[e].kind = "deleted" => s = "canceled") BY <1>1, <1>3
    <3>2. sent'[e].kind = "deleted" => e = n BY <1>1, <2>2 DEF SubscriptionKinds
    <3> QED BY <1>1, <1>3, <1>4, <2>2, <3>1, <3>2
  <2> QED BY <1>8, <2>1, <2>2
<1>d. \A e \in SubEv' : \E f \in SubEv' :
        f <= e /\ sent'[f].kind = "created" /\ sent'[f].sub = sent'[e].sub
  <2> SUFFICES ASSUME NEW e \in SubEv'
               PROVE  \E f \in SubEv' : f <= e /\ sent'[f].kind = "created"
                                                /\ sent'[f].sub = sent'[e].sub
    OBVIOUS
  <2>1. CASE e \in SubEv
    <3>1. PICK f \in SubEv : f <= e /\ sent[f].kind = "created" /\ sent[f].sub = sent[e].sub
      BY <2>1 DEF Told
    <3> QED BY <1>1, <1>2, <2>1, <3>1
  <2>2. CASE e = n
    <3>0. n \in n..Len(sent') BY <1>2
    <3>1. CASE session[t] = "open" BY <1>1, <1>2, <1>3, <2>2, <3>0, <3>1
    <3>2. CASE session[t] = "paid"
      <4>1. PICK f \in SubEv : sent[f].kind = "created" /\ sent[f].sub = t BY <3>2 DEF Told
      <4>2. f <= n BY <1>2, <1>7, <4>1
      <4> QED BY <1>1, <1>2, <2>2, <3>0, <4>1, <4>2
    <3> QED BY <1>5, <3>1, <3>2
  <2> QED BY <1>1, <2>1, <2>2
<1>e. \A e \in SubEv' : (\A f \in SubEv' : sent'[f].sub = sent'[e].sub => f <= e) =>
        sent'[e].status = sub'[sent'[e].sub].status
  <2> SUFFICES ASSUME NEW e \in SubEv',
                      \A f \in SubEv' : sent'[f].sub = sent'[e].sub => f <= e
               PROVE  sent'[e].status = sub'[sent'[e].sub].status
    OBVIOUS
  <2>0. n \in n..Len(sent') /\ n \in SubEv' BY <1>1, <1>2
  <2>1. CASE e \in SubEv
    <3>1. e < n /\ ~(n <= e) BY <1>2, <1>7, <2>1
    <3>2. sent'[e] = sent[e] /\ sent[e].sub # t BY <1>1, <1>2, <2>0, <2>1, <3>1
    <3>3. \A f \in SubEv : sent[f].sub = sent[e].sub => f <= e BY <1>1, <1>2, <3>2
    <3>4. sent[e].status = sub[sent[e].sub].status BY <2>1, <3>3 DEF Told
    <3> QED BY <1>2, <1>4, <1>6, <2>1, <3>2, <3>4
  <2>2. CASE e = n BY <1>1, <1>4, <2>0, <2>2
  <2> QED BY <1>1, <2>1, <2>2
<1>f. \E e \in SubEv' : \A f \in SubEv' : f <= e
  BY <1>1, <1>2, <1>7
<1>g. \A u, v \in Subs : v < u /\ session'[u] # "none" => session'[v] # "none"
  BY <1>4, <1>5 DEF Told
<1> QED BY <1>a, <1>b, <1>c, <1>d, <1>e, <1>f, <1>g DEF Told

\* An event from Stripe disturbs nothing that was handled.
LEMMA SendingKeeps ==
  ASSUME IInv, NEW t \in Subs, NEW s \in Statuses, NEW msgs, Sending(t, s, msgs)
  PROVE  IInv'
<1> DEFINE n == Len(sent) + 1
<1>t. Typed /\ Told BY DEF IInv
<1>1. /\ Len(sent) \in Nat /\ Len(sent') \in Nat /\ Len(sent) < Len(sent') /\ sent' \in Seq(Msg)
      /\ \A e \in 1..Len(sent) : sent'[e] = sent[e]
      /\ \A e \in n..Len(sent') : sent'[e].sub = t
      /\ SubEv' = SubEv \cup {n} /\ Len(sent') <= MaxEvents
  BY <1>t, SentGrows
<1>2. /\ SubEv \subseteq 1..Len(sent) /\ n \in Nat /\ n \notin SubEv
      /\ applied \subseteq 1..Len(sent) /\ n \notin applied
  BY <1>1, <1>t DEF SubEv, Typed
<1>3. /\ session' = [session EXCEPT ![t] = "paid"] /\ sub' = [sub EXCEPT ![t].status = s]
      /\ session[t] = "open" \/ t \in Live
      /\ row' = row /\ inbox' = inbox /\ inv' = inv /\ queued' = queued /\ applied' = applied
      /\ ordered' = ordered /\ doubled' = doubled /\ faults' = faults
  BY DEF Sending
<1>4. /\ \A u \in Subs : session'[u] = IF u = t THEN "paid" ELSE session[u]
      /\ \A u \in Subs : sub'[u].status = IF u = t THEN s ELSE sub[u].status
      /\ \A u \in Subs : sub'[u].cust = sub[u].cust
  BY <1>3, <1>t DEF Typed
<1>5. session[t] \in {"open", "paid"} BY <1>3, <1>t DEF Told, Live, Terminal
<1> HIDE DEF n
<1>7. \A e \in 1..Len(sent) : e \in 1..Len(sent') /\ e < n BY <1>1 DEF n
<1>8. \A e \in 1..Len(sent') : e \in 1..Len(sent) \/ e \in n..Len(sent') BY <1>1 DEF n
<1>a. Typed'
  <2>1. session' \in [Subs -> {"none", "open", "expired", "paid"}] BY <1>3, <1>t DEF Typed
  <2>2. sub' \in [Subs -> [status : Statuses, cust : Customers]] BY <1>3, <1>t DEF Typed
  <2>3. 0..Len(sent) \subseteq 0..Len(sent') BY <1>1
  <2>4. inv' \in [Invocations -> [pc : Pcs, ev : 0..Len(sent')]]
    BY <1>3, <1>t, <2>3 DEF Typed
  <2>5. applied' \subseteq 1..Len(sent') BY <1>2, <1>3, <1>7
  <2> QED BY <1>1, <1>3, <1>t, <2>1, <2>2, <2>4, <2>5 DEF Typed
<1>b. Once'
  <2>1. \A i \in Invocations : inv[i].pc # "idle" => Held(i)'
    BY <1>1, <1>3, <1>7 DEF IInv, Once, Held
  <2>2. \A e \in 1..MaxEvents : e > Len(sent') => e > Len(sent) BY <1>1
  <2> QED BY <1>3, <2>1, <2>2 DEF IInv, Once
<1>c. Orphaned'
  <2>1. \A e \in 1..Len(sent') : inbox[e] = "recorded" => e \in 1..Len(sent)
    <3>1. \A e \in 1..Len(sent') : e \in 1..MaxEvents BY <1>1, BoundsAssumption
    <3>2. \A e \in 1..Len(sent') : e \notin 1..Len(sent) => e > Len(sent) BY <1>1
    <3> QED BY <3>1, <3>2 DEF IInv, Once
  <2>2. Orphans' = Orphans BY <1>3, <1>7, <2>1 DEF Orphans
  <2> QED BY <1>3, <2>2 DEF IInv, Orphaned
<1>d. Told' BY <1>t, SendingTold
<1>e. Shared'
  <2>1. \A u \in Subs : session'[u] \in {"open", "paid"} <=> session[u] \in {"open", "paid"}
    BY <1>4, <1>5
  <2>2. \A e \in applied' : sent'[e].kind = "created" => row' # NoRow
    BY <1>1, <1>2, <1>3 DEF IInv, Shared
  <2> QED BY <1>3, <1>4, <2>1, <2>2 DEF IInv, Shared
<1>f. InOrder'
  <2>1. \A e \in applied : e < n BY <1>2, <1>7
  <2>2. \A e, f \in SubEv' : f < e /\ e \in applied => e \in SubEv /\ f \in SubEv
    BY <1>1, <1>2, <2>1
  <2> QED BY <1>3, <2>2 DEF IInv, InOrder
<1>g. InTurn'
  <2> SUFFICES ASSUME ordered, ~doubled
               PROVE  /\ \A u, v \in Subs :
                           (session'[u] = "open" \/ u \in Live') /\ session'[v] # "none" => v <= u
                      /\ \A e, f \in 1..Len(sent') : e < f => sent'[e].sub <= sent'[f].sub
    BY <1>3 DEF InTurn
  <2>1. \A u, v \in Subs :
          (session'[u] = "open" \/ u \in Live') /\ session'[v] # "none" => v <= u
    <3>1. \A u \in Subs : u \in Live' => u = t \/ u \in Live BY <1>4 DEF Live
    <3> QED BY <1>3, <1>4, <1>5, <3>1 DEF IInv, InTurn
  <2>2. \A e \in 1..Len(sent) : sent'[e].sub <= t
    <3>1. \A e \in 1..Len(sent) : sent[e].sub \in Subs BY <1>t, SentIs
    <3>2. \A e \in 1..Len(sent) : session[sent[e].sub] # "none" BY <1>t DEF Told
    <3> QED BY <1>1, <1>3, <3>1, <3>2 DEF IInv, InTurn
  <2>3. t <= t BY SubsAssumption
  <2>4. ASSUME NEW e \in 1..Len(sent'), NEW f \in 1..Len(sent'), e < f
        PROVE  sent'[e].sub <= sent'[f].sub
    <3>1. CASE f \in 1..Len(sent)
      <4>1. e \in 1..Len(sent) BY <1>1, <2>4, <3>1
      <4> QED BY <1>1, <2>4, <3>1, <4>1 DEF IInv, InTurn
    <3>2. CASE f \in n..Len(sent') BY <1>1, <1>8, <2>2, <2>3, <3>2
    <3> QED BY <1>8, <3>1, <3>2
  <2> QED BY <2>1, <2>4
<1>h. Current'
  <2>1. applied' \cap SubEv' = applied \cap SubEv BY <1>1, <1>2, <1>3
  <2>2. applied' \cap Paying' = applied \cap Paying
    <3>1. Paying' = {e \in SubEv' : sent'[e].kind \in {"created", "updated"} /\ sent'[e].status = "active"}
      BY DEF Paying
    <3>2. \A e \in applied : e \in SubEv' /\ sent'[e] = sent[e] <=> e \in SubEv BY <1>1, <1>2
    <3> QED BY <1>1, <1>2, <1>3, <3>1, <3>2 DEF Paying
  <2>3. \A e \in applied \cap SubEv : sent'[e] = sent[e] BY <1>1, <1>2
  <2> QED BY <1>3, <2>1, <2>2, <2>3 DEF IInv, Current
<1> QED BY <1>a, <1>b, <1>c, <1>d, <1>e, <1>f, <1>g, <1>h DEF IInv

\* A step after which only the sessions and the customers differ.
LEMMA SessionKeeps ==
  ASSUME IInv, Typed', Told', Shared', InTurn',
         UNCHANGED <<sent, row, inbox, inv, queued, applied, ordered, faults>>,
         doubled => doubled'
  PROVE  IInv'
<1>1. SubEv' = SubEv /\ Paying' = Paying /\ Orphans' = Orphans
  BY DEF SubEv, Paying, Orphans
<1>2. Once' BY DEF IInv, Once, Held
<1>3. Orphaned' BY <1>1 DEF IInv, Orphaned
<1>4. InOrder' BY <1>1 DEF IInv, InOrder
<1>5. Current' BY <1>1 DEF IInv, Current
<1> QED BY <1>2, <1>3, <1>4, <1>5 DEF IInv

LEMMA ExpireKeeps ==
  ASSUME IInv, NEW t \in Subs, ExpireSession(t)
  PROVE  IInv'
<1>t. Typed /\ Told BY DEF IInv
<1>1. /\ UNCHANGED <<sub, sent, row, inbox, inv, queued, applied, ordered, doubled, faults>>
      /\ session[t] = "open" /\ session' = [session EXCEPT ![t] = "expired"]
  BY DEF ExpireSession, d1, history
<1>2. /\ session' \in [Subs -> {"none", "open", "expired", "paid"}]
      /\ \A u \in Subs : session'[u] = IF u = t THEN "expired" ELSE session[u]
  BY <1>1, <1>t DEF Typed
<1>3. SubEv' = SubEv /\ Live' = Live BY <1>1 DEF SubEv, Live
<1>4. Typed' BY <1>1, <1>2, <1>t DEF Typed
<1>5. Told'
  <2>1. \A u \in Subs : session'[u] = "paid" <=> session[u] = "paid" BY <1>1, <1>2
  <2>2. \A u \in Subs : session'[u] # "none" <=> session[u] # "none" BY <1>1, <1>2
  <2>3. \A e \in 1..Len(sent) : sent[e].sub \in Subs BY <1>t, SentIs
  <2> QED BY <1>1, <1>3, <1>t, <2>1, <2>2, <2>3 DEF Told
<1>6. Shared' BY <1>1, <1>2 DEF IInv, Shared
<1>7. InTurn' BY <1>1, <1>2, <1>3 DEF IInv, InTurn
<1> QED BY <1>1, <1>4, <1>5, <1>6, <1>7, SessionKeeps

\* With everything seen and the row on the way out, nothing can still bill.
LEMMA NothingBills ==
  ASSUME IInv, ordered, ~doubled, ~Unseen, ~blocksNewCheckout(row)
  PROVE  Live = {} /\ \A t \in Subs : session[t] # "open"
<1>t. Typed /\ Told BY DEF IInv
<1>1. \A t \in Subs : session[t] # "open" BY DEF Unseen
<1>2. ASSUME NEW t \in Live PROVE FALSE
  <2>1. t \in Subs /\ sub[t].status \notin Terminal /\ session[t] = "paid"
    BY <1>t, <1>2 DEF Live, Told, Terminal
  <2>2. PICK e \in applied : sent[e].kind = "created" /\ sent[e].sub = t
    BY <2>1 DEF Unseen
  <2>3. e \in SubEv /\ applied \subseteq 1..Len(sent)
    BY <1>t, <2>2 DEF SubEv, Typed, SubscriptionKinds
  <2>4. PICK f \in applied \cap SubEv : \A g \in applied \cap SubEv : g <= f
    BY <2>3 DEF IInv, Current
  <2>5. row.status = sent[f].status BY <2>4 DEF IInv, Current
  <2>6. f \in 1..Len(sent) /\ e \in 1..Len(sent) /\ e <= f BY <2>3, <2>4
  <2>7. sent[e].sub \in Subs /\ sent[f].sub \in Subs /\ session[sent[f].sub] = "paid"
    BY <1>t, <2>6, SentIs DEF Told
  <2>8. t <= sent[f].sub
    <3>1. CASE e = f BY <2>1, <2>2, <3>1, SubsAssumption
    <3>2. CASE e < f BY <2>2, <2>6, <3>2 DEF IInv, InTurn
    <3> QED BY <2>6, <3>1, <3>2
  <2>9. sent[f].sub <= t BY <1>2, <2>1, <2>7 DEF IInv, InTurn
  <2>10. sent[f].sub = t
    <3>1. t \in Nat /\ sent[f].sub \in Nat BY <2>1, <2>7, SubsAssumption
    <3> QED BY <2>8, <2>9, <3>1
  <2>11. sent[f].status \notin Terminal BY <1>t, <2>1, <2>6, <2>10 DEF Told
  <2>12. row # NoRow BY <2>2 DEF IInv, Shared
  <2> QED BY <2>5, <2>11, <2>12 DEF blocksNewCheckout, CHECKOUT_REOPEN_STATUSES, Terminal
<1> QED BY <1>1, <1>2

LEMMA OpenKeeps ==
  ASSUME IInv, NEW t \in Subs, OpenCheckout(t)
  PROVE  IInv'
<1>t. Typed /\ Told BY DEF IInv
<1>1. /\ UNCHANGED <<sent, row, inbox, inv, queued, applied, ordered, faults>>
      /\ session[t] = "none" /\ \A u \in Subs : u < t => session[u] # "none"
      /\ ~blocksNewCheckout(row)
      /\ session' = [session EXCEPT ![t] = "open"]
      /\ sub' = [sub EXCEPT ![t].cust = CustomerFor(t)]
      /\ doubled' = (doubled \/ Unseen)
  BY DEF OpenCheckout, d1
<1>2. /\ session' \in [Subs -> {"none", "open", "expired", "paid"}]
      /\ \A u \in Subs : session'[u] = IF u = t THEN "open" ELSE session[u]
  BY <1>1, <1>t DEF Typed
<1>3. CustomerFor(t) \in Customers BY <1>t DEF CustomerFor, Typed, Customers
<1>4. /\ sub' \in [Subs -> [status : Statuses, cust : Customers]]
      /\ \A u \in Subs : sub'[u].status = sub[u].status
      /\ \A u \in Subs : sub'[u].cust = IF u = t THEN CustomerFor(t) ELSE sub[u].cust
  BY <1>1, <1>3, <1>t DEF Typed
<1>5. doubled' \in BOOLEAN /\ (doubled => doubled')
  <2>1. doubled \in BOOLEAN BY <1>t DEF Typed
  <2>2. Unseen \in BOOLEAN BY DEF Unseen
  <2> QED BY <1>1, <2>1, <2>2, Zenon
<1>6. SubEv' = SubEv /\ Live' = Live BY <1>1, <1>4 DEF SubEv, Live
<1>a. Typed' BY <1>1, <1>2, <1>4, <1>5, <1>t DEF Typed
<1>b. Told'
  <2>1. \A u \in Subs : session'[u] = "paid" <=> session[u] = "paid" BY <1>1, <1>2
  <2>2. \A e \in 1..Len(sent) : sent[e].sub \in Subs BY <1>t, SentIs
  <2>3. \A u, v \in Subs : v < u /\ session'[u] # "none" => session'[v] # "none"
    BY <1>1, <1>2 DEF IInv, Told
  <2> QED BY <1>1, <1>4, <1>6, <1>t, <2>1, <2>2, <2>3 DEF Told, SubEv
<1>s. ~doubled' => ~doubled /\ ~Unseen BY <1>1
<1>c. Shared'
  <2>1. \A e \in applied' : sent'[e].kind = "created" => row' # NoRow
    BY <1>1 DEF IInv, Shared
  <2> SUFFICES ASSUME ~doubled', NEW u \in Subs, session'[u] \in {"open", "paid"}
               PROVE  /\ row # NoRow => row.cust = sub'[u].cust
                      /\ \A v \in Subs : session'[v] \in {"open", "paid"} => sub'[v].cust = sub'[u].cust
    BY <1>1, <2>1 DEF Shared
  <2>2. ~doubled /\ ~Unseen BY <1>s
  <2>3. ASSUME NEW v \in Subs, session'[v] \in {"open", "paid"}, v # t
        PROVE  row # NoRow /\ sub'[v].cust = row.cust
    <3>1. session[v] = "paid" BY <1>2, <2>2, <2>3 DEF Unseen
    <3>2. row # NoRow BY <2>2, <3>1 DEF Unseen, IInv, Shared
    <3> QED BY <1>4, <2>2, <2>3, <3>1, <3>2 DEF IInv, Shared
  <2>4. row # NoRow => sub'[t].cust = row.cust BY <1>4 DEF CustomerFor
  <2> QED BY <2>3, <2>4
<1>d. InTurn'
  <2> SUFFICES ASSUME ordered, ~doubled'
               PROVE  /\ \A u, v \in Subs :
                           (session'[u] = "open" \/ u \in Live) /\ session'[v] # "none" => v <= u
                      /\ \A e, f \in 1..Len(sent) : e < f => sent[e].sub <= sent[f].sub
    BY <1>1, <1>6 DEF InTurn
  <2>1. ~doubled /\ Live = {} /\ \A u \in Subs : session[u] # "open"
    BY <1>1, <1>s, NothingBills
  <2>2. \A v \in Subs : session'[v] # "none" => v <= t
    <3>1. \A v \in Subs : t < v => session[v] = "none" BY <1>1, <1>t DEF Told
    <3>2. \A v \in Subs : v <= t \/ t < v BY SubsAssumption
    <3> QED BY <1>2, <3>1, <3>2, SubsAssumption
  <2> QED BY <1>2, <2>1, <2>2 DEF IInv, InTurn
<1> QED BY <1>1, <1>5, <1>a, <1>b, <1>c, <1>d, SessionKeeps

---------------------------------------------------------------------------
(* The webhook's steps.                                                     *)

\* Invocation i moves to r over the event e, which no other holds.
Moved(i, e, r) ==
  /\ e \in 1..Len(sent)
  /\ IF inv[i].pc = "idle" THEN inbox[e] = "absent" ELSE inv[i].ev = e
  /\ r \in [pc : Pcs, ev : 0..Len(sent)]
  /\ inv' = [inv EXCEPT ![i] = r]
  /\ IF r.pc = "idle" THEN r.ev = 0 /\ (inbox'[e] = "processed" \/ Fault) ELSE r.ev = e /\ Held(i)'
  /\ inbox' \in [1..MaxEvents -> {"absent", "recorded", "processed"}]
  /\ queued' \in [1..MaxEvents -> 0..1]
  /\ applied' = applied \/ applied' = applied \cup {e}
  /\ \A g \in 1..MaxEvents \ {e} : inbox'[g] = inbox[g] /\ queued'[g] = queued[g]
  /\ inbox'[e] # "absent" /\ (inbox'[e] = "processed" => e \in applied')
  /\ row # NoRow => row' # NoRow
  /\ faults' = faults \/ Fault
  /\ UNCHANGED <<session, sub, sent>>

LEMMA MovedOnce ==
  ASSUME IInv, NEW i \in Invocations, NEW e, NEW r, Moved(i, e, r)
  PROVE  Once'
<1>1. /\ inv'[i] = r /\ \A j \in Invocations \ {i} : inv'[j] = inv[j]
      /\ sent' = sent
  BY DEF Moved, IInv, Typed
<1>2. \A j \in Invocations \ {i} : inv[j].pc # "idle" => Held(j) /\ inv[j].ev # e
  <2> SUFFICES ASSUME NEW j \in Invocations \ {i}, inv[j].pc # "idle"
               PROVE  Held(j) /\ inv[j].ev # e
    OBVIOUS
  <2>1. Held(j) BY DEF IInv, Once
  <2>2. CASE inv[i].pc = "idle" BY <2>1, <2>2 DEF Moved, Held
  <2>3. CASE inv[i].pc # "idle" BY <2>1, <2>3 DEF Moved, IInv, Once
  <2> QED BY <2>1, <2>2, <2>3
<1>3. e \in 1..MaxEvents /\ 1..Len(sent) \subseteq 1..MaxEvents
  <2>1. Len(sent) \in Nat /\ Len(sent) <= MaxEvents /\ e \in 1..Len(sent)
    BY DEF Moved, IInv, Typed
  <2> QED BY <2>1, BoundsAssumption
<1>4. ASSUME NEW j \in Invocations \ {i}, inv[j].pc # "idle" PROVE Held(j)'
  <2>1. /\ inv[j].ev \in 1..MaxEvents \ {e} /\ Held(j) /\ inv'[j] = inv[j]
        /\ row # NoRow => row' # NoRow
    BY <1>1, <1>2, <1>3, <1>4 DEF Held, Moved
  <2>2. inbox'[inv[j].ev] = inbox[inv[j].ev] /\ queued'[inv[j].ev] = queued[inv[j].ev]
    BY <2>1 DEF Moved
  <2>3. inv[j].ev \in applied' <=> inv[j].ev \in applied BY <2>1 DEF Moved
  <2> QED BY <1>1, <2>1, <2>2, <2>3 DEF Held
<1>5. \A j \in Invocations : IF inv'[j].pc = "idle" THEN inv'[j].ev = 0 ELSE Held(j)'
  BY <1>1, <1>4 DEF Moved, IInv, Once
<1>6. \A j, k \in Invocations :
        j # k /\ inv'[j].pc # "idle" /\ inv'[k].pc # "idle" => inv'[j].ev # inv'[k].ev
  BY <1>1, <1>2 DEF Moved, IInv, Once
<1>7. \A g \in 1..MaxEvents :
        /\ inbox'[g] = "absent" => g \notin applied' /\ queued'[g] = 0
        /\ inbox'[g] = "processed" => g \in applied'
        /\ g > Len(sent') => inbox'[g] = "absent"
  <2> SUFFICES ASSUME NEW g \in 1..MaxEvents
               PROVE  /\ inbox'[g] = "absent" => g \notin applied' /\ queued'[g] = 0
                      /\ inbox'[g] = "processed" => g \in applied'
                      /\ g > Len(sent') => inbox'[g] = "absent"
    OBVIOUS
  <2>1. CASE g = e
    <3>1. ~(e > Len(sent)) BY DEF Moved, IInv, Typed
    <3> QED BY <1>1, <2>1, <3>1 DEF Moved
  <2>2. CASE g # e
    <3>1. inbox'[g] = inbox[g] /\ queued'[g] = queued[g] /\ (g \in applied' <=> g \in applied)
      BY <2>2 DEF Moved
    <3> QED BY <1>1, <3>1 DEF IInv, Once
  <2> QED BY <2>1, <2>2
<1> QED BY <1>5, <1>6, <1>7 DEF Once

LEMMA MovedOrphans ==
  ASSUME IInv, NEW i \in Invocations, NEW e, NEW r, Moved(i, e, r)
  PROVE  Orphaned'
<1>1. /\ inv'[i] = r /\ \A j \in Invocations \ {i} : inv'[j] = inv[j]
      /\ sent' = sent /\ e \in 1..Len(sent)
  BY DEF Moved, IInv, Typed
<1>2. inv[i].ev = e \/ inv[i].ev = 0 BY DEF Moved, IInv, Once
<1>3. \A g \in 1..Len(sent) : g # e => inbox'[g] = inbox[g]
  <2>1. 1..Len(sent) \subseteq 1..MaxEvents
    <3>1. Len(sent) \in Nat /\ Len(sent) <= MaxEvents BY DEF IInv, Typed
    <3> QED BY <3>1, BoundsAssumption
  <2> QED BY <2>1 DEF Moved
<1>4. Orphans' \subseteq Orphans \cup {e}
  <2> SUFFICES ASSUME NEW g \in 1..Len(sent), g \in Orphans', g # e PROVE g \in Orphans
    BY <1>1 DEF Orphans
  <2>1. inbox[g] = "recorded" BY <1>3 DEF Orphans
  <2>2. \A j \in Invocations : inv[j].ev # g
    <3>1. \A j \in Invocations \ {i} : inv[j].ev # g BY <1>1 DEF Orphans
    <3>2. g # 0 OBVIOUS
    <3> QED BY <1>2, <3>1, <3>2
  <2> QED BY <2>1, <2>2 DEF Orphans
<1>5. e \notin Orphans' \/ Fault
  BY <1>1 DEF Moved, Orphans
<1>6. IsFiniteSet(Orphans) /\ Cardinality(Orphans) \in Nat
  <2>1. Len(sent) \in Int BY DEF IInv, Typed
  <2>2. IsFiniteSet(1..Len(sent)) BY <2>1, FS_Interval
  <2>3. Orphans \in SUBSET (1..Len(sent)) BY DEF Orphans
  <2>4. IsFiniteSet(Orphans) BY <2>2, <2>3, FS_Subset
  <2> QED BY <2>4, FS_CardinalityType
<1>7. faults \in Nat /\ Cardinality(Orphans) <= faults BY DEF IInv, Typed, Orphaned
<1>8. CASE Fault
  <2>1. /\ IsFiniteSet(Orphans \cup {e})
        /\ Cardinality(Orphans \cup {e}) = IF e \in Orphans THEN Cardinality(Orphans)
                                           ELSE Cardinality(Orphans) + 1
    BY <1>6, FS_AddElement
  <2>2. Cardinality(Orphans') <= Cardinality(Orphans \cup {e}) BY <1>4, <2>1, FS_Subset
  <2>3. IsFiniteSet(Orphans') BY <1>4, <2>1, FS_Subset
  <2>4. Cardinality(Orphans') \in Nat BY <2>3, FS_CardinalityType
  <2>5. faults' = faults + 1 BY <1>8 DEF Fault
  <2> QED BY <1>6, <1>7, <2>1, <2>2, <2>4, <2>5 DEF Orphaned
<1>9. CASE ~Fault
  <2>1. Orphans' \subseteq Orphans /\ faults' = faults BY <1>4, <1>5, <1>9 DEF Moved
  <2>2. IsFiniteSet(Orphans') /\ Cardinality(Orphans') <= Cardinality(Orphans)
    BY <1>6, <2>1, FS_Subset
  <2>3. Cardinality(Orphans') \in Nat BY <2>2, FS_CardinalityType
  <2> QED BY <1>6, <1>7, <2>1, <2>2, <2>3 DEF Orphaned
<1> QED BY <1>8, <1>9

\* Nothing but the row and the order is left to say of such a step.
LEMMA MovedKeeps ==
  ASSUME IInv, NEW i \in Invocations, NEW e, NEW r, Moved(i, e, r),
         row' \in [cust : Customers, sub : Customers, status : Statuses, converted : 0..MaxEvents],
         ordered' \in BOOLEAN, ordered' => ordered, doubled' = doubled,
         Shared', InOrder', Current'
  PROVE  IInv'
<1>t. Typed /\ Told BY DEF IInv
<1>1. UNCHANGED <<session, sub, sent>> BY DEF Moved
<1>2. SubEv' = SubEv /\ Live' = Live BY <1>1 DEF SubEv, Live
<1>3. Told' BY <1>1, <1>2, <1>t DEF Told
<1>4. InTurn' BY <1>1, <1>2 DEF IInv, InTurn
<1>5. Typed'
  <2>1. faults' \in 0..MaxFaults BY <1>t, BoundsAssumption DEF Moved, Typed, Fault
  <2>2. applied' \subseteq 1..Len(sent')
    <3>1. applied \subseteq 1..Len(sent) BY <1>t DEF Typed
    <3>2. e \in 1..Len(sent) /\ (applied' = applied \/ applied' = applied \cup {e})
      BY DEF Moved
    <3>3. sent' = sent BY <1>1
    <3> QED BY <3>1, <3>2, <3>3
  <2>3. inv' \in [Invocations -> [pc : Pcs, ev : 0..Len(sent')]] BY <1>1, <1>t DEF Moved, Typed
  <2>4. /\ inbox' \in [1..MaxEvents -> {"absent", "recorded", "processed"}]
        /\ queued' \in [1..MaxEvents -> 0..1]
    BY DEF Moved
  <2> QED BY <1>1, <1>t, <2>1, <2>2, <2>3, <2>4 DEF Typed
<1> QED BY <1>3, <1>4, <1>5, MovedOnce, MovedOrphans DEF IInv

\* A step that leaves the row and what is applied alone.
LEMMA QuietKeeps ==
  ASSUME IInv, NEW i \in Invocations, NEW e, NEW r, Moved(i, e, r),
         UNCHANGED <<row, applied, ordered, doubled>>
  PROVE  IInv'
<1>1. UNCHANGED <<session, sub, sent>> BY DEF Moved
<1>2. SubEv' = SubEv /\ Paying' = Paying BY <1>1 DEF SubEv, Paying
<1>3. Shared' BY <1>1 DEF IInv, Shared
<1>4. InOrder' BY <1>1, <1>2 DEF IInv, InOrder
<1>5. Current' BY <1>1, <1>2 DEF IInv, Current
<1>6. /\ row' \in [cust : Customers, sub : Customers, status : Statuses, converted : 0..MaxEvents]
      /\ ordered' \in BOOLEAN
  BY DEF IInv, Typed
<1> QED BY <1>3, <1>4, <1>5, <1>6, MovedKeeps

\* An invocation that holds an event goes on to l.
LEMMA GotoMoved ==
  ASSUME IInv, NEW i \in Invocations, inv[i].pc # "idle", NEW l \in Pcs \ {"idle"}, Goto(i, l),
         UNCHANGED <<session, sub, sent, inbox>>,
         \/ queued' = queued
         \/ l = "mark" /\ inv[i].pc = "emit" /\ queued' = [queued EXCEPT ![inv[i].ev] = @ + 1],
         applied' = applied \/ applied' = applied \cup {inv[i].ev},
         faults' = faults \/ Fault,
         row # NoRow => row' # NoRow,
         LET e == inv[i].ev IN
           /\ l \in {"lookup", "link", "sync", "cancel"} <=> e \notin applied'
           /\ inv[i].pc = "mark" => l = "mark"
           /\ l = "lookup" => sent[e].kind # "checkout"
           /\ l = "link" => sent[e].kind \in {"checkout", "created"}
           /\ l = "sync" => sent[e].kind \in {"created", "updated"} /\ row' # NoRow
           /\ l = "cancel" => sent[e].kind = "deleted" /\ row' # NoRow
  PROVE  Moved(i, inv[i].ev, [inv[i] EXCEPT !.pc = l])
<1> DEFINE e == inv[i].ev
           r == [inv[i] EXCEPT !.pc = l]
<1>1. inv[i] \in [pc : Pcs, ev : 0..Len(sent)] /\ Held(i) BY DEF IInv, Typed, Once
<1>2. r \in [pc : Pcs, ev : 0..Len(sent)] /\ r.pc = l /\ r.ev = e BY <1>1
<1>3. inv' = [inv EXCEPT ![i] = r] /\ inv'[i] = r BY DEF Goto, IInv, Typed
<1>4. e \in 1..Len(sent) /\ inbox[e] = "recorded" /\ (inv[i].pc # "mark" => queued[e] = 0)
      /\ inbox' = inbox /\ sent' = sent
  BY <1>1 DEF Held
<1>5. e \in 1..MaxEvents
  <2>1. Len(sent) \in Nat /\ Len(sent) <= MaxEvents BY DEF IInv, Typed
  <2> QED BY <1>4, <2>1, BoundsAssumption
<1>6. /\ queued' \in [1..MaxEvents -> 0..1] /\ (l # "mark" => queued'[e] = 0)
      /\ \A g \in 1..MaxEvents \ {e} : queued'[g] = queued[g]
  <2>1. queued \in [1..MaxEvents -> 0..1] BY DEF IInv, Typed
  <2>2. CASE queued' = queued BY <1>4, <2>1, <2>2
  <2>3. CASE l = "mark" /\ inv[i].pc = "emit" /\ queued' = [queued EXCEPT ![e] = queued[e] + 1]
    <3>1. queued[e] = 0 BY <1>4, <2>3
    <3>2. queued' = [queued EXCEPT ![e] = 1] BY <2>3, <3>1
    <3> QED BY <1>5, <2>1, <2>3, <3>2
  <2> QED BY <2>2, <2>3
<1>7. Held(i)' BY <1>2, <1>3, <1>4, <1>6 DEF Held
<1>8. inbox' \in [1..MaxEvents -> {"absent", "recorded", "processed"}] BY <1>4 DEF IInv, Typed
<1> QED BY <1>1, <1>2, <1>3, <1>4, <1>6, <1>7, <1>8 DEF Moved

LEMMA ReceiveKeeps ==
  ASSUME IInv, NEW i \in Invocations, Receive(i)
  PROVE  IInv'
<1>1. PICK e \in 1..Len(sent) :
        /\ inbox[e] = "absent" /\ inbox' = [inbox EXCEPT ![e] = "recorded"]
        /\ Dispatch(i, e)
  BY DEF Receive
<1> DEFINE r == [pc |-> IF sent[e].kind = "checkout" THEN "link" ELSE "lookup", ev |-> e]
<1>2. /\ inv[i].pc = "idle" /\ inv' = [inv EXCEPT ![i] = r]
      /\ UNCHANGED <<session, sub, sent, row, queued, applied, ordered, doubled, faults>>
  BY <1>1 DEF Receive, Dispatch, stripe, history
<1>3. e \in 1..MaxEvents
  <2>1. Len(sent) \in Nat /\ Len(sent) <= MaxEvents BY DEF IInv, Typed
  <2> QED BY <2>1, BoundsAssumption
<1>4. e \notin applied /\ queued[e] = 0 BY <1>1, <1>3 DEF IInv, Once
<1>5. /\ inbox' \in [1..MaxEvents -> {"absent", "recorded", "processed"}]
      /\ inbox'[e] = "recorded" /\ \A g \in 1..MaxEvents \ {e} : inbox'[g] = inbox[g]
  BY <1>1, <1>3 DEF IInv, Typed
<1>6. r \in [pc : Pcs, ev : 0..Len(sent)] BY DEF Pcs
<1>7. inv'[i] = r BY <1>2 DEF IInv, Typed
<1>8. Held(i)' BY <1>2, <1>4, <1>5, <1>7 DEF Held
<1>9. queued' \in [1..MaxEvents -> 0..1] BY <1>2 DEF IInv, Typed
<1>10. Moved(i, e, r) BY <1>1, <1>2, <1>4, <1>5, <1>6, <1>8, <1>9 DEF Moved
<1> QED BY <1>2, <1>10, QuietKeeps

LEMMA AnswerKeeps ==
  ASSUME IInv, NEW i \in Invocations, Mark(i) \/ Break(i)
  PROVE  IInv'
<1> DEFINE e == inv[i].ev
<1>1. inv[i].pc # "idle" /\ inv' = [inv EXCEPT ![i] = Idle]
      /\ UNCHANGED <<session, sub, sent, row, queued, applied, ordered, doubled>>
      /\ \/ inv[i].pc = "mark" /\ inbox' = [inbox EXCEPT ![e] = "processed"] /\ faults' = faults
         \/ Fault /\ inbox' = inbox
  BY DEF Mark, Break, Answer, stripe, d1, history
<1>2. Held(i) BY <1>1 DEF IInv, Once
<1>3. e \in 1..Len(sent) /\ inbox[e] = "recorded" BY <1>2 DEF Held
<1>4. e \in 1..MaxEvents
  <2>1. Len(sent) \in Nat /\ Len(sent) <= MaxEvents BY DEF IInv, Typed
  <2> QED BY <1>3, <2>1, BoundsAssumption
<1>5. /\ inbox' \in [1..MaxEvents -> {"absent", "recorded", "processed"}]
      /\ \A g \in 1..MaxEvents \ {e} : inbox'[g] = inbox[g]
      /\ \/ inbox'[e] = "recorded" /\ Fault
         \/ inbox'[e] = "processed" /\ e \in applied
  <2>1. inv[i].pc = "mark" => e \in applied BY <1>2 DEF Held
  <2> QED BY <1>1, <1>3, <1>4, <2>1 DEF IInv, Typed
<1>6. Idle \in [pc : Pcs, ev : 0..Len(sent)] /\ Idle.pc = "idle" /\ Idle.ev = 0
  <2>1. 0 \in 0..Len(sent) BY DEF IInv, Typed
  <2> QED BY <2>1 DEF Idle, Pcs
<1>7. queued' = queued /\ queued' \in [1..MaxEvents -> 0..1] BY <1>1 DEF IInv, Typed
<1>8. Moved(i, e, Idle) BY <1>1, <1>3, <1>5, <1>6, <1>7 DEF Moved
<1> QED BY <1>1, <1>8, QuietKeeps

LEMMA EmitKeeps ==
  ASSUME IInv, NEW i \in Invocations, Emit(i) \/ EmitFails(i)
  PROVE  IInv'
<1>1. /\ inv[i].pc = "emit" /\ Goto(i, "mark") /\ "mark" \in Pcs \ {"idle"}
      /\ UNCHANGED <<session, sub, sent, inbox, row, applied, ordered, doubled>>
      /\ queued' = queued \/ queued' = [queued EXCEPT ![inv[i].ev] = @ + 1]
      /\ faults' = faults \/ Fault
  BY DEF Emit, EmitFails, stripe, d1, history, Pcs
<1>2. inv[i].ev \in applied BY <1>1 DEF IInv, Once, Held
<1>3. Moved(i, inv[i].ev, [inv[i] EXCEPT !.pc = "mark"]) BY <1>1, <1>2, GotoMoved
<1> QED BY <1>1, <1>3, QuietKeeps

\* What is decided of an event, and whether in order.
LEMMA Applying ==
  ASSUME IInv, NEW i \in Invocations, Apply(i), inv[i].pc \in {"lookup", "link", "sync", "cancel"},
         UNCHANGED <<session, sub, sent>>
  PROVE  LET e == inv[i].ev IN
         /\ e \in 1..Len(sent) /\ e \notin applied /\ applied' = applied \cup {e}
         /\ e \in SubEv <=> sent[e].kind \in SubscriptionKinds
         /\ ordered' \in BOOLEAN /\ (ordered' => ordered) /\ doubled' = doubled
         /\ ordered' /\ e \in SubEv => /\ \A f \in SubEv : f < e => f \in applied
                                       /\ \A f \in applied \cap SubEv : f < e
         /\ InOrder'
         /\ \A f \in applied' \cap SubEv' : \E g \in applied' \cap SubEv' :
              \A h \in applied' \cap SubEv' : h <= g
<1> DEFINE e == inv[i].ev
<1>1. Held(i) BY DEF IInv, Once
<1>2. e \in 1..Len(sent) /\ e \notin applied BY <1>1 DEF Held
<1>3. applied' = applied \cup {e} /\ doubled' = doubled BY DEF Apply
<1>4. e \in SubEv <=> sent[e].kind \in SubscriptionKinds BY <1>2 DEF SubEv
<1> DEFINE Before == sent[e].kind \in SubscriptionKinds =>
                       \A f \in 1..(e - 1) : sent[f].kind \in SubscriptionKinds => f \in applied
<1>5. ordered' = (ordered /\ Before) BY Zenon DEF Apply, ev
<1>6. Before \in BOOLEAN OBVIOUS
<1>7. ordered' \in BOOLEAN /\ (ordered' => ordered /\ Before)
  <2>1. ordered \in BOOLEAN BY DEF IInv, Typed
  <2> QED BY <1>5, <1>6, <2>1, Zenon
<1>s. SubEv \subseteq 1..Len(sent) /\ SubEv' = SubEv BY DEF SubEv
<1>8. ASSUME ordered', e \in SubEv PROVE \A f \in SubEv : f < e => f \in applied
  <2> SUFFICES ASSUME NEW f \in SubEv, f < e PROVE f \in applied OBVIOUS
  <2>1. f \in 1..(e - 1) /\ sent[f].kind \in SubscriptionKinds BY <1>2, <1>s DEF SubEv
  <2> QED BY <1>4, <1>7, <1>8, <2>1
<1> HIDE DEF Before, e
<1>9. ASSUME ordered', e \in SubEv PROVE \A f \in applied \cap SubEv : f < e
  <2> SUFFICES ASSUME NEW f \in applied \cap SubEv PROVE f < e OBVIOUS
  <2>1. f # e /\ ~(e < f) BY <1>2, <1>7, <1>9 DEF IInv, InOrder
  <2>2. f \in 1..Len(sent) /\ e \in 1..Len(sent) BY <1>2, <1>s
  <2> QED BY <2>1, <2>2
<1>10. InOrder'
  <2> SUFFICES ASSUME ordered', NEW g \in SubEv, NEW h \in SubEv, h < g, g \in applied'
               PROVE  h \in applied'
    BY <1>s DEF InOrder
  <2>1. CASE g = e BY <1>3, <1>8, <2>1
  <2>2. CASE g \in applied BY <1>3, <1>7, <2>2 DEF IInv, InOrder
  <2> QED BY <1>3, <2>1, <2>2
<1>11. \A f \in applied' \cap SubEv' : \E g \in applied' \cap SubEv' :
         \A h \in applied' \cap SubEv' : h <= g
  <2> DEFINE A == applied \cap SubEv
  <2>1. applied' \cap SubEv' = A \cup (IF e \in SubEv THEN {e} ELSE {}) BY <1>3, <1>s
  <2>2. A \subseteq Nat /\ e \in Nat /\ e <= e
    <3>1. Len(sent) \in Nat BY DEF IInv, Typed
    <3>2. 1..Len(sent) \subseteq Nat BY <3>1
    <3>3. e \in Nat BY <1>2, <3>2
    <3>4. A \subseteq Nat BY <1>s, <3>2
    <3>5. \A k \in Nat : k <= k OBVIOUS
    <3> HIDE DEF A
    <3> QED BY <3>3, <3>4, <3>5
  <2>3. A = {} \/ \E g \in A : \A h \in A : h <= g BY DEF IInv, Current
  <2> HIDE DEF A
  <2>4. CASE e \notin SubEv BY <2>1, <2>3, <2>4
  <2>5. CASE e \in SubEv /\ A = {} BY <2>1, <2>2, <2>5
  <2>6. CASE e \in SubEv /\ A # {}
    <3>1. PICK g \in A : \A h \in A : h <= g BY <2>3, <2>6
    <3>2. CASE e <= g BY <2>1, <2>2, <2>6, <3>1, <3>2
    <3>3. CASE g <= e
      <4>1. \A h \in A : h <= e BY <2>2, <3>1, <3>3
      <4> QED BY <2>1, <2>2, <2>6, <4>1
    <3> QED BY <2>2, <3>1, <3>2, <3>3
  <2> QED BY <2>4, <2>5, <2>6
<1> QED BY <1>2, <1>3, <1>4, <1>7, <1>8, <1>9, <1>10, <1>11 DEF e

\* An event that does not concern the subscription's status leaves the row's.
LEMMA AsideCurrent ==
  ASSUME IInv, NEW i \in Invocations, Apply(i), inv[i].pc \in {"lookup", "link"},
         UNCHANGED <<session, sub, sent>>, sent[inv[i].ev].kind \notin SubscriptionKinds,
         row'.converted = row.converted,
         ordered => row'.status = row.status \/ applied \cap SubEv = {}
  PROVE  Current'
<1> DEFINE e == inv[i].ev
<1>1. /\ e \notin SubEv /\ applied' = applied \cup {e} /\ (ordered' => ordered) /\ doubled' = doubled
      /\ \A f \in applied' \cap SubEv' : \E g \in applied' \cap SubEv' :
           \A h \in applied' \cap SubEv' : h <= g
  BY Applying
<1>2. /\ SubEv' = SubEv /\ Paying' = Paying /\ Paying \subseteq SubEv /\ sent' = sent
      /\ applied' \cap SubEv' = applied \cap SubEv
      /\ applied' \cap Paying' = applied \cap Paying
  BY <1>1 DEF SubEv, Paying
<1> QED BY <1>1, <1>2 DEF IInv, Current

\* The event that is written is the last applied, and its payment the first or not.
LEMMA WrittenCurrent ==
  ASSUME IInv, NEW i \in Invocations, Apply(i), inv[i].pc \in {"sync", "cancel"},
         UNCHANGED <<session, sub, sent>>, sent[inv[i].ev].kind \in SubscriptionKinds,
         row'.status = sent[inv[i].ev].status,
         row'.converted = IF inv[i].ev \in Paying /\ row.converted = 0 THEN inv[i].ev
                          ELSE row.converted
  PROVE  Current'
<1> DEFINE e == inv[i].ev
<1>1. /\ e \in SubEv /\ e \in 1..Len(sent) /\ applied' = applied \cup {e}
      /\ (ordered' => ordered) /\ doubled' = doubled
      /\ ordered' => \A f \in applied \cap SubEv : f < e
      /\ \A f \in applied' \cap SubEv' : \E g \in applied' \cap SubEv' :
           \A h \in applied' \cap SubEv' : h <= g
  BY Applying
<1>2. SubEv' = SubEv /\ Paying' = Paying /\ Paying \subseteq SubEv /\ SubEv \subseteq 1..Len(sent)
  BY DEF SubEv, Paying
<1>3. ASSUME ordered', ~doubled'
      PROVE  /\ \A g \in applied' \cap SubEv' :
                  (\A f \in applied' \cap SubEv' : f <= g) => row'.status = sent'[g].status
             /\ \/ row'.converted = 0 /\ applied' \cap Paying' = {}
                \/ /\ row'.converted \in applied' \cap Paying'
                   /\ \A g \in applied' \cap Paying' : row'.converted <= g
  <2>1. ordered /\ ~doubled /\ \A f \in applied \cap SubEv : f < e BY <1>1, <1>3
  <2> HIDE DEF e
  <2>2. ASSUME NEW g \in applied' \cap SubEv', \A f \in applied' \cap SubEv' : f <= g
        PROVE  g = e
    <3>1. e <= g BY <1>1, <1>2, <2>2
    <3>2. g = e \/ g < e BY <1>1, <1>2, <2>1
    <3>3. g \in 1..Len(sent) BY <1>2
    <3> QED BY <1>1, <3>1, <3>2, <3>3
  <2>3. \A g \in applied' \cap SubEv' :
          (\A f \in applied' \cap SubEv' : f <= g) => row'.status = sent'[g].status
    BY <2>2 DEF e
  <2>4. \/ row.converted = 0 /\ applied \cap Paying = {}
        \/ /\ row.converted \in applied \cap Paying
           /\ \A g \in applied \cap Paying : row.converted <= g
    BY <2>1 DEF IInv, Current
  <2>5. row'.converted = IF e \in Paying /\ row.converted = 0 THEN e ELSE row.converted
    BY DEF e
  <2>6. applied' \cap Paying' = (applied \cap Paying) \cup (IF e \in Paying THEN {e} ELSE {})
    BY <1>1, <1>2
  <2>7. CASE row.converted = 0 /\ applied \cap Paying = {}
    <3>1. e <= e BY <1>1
    <3> QED BY <2>3, <2>5, <2>6, <2>7, <3>1
  <2>8. CASE /\ row.converted \in applied \cap Paying
             /\ \A g \in applied \cap Paying : row.converted <= g
    <3>1. row.converted \in 1..Len(sent) /\ row.converted < e BY <1>2, <2>1, <2>8
    <3>2. row'.converted = row.converted /\ row.converted <= e BY <1>1, <2>5, <3>1
    <3> QED BY <2>3, <2>6, <2>8, <3>2
  <2> QED BY <2>4, <2>7, <2>8
<1> QED BY <1>1, <1>3 DEF Current

\* In order, the first event applied is that of a subscription created, and has made the row.
LEMMA NoRowNothingApplied ==
  ASSUME IInv, ordered, row = NoRow
  PROVE  applied \cap SubEv = {}
<1> SUFFICES ASSUME NEW e \in applied \cap SubEv PROVE FALSE OBVIOUS
<1>1. PICK f \in SubEv : f <= e /\ sent[f].kind = "created" BY DEF IInv, Told
<1>2. f = e \/ f < e
  <2>1. Len(sent) \in Nat BY DEF IInv, Typed
  <2>2. e \in 1..Len(sent) /\ f \in 1..Len(sent) BY DEF SubEv
  <2> QED BY <1>1, <2>1, <2>2
<1>3. f \in applied BY <1>1, <1>2 DEF IInv, InOrder
<1> QED BY <1>1, <1>3 DEF IInv, Shared

\* The row keeps its customer or takes that of a subscription that was paid for.
LEMMA RowShared ==
  ASSUME IInv, UNCHANGED <<session, sub, sent, doubled>>, NEW e,
         applied' = applied \/ (applied' = applied \cup {e} /\ (sent[e].kind = "created" => row' # NoRow)),
         row # NoRow => row' # NoRow,
         \/ row' = NoRow
         \/ row # NoRow /\ row'.cust = row.cust
         \/ \E t \in Subs : session[t] = "paid" /\ row'.cust = sub[t].cust
  PROVE  Shared'
<1>1. \A g \in applied' : sent'[g].kind = "created" => row' # NoRow BY DEF IInv, Shared
<1>2. ASSUME ~doubled', NEW u \in Subs, session'[u] \in {"open", "paid"}
      PROVE  /\ row' # NoRow => row'.cust = sub'[u].cust
             /\ \A v \in Subs : session'[v] \in {"open", "paid"} => sub'[v].cust = sub'[u].cust
  BY <1>2 DEF IInv, Shared
<1> QED BY <1>1, <1>2 DEF Shared

\* An event whose handler finds the user, or gives up, leaves the row.
LEMMA LookupKeeps ==
  ASSUME IInv, NEW i \in Invocations, inv[i].pc = "lookup", NEW l \in Pcs \ {"idle"}, Goto(i, l),
         UNCHANGED <<session, sub, sent, row, inbox, queued, faults>>,
         LET k == sent[inv[i].ev].kind IN
           \/ l = "sync" /\ k \in {"created", "updated"} /\ row # NoRow /\ UNCHANGED history
           \/ l = "cancel" /\ k = "deleted" /\ row # NoRow /\ UNCHANGED history
           \/ l = "link" /\ k = "created" /\ UNCHANGED history
           \/ l \in {"emit", "mark"} /\ k = "payment_failed" /\ Apply(i)
           \/ l = "mark" /\ k \in {"updated", "deleted"} /\ ~Found(i) /\ Apply(i)
  PROVE  IInv'
<1> DEFINE e == inv[i].ev  k == sent[e].kind
<1>1. Held(i) BY DEF IInv, Once
<1>2. e \in 1..Len(sent) /\ e \notin applied BY <1>1 DEF Held
<1>3. CASE UNCHANGED history
  <2>1. applied' = applied /\ ordered' = ordered /\ doubled' = doubled BY <1>3 DEF history
  <2>2. CASE l \in {"sync", "cancel", "link"}
    <3>1. Moved(i, e, [inv[i] EXCEPT !.pc = l]) BY <1>2, <2>1, <2>2, GotoMoved
    <3> QED BY <2>1, <3>1, QuietKeeps
  <2>3. CASE l \notin {"sync", "cancel", "link"} BY <1>2, <2>1, <2>3 DEF Apply
  <2> QED BY <2>2, <2>3
<1>4. CASE Apply(i) /\ l \in {"emit", "mark"} /\ k \in {"payment_failed", "updated", "deleted"}
  <2>1. /\ applied' = applied \cup {e}
        /\ e \in SubEv <=> k \in SubscriptionKinds
        /\ ordered' \in BOOLEAN /\ (ordered' => ordered) /\ doubled' = doubled
        /\ ordered' /\ e \in SubEv => \A f \in SubEv : f < e => f \in applied
        /\ InOrder'
        /\ \A f \in applied' \cap SubEv' : \E g \in applied' \cap SubEv' :
             \A h \in applied' \cap SubEv' : h <= g
    BY <1>4, Applying
  <2>a. /\ e \in applied' /\ l \notin {"lookup", "link", "sync", "cancel"}
        /\ sent[e].kind # "created" /\ inv[i].pc # "mark"
        /\ row' = row /\ UNCHANGED <<session, sub, sent, doubled>>
    BY <1>4, <2>1
  <2>2. Moved(i, e, [inv[i] EXCEPT !.pc = l]) BY <2>1, <2>a, GotoMoved
  <2>3. Shared'
    <3> HIDE DEF e
    <3>1. applied' = applied \cup {e} /\ (sent[e].kind = "created" => row' # NoRow) BY <2>1, <2>a
    <3>2. row' = NoRow \/ (row # NoRow /\ row'.cust = row.cust) BY <2>a
    <3> QED BY <2>a, <3>1, <3>2, RowShared
  <2>4. Current'
    <3>1. CASE k = "payment_failed"
      <4>1. k \notin SubscriptionKinds BY <3>1 DEF SubscriptionKinds
      <4> QED BY <1>4, <4>1, AsideCurrent
    <3>2. CASE k \in {"updated", "deleted"} /\ ~Found(i)
      <4>1. e \in SubEv BY <2>1, <3>2 DEF SubscriptionKinds
      <4>2. ~(ordered' /\ ~doubled')
        <5> SUFFICES ASSUME ordered', ~doubled' PROVE FALSE OBVIOUS
        <5>1. PICK f \in SubEv : f <= e /\ sent[f].kind = "created" /\ sent[f].sub = sent[e].sub
          BY <4>1 DEF IInv, Told
        <5>2. f < e
          <6>1. f # e BY <3>2, <5>1
          <6>2. Len(sent) \in Nat /\ f \in 1..Len(sent) BY DEF IInv, Typed, SubEv
          <6> QED BY <1>2, <5>1, <6>1, <6>2
        <5>3. f \in applied BY <2>1, <4>1, <5>1, <5>2
        <5>4. row # NoRow BY <5>1, <5>3 DEF IInv, Shared
        <5>5. Typed /\ ~doubled BY <2>1 DEF IInv
        <5>6. sent[e].sub \in Subs /\ session[sent[e].sub] = "paid"
          BY <1>2, <5>5, SentIs DEF IInv, Told
        <5>7. row.cust = sub[sent[e].sub].cust BY <5>4, <5>5, <5>6 DEF IInv, Shared
        <5> QED BY <3>2, <5>4, <5>7 DEF Found, ev
      <4> QED BY <2>1, <4>2 DEF Current
    <3>3. k = "payment_failed" \/ ~Found(i)
      BY <1>2, <2>1, <1>4 DEF history
    <3> QED BY <1>4, <3>1, <3>2, <3>3
  <2>5. row' \in [cust : Customers, sub : Customers, status : Statuses, converted : 0..MaxEvents]
    BY DEF IInv, Typed
  <2> QED BY <2>1, <2>2, <2>3, <2>4, <2>5, MovedKeeps
<1> QED BY <1>3, <1>4

LEMMA FindsKeeps ==
  ASSUME IInv, NEW i \in Invocations, LookupFinds(i)
  PROVE  IInv'
<1> DEFINE k == sent[inv[i].ev].kind
<1>1. /\ inv[i].pc = "lookup" /\ Found(i)
      /\ UNCHANGED <<session, sub, sent, row, inbox, queued, faults>>
  BY DEF LookupFinds, stripe, d1
<1>2. Held(i) /\ Typed BY <1>1 DEF IInv, Once
<1>3. k \in {"created", "updated", "deleted", "payment_failed"}
  <2>1. inv[i].ev \in 1..Len(sent) /\ k # "checkout" BY <1>1, <1>2 DEF Held
  <2> QED BY <1>2, <2>1, SentIs DEF SubscriptionKinds
<1>4. row # NoRow BY <1>1 DEF Found
<1>5. {"sync", "cancel", "emit"} \subseteq Pcs \ {"idle"} BY DEF Pcs
<1>6. CASE k \in {"created", "updated"}
  <2>1. Goto(i, "sync") /\ UNCHANGED history BY <1>6 DEF LookupFinds, ev
  <2> QED BY <1>1, <1>4, <1>5, <1>6, <2>1, LookupKeeps
<1>7. CASE k = "deleted"
  <2>1. Goto(i, "cancel") /\ UNCHANGED history BY <1>7 DEF LookupFinds, ev
  <2> QED BY <1>1, <1>4, <1>5, <1>7, <2>1, LookupKeeps
<1>8. CASE k = "payment_failed"
  <2>1. Goto(i, "emit") /\ Apply(i) BY <1>8 DEF LookupFinds, ev
  <2> QED BY <1>1, <1>5, <1>8, <2>1, LookupKeeps
<1> QED BY <1>3, <1>6, <1>7, <1>8

LEMMA MissesKeeps ==
  ASSUME IInv, NEW i \in Invocations, LookupMisses(i)
  PROVE  IInv'
<1> DEFINE k == sent[inv[i].ev].kind
<1>1. /\ inv[i].pc = "lookup" /\ ~Found(i)
      /\ UNCHANGED <<session, sub, sent, row, inbox, queued, faults>>
      /\ IF k = "created" THEN Goto(i, "link") /\ UNCHANGED history
                          ELSE Goto(i, "mark") /\ Apply(i)
  BY DEF LookupMisses, stripe, d1, ev
<1>2. Held(i) /\ Typed BY <1>1 DEF IInv, Once
<1>3. k \in {"created", "updated", "deleted", "payment_failed"}
  <2>1. inv[i].ev \in 1..Len(sent) /\ k # "checkout" BY <1>1, <1>2 DEF Held
  <2> QED BY <1>2, <2>1, SentIs DEF SubscriptionKinds
<1>4. {"link", "mark"} \subseteq Pcs \ {"idle"} BY DEF Pcs
<1> QED BY <1>1, <1>3, <1>4, LookupKeeps

\* Linking makes the row or gives it another customer, and keeps its status.
LEMMA LinkKeeps ==
  ASSUME IInv, NEW i \in Invocations, Link(i)
  PROVE  IInv'
<1> DEFINE e == inv[i].ev  u == sent[e].sub  k == sent[e].kind
           l == IF k = "checkout" THEN "mark" ELSE "sync"
<1>1. /\ inv[i].pc = "link" /\ UNCHANGED <<session, sub, sent, inbox, queued, faults>>
      /\ row' = [cust |-> sub[u].cust, sub |-> u,
                 status |-> IF row = NoRow THEN "incomplete" ELSE row.status,
                 converted |-> row.converted]
      /\ IF k = "checkout" THEN Goto(i, "mark") /\ Apply(i) ELSE Goto(i, "sync") /\ UNCHANGED history
  BY DEF Link, AfterLink, Linked, stripe, ev
<1>2. Held(i) /\ Typed /\ Told BY <1>1 DEF IInv, Once
<1>3. e \in 1..Len(sent) /\ e \notin applied /\ k \in {"checkout", "created"}
  BY <1>1, <1>2 DEF Held
<1>4. u \in Subs /\ session[u] = "paid" /\ sub[u].cust \in Customers
  <2>1. u \in Subs /\ session[u] = "paid" BY <1>2, <1>3, SentIs DEF Told
  <2> QED BY <1>2, <2>1 DEF Typed
<1>5. /\ row' # NoRow /\ row'.cust = sub[u].cust /\ row'.converted = row.converted
      /\ row # NoRow => row'.status = row.status
      /\ row' \in [cust : Customers, sub : Customers, status : Statuses, converted : 0..MaxEvents]
  <2>1. /\ row'.sub = u /\ u # 0 /\ row'.cust = sub[u].cust /\ row'.converted = row.converted
        /\ row'.status = IF row = NoRow THEN "incomplete" ELSE row.status
    BY <1>1, <1>4, SubsAssumption
  <2>2. row' # NoRow BY <2>1 DEF NoRow
  <2>3. row'.status \in Statuses /\ row.converted \in 0..MaxEvents /\ u \in Customers
    BY <1>2, <1>4, <2>1 DEF Typed, Statuses, Customers
  <2> QED BY <1>1, <1>4, <2>1, <2>2, <2>3
<1>6. {"mark", "sync"} \subseteq Pcs \ {"idle"} BY DEF Pcs
<1>7. CASE k = "checkout"
  <2>1. Goto(i, "mark") /\ Apply(i) BY <1>1, <1>7
  <2>2. /\ applied' = applied \cup {e}
        /\ ordered' \in BOOLEAN /\ (ordered' => ordered) /\ doubled' = doubled
        /\ InOrder'
    BY <1>1, <2>1, Applying
  <2>3. e \in applied' /\ inv[i].pc # "mark" BY <1>1, <2>2
  <2>4. Moved(i, e, [inv[i] EXCEPT !.pc = "mark"])
    BY <1>1, <1>5, <1>6, <2>1, <2>2, <2>3, GotoMoved
  <2>5. Shared' BY <1>1, <1>4, <1>5, <1>7, <2>2, RowShared
  <2>6. Current'
    <3>1. k \notin SubscriptionKinds BY <1>7 DEF SubscriptionKinds
    <3>2. ordered => row'.status = row.status \/ applied \cap SubEv = {}
      BY <1>5, NoRowNothingApplied
    <3> QED BY <1>1, <1>5, <2>1, <3>1, <3>2, AsideCurrent
  <2> QED BY <1>5, <2>2, <2>4, <2>5, <2>6, MovedKeeps
<1>8. CASE k = "created"
  <2>1. Goto(i, "sync") /\ applied' = applied /\ ordered' = ordered /\ doubled' = doubled
    BY <1>1, <1>8 DEF history
  <2>2. Moved(i, e, [inv[i] EXCEPT !.pc = "sync"])
    BY <1>1, <1>3, <1>5, <1>6, <1>8, <2>1, GotoMoved
  <2>3. Shared' BY <1>1, <1>4, <1>5, <2>1, RowShared
  <2>4. SubEv' = SubEv /\ Paying' = Paying BY <1>1 DEF SubEv, Paying
  <2>5. InOrder' BY <2>1, <2>4 DEF IInv, InOrder
  <2>6. Current'
    <3>1. ordered => row'.status = row.status \/ applied \cap SubEv = {}
      BY <1>5, NoRowNothingApplied
    <3> QED BY <1>1, <1>5, <2>1, <2>4, <3>1 DEF IInv, Current
  <2>7. ordered' \in BOOLEAN BY <1>2, <2>1 DEF Typed
  <2> QED BY <1>5, <2>1, <2>2, <2>3, <2>5, <2>6, <2>7, MovedKeeps
<1> QED BY <1>3, <1>7, <1>8

\* The row takes what a subscription event says.
LEMMA WriteKeeps ==
  ASSUME IInv, NEW i \in Invocations, inv[i].pc \in {"sync", "cancel"}, Apply(i),
         NEW l \in {"emit", "mark"}, Goto(i, l),
         UNCHANGED <<session, sub, sent, inbox, queued, faults>>,
         sent[inv[i].ev].kind \in SubscriptionKinds,
         row # NoRow, row'.cust = row.cust, row'.status = sent[inv[i].ev].status,
         row'.sub \in {row.sub, sent[inv[i].ev].sub},
         row'.converted = IF inv[i].ev \in Paying /\ row.converted = 0 THEN inv[i].ev
                          ELSE row.converted,
         row' = [cust |-> row'.cust, sub |-> row'.sub, status |-> row'.status,
                 converted |-> row'.converted]
  PROVE  IInv'
<1> DEFINE e == inv[i].ev
<1>1. Held(i) /\ Typed /\ Told BY DEF IInv, Once
<1>2. e \in 1..Len(sent) BY <1>1 DEF Held
<1>3. /\ applied' = applied \cup {e}
      /\ ordered' \in BOOLEAN /\ (ordered' => ordered) /\ doubled' = doubled
      /\ InOrder'
  BY Applying
<1>4. /\ sent[e].sub \in Customers /\ sent[e].status \in Statuses /\ sent[e].status # "none"
  BY <1>1, <1>2, SentIs DEF Told, Customers
<1>5. row' # NoRow BY <1>4 DEF NoRow
<1>6. row' \in [cust : Customers, sub : Customers, status : Statuses, converted : 0..MaxEvents]
  <2>1. row.cust \in Customers /\ row.sub \in Customers /\ row.converted \in 0..MaxEvents
    BY <1>1 DEF Typed
  <2>2. e \in 0..MaxEvents
    <3>1. Len(sent) \in Nat /\ Len(sent) <= MaxEvents BY <1>1 DEF Typed
    <3> QED BY <1>2, <3>1, BoundsAssumption
  <2>3. row'.converted \in 0..MaxEvents BY <2>1, <2>2
  <2> QED BY <1>4, <2>1, <2>3
<1>7. e \in applied' /\ inv[i].pc # "mark" /\ l \in Pcs \ {"idle"} BY <1>3 DEF Pcs
<1>8. Moved(i, e, [inv[i] EXCEPT !.pc = l]) BY <1>3, <1>5, <1>7, GotoMoved
<1>9. Current' BY WrittenCurrent
<1>10. Shared' BY <1>3, <1>5, RowShared
<1> QED BY <1>3, <1>6, <1>8, <1>9, <1>10, MovedKeeps

LEMMA SyncKeeps ==
  ASSUME IInv, NEW i \in Invocations, Sync(i)
  PROVE  IInv'
<1> DEFINE e == inv[i].ev  k == sent[e].kind
           l == IF k = "created" THEN "emit" ELSE "mark"
<1>1. /\ inv[i].pc = "sync" /\ Goto(i, l) /\ Apply(i)
      /\ UNCHANGED <<session, sub, sent, inbox, queued, faults>>
      /\ row' = [row EXCEPT !.sub = sent[e].sub, !.status = sent[e].status,
                            !.converted = IF sent[e].status = "active" /\ @ = 0 THEN e ELSE @]
  BY DEF Sync, AfterSync, stripe, ev
<1>2. Held(i) /\ Typed BY <1>1 DEF IInv, Once
<1>3. e \in 1..Len(sent) /\ k \in {"created", "updated"} /\ row # NoRow
  BY <1>1, <1>2 DEF Held
<1>4. k \in SubscriptionKinds /\ (e \in Paying <=> sent[e].status = "active")
  BY <1>3 DEF SubscriptionKinds, Paying, SubEv
<1>5. /\ row'.cust = row.cust /\ row'.status = sent[e].status /\ row'.sub = sent[e].sub
      /\ row'.converted = IF e \in Paying /\ row.converted = 0 THEN e ELSE row.converted
      /\ row' = [cust |-> row'.cust, sub |-> row'.sub, status |-> row'.status,
                 converted |-> row'.converted]
  <2>1. row \in [cust : Customers, sub : Customers, status : Statuses, converted : 0..MaxEvents]
    BY <1>2 DEF Typed
  <2>2. row = [cust |-> row.cust, sub |-> row.sub, status |-> row.status, converted |-> row.converted]
    BY <2>1
  <2> HIDE DEF e
  <2> QED BY <1>1, <1>4, <2>2
<1>6. l \in {"emit", "mark"} OBVIOUS
<1> QED BY <1>1, <1>3, <1>4, <1>5, <1>6, WriteKeeps

LEMMA CancelKeeps ==
  ASSUME IInv, NEW i \in Invocations, MarkCanceled(i)
  PROVE  IInv'
<1> DEFINE e == inv[i].ev
<1>1. /\ inv[i].pc = "cancel" /\ Goto(i, "emit") /\ Apply(i)
      /\ UNCHANGED <<session, sub, sent, inbox, queued, faults>>
      /\ row' = [row EXCEPT !.status = "canceled"]
  BY DEF MarkCanceled, stripe
<1>2. Held(i) /\ Typed BY <1>1 DEF IInv, Once
<1>3. e \in 1..Len(sent) /\ sent[e].kind = "deleted" /\ row # NoRow
  BY <1>1, <1>2 DEF Held
<1>4. sent[e].kind \in SubscriptionKinds /\ e \notin Paying /\ sent[e].status = "canceled"
  BY <1>3 DEF SubscriptionKinds, Paying, IInv, Told
<1>5. /\ row'.cust = row.cust /\ row'.status = sent[e].status /\ row'.sub = row.sub
      /\ row'.converted = IF e \in Paying /\ row.converted = 0 THEN e ELSE row.converted
      /\ row' = [cust |-> row'.cust, sub |-> row'.sub, status |-> row'.status,
                 converted |-> row'.converted]
  <2>1. row \in [cust : Customers, sub : Customers, status : Statuses, converted : 0..MaxEvents]
    BY <1>2 DEF Typed
  <2>2. row = [cust |-> row.cust, sub |-> row.sub, status |-> row.status, converted |-> row.converted]
    BY <2>1
  <2> HIDE DEF e
  <2> QED BY <1>1, <1>4, <2>2
<1> QED BY <1>1, <1>3, <1>4, <1>5, WriteKeeps

---------------------------------------------------------------------------
(* The specification.                                                       *)

LEMMA InvInit == Init => IInv
<1> SUFFICES ASSUME Init PROVE IInv OBVIOUS
<1>1. /\ session = [s \in Subs |-> "none"] /\ sub = [s \in Subs |-> [status |-> "none", cust |-> 0]]
      /\ sent = <<>> /\ row = NoRow /\ inv = [i \in Invocations |-> Idle]
      /\ inbox = [e \in 1..MaxEvents |-> "absent"] /\ queued = [e \in 1..MaxEvents |-> 0]
      /\ applied = {} /\ ordered = TRUE /\ doubled = FALSE /\ faults = 0
  BY DEF Init
<1>2. Len(sent) = 0 /\ 1..Len(sent) = {} /\ 0 \in 0..Len(sent) BY <1>1
<1>3. SubEv = {} /\ Paying = {} /\ Orphans = {} BY <1>2 DEF SubEv, Paying, Orphans
<1>4. Live = {} BY <1>1 DEF Live, Terminal
<1>5. Typed
  <2>1. MaxEvents \in Nat /\ MaxFaults \in Nat BY BoundsAssumption
  <2>2. sent \in Seq(Msg) BY <1>1
  <2>3. row \in [cust : Customers, sub : Customers, status : Statuses, converted : 0..MaxEvents]
    BY <1>1, <2>1 DEF NoRow, Customers, Statuses
  <2>4. inv \in [Invocations -> [pc : Pcs, ev : 0..Len(sent)]] BY <1>1, <1>2 DEF Idle, Pcs
  <2>5. sub \in [Subs -> [status : Statuses, cust : Customers]] BY <1>1 DEF Statuses, Customers
  <2>6. session \in [Subs -> {"none", "open", "expired", "paid"}] BY <1>1
  <2>7. inbox \in [1..MaxEvents -> {"absent", "recorded", "processed"}] BY <1>1
  <2>8. queued \in [1..MaxEvents -> 0..1] BY <1>1
  <2>9. Len(sent) <= MaxEvents /\ faults \in 0..MaxFaults BY <1>1, <1>2, <2>1
  <2> QED BY <1>1, <2>2, <2>3, <2>4, <2>5, <2>6, <2>7, <2>8, <2>9 DEF Typed
<1>6. Once BY <1>1, <1>2 DEF Once, Idle
<1>7. Orphaned BY <1>1, <1>3, FS_EmptySet DEF Orphaned
<1>8. Told
  <2>1. \A t \in Subs : session[t] = "none" /\ sub[t].status = "none" BY <1>1
  <2> QED BY <1>2, <1>3, <2>1 DEF Told
<1>9. Shared /\ InOrder /\ InTurn /\ Current
  BY <1>1, <1>2, <1>3, <1>4 DEF Shared, InOrder, InTurn, Current, NoRow
<1> QED BY <1>5, <1>6, <1>7, <1>8, <1>9 DEF IInv

LEMMA InvStep == IInv /\ [Next]_vars => IInv'
<1> SUFFICES ASSUME IInv, [Next]_vars PROVE IInv' OBVIOUS
<1>1. CASE UNCHANGED vars
  <2>1. UNCHANGED <<session, sub, sent, row, inbox, inv, queued, applied, ordered, doubled, faults>>
    BY <1>1 DEF vars, stripe, d1, history
  <2>2. SubEv' = SubEv /\ Paying' = Paying /\ Orphans' = Orphans /\ Live' = Live
    BY <2>1 DEF SubEv, Paying, Orphans, Live
  <2>3. Typed' BY <2>1 DEF IInv, Typed
  <2>4. Once' BY <2>1 DEF IInv, Once, Held
  <2>5. Told' BY <2>1, <2>2 DEF IInv, Told
  <2>6. Orphaned' /\ Shared' /\ InOrder' /\ InTurn' /\ Current'
    BY <2>1, <2>2 DEF IInv, Orphaned, Shared, InOrder, InTurn, Current
  <2> QED BY <2>3, <2>4, <2>5, <2>6 DEF IInv
<1>2. ASSUME NEW s \in Subs, StripeStep(s) PROVE IInv'
  <2>1. CASE OpenCheckout(s) BY <2>1, OpenKeeps
  <2>2. CASE ExpireSession(s) BY <2>2, ExpireKeeps
  <2>3. CASE Pay(s) \/ Update(s) \/ Cancel(s)
    <3>1. Typed /\ Told BY DEF IInv
    <3>2. PICK status \in Statuses : \E msgs : Sending(s, status, msgs) BY <2>3, <3>1, SendingStep
    <3>3. PICK msgs : Sending(s, status, msgs) BY <3>2
    <3> QED BY <3>3, SendingKeeps
  <2> QED BY <1>2, <2>1, <2>2, <2>3 DEF StripeStep
<1>3. ASSUME NEW i \in Invocations, Webhook(i) PROVE IInv'
  <2>1. CASE Receive(i) BY <2>1, ReceiveKeeps
  <2>2. CASE LookupFinds(i) BY <2>2, FindsKeeps
  <2>3. CASE LookupMisses(i) BY <2>3, MissesKeeps
  <2>4. CASE Link(i) BY <2>4, LinkKeeps
  <2>5. CASE Sync(i) BY <2>5, SyncKeeps
  <2>6. CASE MarkCanceled(i) BY <2>6, CancelKeeps
  <2>7. CASE Emit(i) \/ EmitFails(i) BY <2>7, EmitKeeps
  <2>8. CASE Mark(i) \/ Break(i) BY <2>8, AnswerKeeps
  <2> QED BY <1>3, <2>1, <2>2, <2>3, <2>4, <2>5, <2>6, <2>7, <2>8 DEF Webhook
<1> QED BY <1>1, <1>2, <1>3 DEF Next

LEMMA Invariance == Spec => []IInv
BY InvInit, InvStep, PTL DEF Spec

\* Every variable keeps to its type: the row, the recorded events and the invocations
\* are what webhook.ts and the checkout route read and write.
THEOREM Types == Spec => []TypeOK
<1>1. IInv => TypeOK
  <2> SUFFICES ASSUME Typed PROVE TypeOK BY DEF IInv
  <2>1. \A e \in 1..Len(sent) :
          sent[e] \in [kind : SubscriptionKinds \cup {"checkout", "payment_failed"},
                       sub : Subs, status : Statuses]
    BY SentIs DEF Msg
  <2> QED BY <2>1 DEF Typed, TypeOK, Pcs
<1> QED BY <1>1, Invariance, PTL

\* However often Stripe delivers an event and however many invocations of processWebhook
\* hold deliveries of it, INSERT .. ON CONFLICT DO NOTHING lets one of them act: one
\* message on the queue, processed_at only after the handler, and an event recorded and
\* then dropped for each handler that failed.
THEOREM ActsOnce == Spec => []EventsActOnce
<1>1. IInv => EventsActOnce
  <2> SUFFICES ASSUME IInv PROVE EventsActOnce OBVIOUS
  <2>1. 1..Len(sent) \subseteq 1..MaxEvents
    <3>1. Len(sent) \in Nat /\ Len(sent) <= MaxEvents BY DEF IInv, Typed
    <3> QED BY <3>1, BoundsAssumption
  <2>2. ASSUME NEW e \in 1..Len(sent)
        PROVE  queued[e] <= 1 /\ (inbox[e] = "processed" => e \in applied)
    <3>1. queued[e] \in 0..1 BY <2>1 DEF IInv, Typed
    <3> QED BY <2>1, <3>1 DEF IInv, Once
  <2>3. \A i, j \in Invocations :
          i # j /\ inv[i].pc # "idle" /\ inv[j].pc # "idle" => inv[i].ev # inv[j].ev
    BY DEF IInv, Once
  <2>4. Cardinality({e \in 1..Len(sent) : inbox[e] = "recorded" /\ \A i \in Invocations : inv[i].ev # e})
          <= faults
    BY DEF IInv, Orphaned, Orphans
  <2> QED BY <2>2, <2>3, <2>4 DEF EventsActOnce
<1> QED BY <1>1, Invariance, PTL

\* The last subscription opened is the one the last subscription event is about.
LEMMA LatestIs ==
  ASSUME IInv, ordered, ~doubled,
         NEW e \in SubEv, \A f \in SubEv : f <= e
  PROVE  Latest = sent[e].sub
<1>t. Typed /\ Told /\ InTurn BY DEF IInv
<1>1. e \in 1..Len(sent) /\ Len(sent) \in Nat BY <1>t DEF SubEv, Typed
<1> DEFINE u == sent[e].sub
<1>2. u \in Subs /\ sub[u].status # "none" BY <1>1, <1>t, SentIs DEF Told
<1>3. ASSUME NEW t \in Subs, sub[t].status # "none" PROVE t <= u
  <2>1. PICK f \in SubEv : sent[f].sub = t BY <1>3, <1>t DEF Told
  <2>2. f \in 1..Len(sent) BY DEF SubEv
  <2>3. f = e \/ f < e BY <1>1, <2>2
  <2>4. u <= u
    <3>1. u \in Nat BY <1>2, SubsAssumption
    <3>2. \A k \in Nat : k <= k OBVIOUS
    <3> HIDE DEF u
    <3> QED BY <3>1, <3>2
  <2> QED BY <1>1, <1>t, <2>1, <2>2, <2>3, <2>4 DEF InTurn
<1>4. ASSUME NEW s \in Subs, sub[s].status # "none",
             \A t \in Subs : sub[t].status # "none" => t <= s
      PROVE  s = u
  <2>1. u <= s /\ s <= u BY <1>2, <1>3, <1>4
  <2>2. u \in Nat /\ s \in Nat BY <1>2, SubsAssumption
  <2> QED BY <2>1, <2>2
<1> HIDE DEF u
<1>5. Latest = u BY <1>2, <1>3, <1>4 DEF Latest
<1> QED BY <1>5 DEF u

\* When every event has been handled, no handler failed and no checkout was opened beside
\* an unseen one, the row names the Stripe customer of each live subscription whatever
\* order the events came in; when they came
\* in order it has Stripe's status and converted_at of the first paying event
\* (upsertCustomerLink, syncSubscriptionFields).
THEOREM Converges == Spec => []SettledEventsConverge
<1>1. IInv => SettledEventsConverge
  <2> SUFFICES ASSUME IInv, Settled, ~doubled
               PROVE  /\ \A s \in Live : row.cust = sub[s].cust
                      /\ ordered =>
                           LET P == {e \in 1..Len(sent) : /\ sent[e].kind \in {"created", "updated"}
                                                          /\ sent[e].status = "active"}
                           IN  /\ sent # <<>> => row.status = sub[Latest].status
                               /\ IF P = {} THEN row.converted = 0
                                  ELSE row.converted \in P /\ \A e \in P : row.converted <= e
    BY DEF SettledEventsConverge
  <2>t. Typed /\ Told /\ Shared /\ Current BY DEF IInv
  <2>1. applied = 1..Len(sent) BY DEF Settled
  <2>2. applied \cap SubEv = SubEv /\ applied \cap Paying = Paying
    BY <2>1 DEF SubEv, Paying
  <2>3. ASSUME NEW s \in Live PROVE row.cust = sub[s].cust
    <3>1. s \in Subs /\ session[s] = "paid" BY <2>t DEF Live, Told, Terminal
    <3>2. PICK e \in SubEv : sent[e].kind = "created" BY <2>t, <3>1 DEF Told
    <3>3. row # NoRow BY <2>2, <2>t, <3>2 DEF Shared
    <3> QED BY <2>t, <3>1, <3>3 DEF Shared
  <2>4. ASSUME ordered, sent # <<>> PROVE row.status = sub[Latest].status
    <3>1. Len(sent) \in Nat /\ Len(sent) > 0
      <4>1. sent \in Seq(Msg) /\ Len(sent) \in Nat BY <2>t DEF Typed
      <4>2. Len(sent) # 0 BY <2>4, <4>1, EmptySeq
      <4> QED BY <4>1, <4>2
    <3>2. PICK e \in SubEv : \A f \in SubEv : f <= e BY <2>t, <3>1 DEF Told
    <3>3. row.status = sent[e].status BY <2>2, <2>4, <2>t, <3>2 DEF Current
    <3>4. sent[e].status = sub[sent[e].sub].status BY <2>t, <3>2 DEF Told
    <3> QED BY <2>4, <3>2, <3>3, <3>4, LatestIs
  <2>5. Paying = {e \in 1..Len(sent) : /\ sent[e].kind \in {"created", "updated"}
                                       /\ sent[e].status = "active"}
    BY DEF Paying, SubEv, SubscriptionKinds
  <2>6. ordered => IF Paying = {} THEN row.converted = 0
                   ELSE row.converted \in Paying /\ \A e \in Paying : row.converted <= e
    BY <2>2, <2>t DEF Current
  <2> QED BY <2>3, <2>4, <2>5, <2>6
<1> QED BY <1>1, Invariance, PTL

\* While nothing fails and events come in order, the checkout route's guard on the row
\* (SK-STRIPE-010) keeps a user to one live subscription, unless a checkout was opened
\* beside one no event had told D1 of.
THEOREM OneAtATime == Spec => []ParallelNeedsAnUnseenCheckout
<1>1. IInv => ParallelNeedsAnUnseenCheckout
  <2> SUFFICES ASSUME IInv, ordered, ~doubled PROVE Cardinality(Live) <= 1
    BY DEF ParallelNeedsAnUnseenCheckout
  <2>1. ASSUME NEW t \in Live, NEW u \in Live PROVE t = u
    <3>1. t \in Subs /\ u \in Subs /\ session[t] = "paid" /\ session[u] = "paid"
      BY DEF IInv, Live, Told, Terminal
    <3>2. t <= u /\ u <= t BY <2>1, <3>1 DEF IInv, InTurn
    <3>3. t \in Nat /\ u \in Nat BY <3>1, SubsAssumption
    <3> QED BY <3>2, <3>3
  <2>2. CASE Live = {} BY <2>2, FS_EmptySet
  <2>3. CASE Live # {}
    <3>1. PICK t \in Live : TRUE BY <2>3
    <3>2. Live = {t} BY <2>1, <3>1
    <3>3. Cardinality(Live) = 1 BY <3>2, FS_Singleton
    <3> QED BY <3>3
  <2> QED BY <2>2, <2>3
<1> QED BY <1>1, Invariance, PTL
=============================================================================
