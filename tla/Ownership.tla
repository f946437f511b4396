----------------------------- MODULE Ownership -----------------------------
(***************************************************************************)
(* What the two stores of hosted databases promise together: a database    *)
(* either is or is not, it has one owner, and the owner changes in one way *)
(* only, from an anonymous device to the first user who adopted its token. *)
(* DbLifecycle implements this with a D1 row and a Postgres schema that    *)
(* are written one after the other.                                        *)
(***************************************************************************)
CONSTANTS
  Ids,     \* database ids
  Anons,   \* anonymous tenants, one per token
  Users,   \* signed-in tenants
  None

VARIABLES
  owner,    \* the owner of each database, or None
  adopter   \* the user each token is bound to, or None

Tenants == Anons \cup Users

Init ==
  /\ owner \in [Ids -> Tenants \cup {None}]
  /\ adopter = [a \in Anons |-> None]

Create(d) ==
  /\ owner[d] = None
  /\ \E t \in Tenants : owner' = [owner EXCEPT ![d] = t]
  /\ UNCHANGED adopter

Delete(d) ==
  /\ owner[d] # None
  /\ owner' = [owner EXCEPT ![d] = None]
  /\ UNCHANGED adopter

Bind(a) ==
  /\ adopter[a] = None
  /\ \E u \in Users : adopter' = [adopter EXCEPT ![a] = u]
  /\ UNCHANGED owner

Adopt(a) ==
  /\ adopter[a] # None
  /\ owner' = [d \in Ids |-> IF owner[d] = a THEN adopter[a] ELSE owner[d]]
  /\ UNCHANGED adopter

Evict ==
  /\ \E S \in SUBSET {d \in Ids : owner[d] \in Anons} :
       owner' = [d \in Ids |-> IF d \in S THEN None ELSE owner[d]]
  /\ UNCHANGED adopter

Next ==
  \/ \E d \in Ids : Create(d) \/ Delete(d)
  \/ \E a \in Anons : Bind(a) \/ Adopt(a)
  \/ Evict

Spec == Init /\ [][Next]_<<owner, adopter>>
=============================================================================
