---------------------------- MODULE LifecycleProofs ----------------------------
(***************************************************************************)
(* Proofs about links to a bank and deletions of accounts, for any number  *)
(* of members, workers, sessions, public tokens, attempts and losses.      *)
(*                                                                         *)
(* LifecycleInv of Lifecycle is inductive: an Item is in the hands of one  *)
(* attempt until it is a connection's, a connection is that of the session *)
(* that was completed with it, and an owner who leaves others behind has   *)
(* made one of them an owner before.                                       *)
(***************************************************************************)
EXTENDS Lifecycle, FiniteSetTheorems, WellFoundedInduction, TLAPS

Lifecycles == {"active", "deleting", "deleted"}
Deletions == {"none", "ready", "revoking", "finalizing", "overdue", "completed"}
Receipts == {"none", "ignored", "queued", "processed"}
Statuses == {"none", "created", "exchanging", "completed", "failed", "erased"}
Connections == {"none", "revoked", "erased"} \cup Linked
Items == {"none", "issued", "present", "removed"}

USE DEF InUse, Linked

LEMMA Numbers ==
    /\ {MaxMembers, MaxSessions, MaxTokens, MaxAttempts} \subseteq Nat
    /\ Member \subseteq Nat /\ Token \subseteq Item /\ Item \subseteq Nat /\ 0 \in Item
    /\ Token = Item \ {0} /\ Session = (0 .. MaxSessions) \ {0} /\ 0 \notin Session
BY LifecycleAssumption DEF Member, Token, Item, Session

\* Some set of numbers has a least element.
LEMMA First ==
    ASSUME NEW S \in SUBSET Nat, S # {}
    PROVE  \E m \in S : \A n \in S : m <= n
<1> DEFINE R == {p \in Nat \X Nat : p[1] < p[2]}
<1>1. IsWellFoundedOn(R, Nat)
  BY NatLessThanWellFounded DEF OpToRel
<1>2. PICK m \in S : \A n \in S : ~(<<n, m>> \in R)
  BY <1>1, WFMin
<1>3. \A n \in S : ~(n < m)
  BY <1>2
<1> QED BY <1>3

------------------------------------------------------------------------------
(* The fields of the state.                                                *)

LEMMA HomeFields ==
    ASSUME NEW h \in Home
    PROVE  /\ h.lifecycle \in Lifecycles /\ h.order \in Seq(Member)
           /\ h.role \in [Member -> {"owner", "member"}] /\ h.here \in [Member -> BOOLEAN]
           /\ h.asked \in [Member -> Deletions] /\ h.receipt \in [Member -> Receipts]
BY DEF Home, Lifecycles, Deletions, Receipts

LEMMA SetLifecycle ==
    ASSUME NEW h \in Home, NEW x \in Lifecycles
    PROVE  LET n == [h EXCEPT !.lifecycle = x]
           IN /\ n \in Home /\ n.lifecycle = x
              /\ n.order = h.order /\ n.role = h.role /\ n.here = h.here
              /\ n.asked = h.asked /\ n.receipt = h.receipt
BY DEF Home, Lifecycles

LEMMA SetOrder ==
    ASSUME NEW h \in Home, NEW x \in Seq(Member)
    PROVE  LET n == [h EXCEPT !.order = x]
           IN /\ n \in Home /\ n.lifecycle = h.lifecycle
              /\ n.role = h.role /\ n.here = h.here
              /\ n.asked = h.asked /\ n.receipt = h.receipt
BY DEF Home

LEMMA SetRole ==
    ASSUME NEW h \in Home, NEW x \in [Member -> {"owner", "member"}]
    PROVE  LET n == [h EXCEPT !.role = x]
           IN /\ n \in Home /\ n.lifecycle = h.lifecycle /\ n.order = h.order
              /\ n.role = x /\ n.here = h.here
              /\ n.asked = h.asked /\ n.receipt = h.receipt
BY DEF Home

LEMMA SetHere ==
    ASSUME NEW h \in Home, NEW u \in Member, NEW x \in BOOLEAN
    PROVE  LET n == [h EXCEPT !.here[u] = x]
           IN /\ n \in Home /\ n.lifecycle = h.lifecycle /\ n.order = h.order
              /\ n.role = h.role /\ n.here = [h.here EXCEPT ![u] = x]
              /\ n.asked = h.asked /\ n.receipt = h.receipt
<1>1. h.here \in [Member -> BOOLEAN]
  BY HomeFields
<1>2. [h.here EXCEPT ![u] = x] \in [Member -> BOOLEAN]
  BY <1>1
<1> QED BY <1>2 DEF Home

LEMMA SetAsked ==
    ASSUME NEW h \in Home, NEW u \in Member, NEW x \in Deletions
    PROVE  LET n == [h EXCEPT !.asked[u] = x]
           IN /\ n \in Home /\ n.lifecycle = h.lifecycle /\ n.order = h.order
              /\ n.role = h.role /\ n.here = h.here
              /\ n.asked = [h.asked EXCEPT ![u] = x] /\ n.receipt = h.receipt
<1>1. h.asked \in [Member -> Deletions]
  BY HomeFields
<1>2. [h.asked EXCEPT ![u] = x] \in [Member -> Deletions]
  BY <1>1
<1> QED BY <1>2 DEF Home, Deletions

LEMMA SetReceipt ==
    ASSUME NEW h \in Home, NEW u \in Member, NEW x \in Receipts
    PROVE  LET n == [h EXCEPT !.receipt[u] = x]
           IN /\ n \in Home /\ n.lifecycle = h.lifecycle /\ n.order = h.order
              /\ n.role = h.role /\ n.here = h.here /\ n.asked = h.asked
              /\ n.receipt = [h.receipt EXCEPT ![u] = x]
<1>1. h.receipt \in [Member -> Receipts]
  BY HomeFields
<1>2. [h.receipt EXCEPT ![u] = x] \in [Member -> Receipts]
  BY <1>1
<1> QED BY <1>2 DEF Home, Receipts

LEMMA LinkFields ==
    ASSUME NEW l \in Link
    PROVE  /\ l.session \in [Session -> LinkSession] /\ l.connection \in [Item -> Connections]
           /\ \A s \in Session : l.session[s].status \in Statuses
BY DEF Link, LinkSession, Connections, Statuses

LEMMA SetSession ==
    ASSUME NEW l \in Link, NEW s \in Session, NEW x \in LinkSession
    PROVE  LET n == [l EXCEPT !.session[s] = x]
           IN /\ n \in Link /\ n.session = [l.session EXCEPT ![s] = x] /\ n.session[s] = x
              /\ \A o \in Session \ {s} : n.session[o] = l.session[o]
              /\ n.connection = l.connection
<1>1. l.session \in [Session -> LinkSession]
  BY LinkFields
<1>2. [l.session EXCEPT ![s] = x] \in [Session -> LinkSession]
  BY <1>1
<1> QED BY <1>1, <1>2 DEF Link

LEMMA SetConnection ==
    ASSUME NEW l \in Link, NEW i \in Item, NEW x \in Connections
    PROVE  LET n == [l EXCEPT !.connection[i] = x]
           IN /\ n \in Link /\ n.session = l.session /\ n.connection = [l.connection EXCEPT ![i] = x]
<1>1. l.connection \in [Item -> Connections]
  BY LinkFields
<1>2. [l.connection EXCEPT ![i] = x] \in [Item -> Connections]
  BY <1>1
<1> QED BY <1>2 DEF Link, Connections

LEMMA ProviderFields ==
    ASSUME NEW p \in Provider
    PROVE  /\ p.identity \in [Member -> BOOLEAN] /\ p.public \in [Session -> Item]
           /\ p.item \in [Item -> Items]
BY DEF Provider, Items

LEMMA SetItem ==
    ASSUME NEW p \in Provider, NEW i \in Item, NEW x \in Items
    PROVE  LET n == [p EXCEPT !.item[i] = x]
           IN n \in Provider /\ n.item = [p.item EXCEPT ![i] = x] /\ n.public = p.public
<1>1. p.item \in [Item -> Items]
  BY ProviderFields
<1>2. [p.item EXCEPT ![i] = x] \in [Item -> Items]
  BY <1>1
<1> QED BY <1>2 DEF Provider, Items

LEMMA SetPublic ==
    ASSUME NEW p \in Provider, NEW s \in Session, NEW t \in Item
    PROVE  LET n == [p EXCEPT !.public[s] = t]
           IN n \in Provider /\ n.item = p.item
<1>1. p.public \in [Session -> Item]
  BY ProviderFields
<1>2. [p.public EXCEPT ![s] = t] \in [Session -> Item]
  BY <1>1
<1> QED BY <1>2 DEF Provider

LEMMA SetIdentity ==
    ASSUME NEW p \in Provider, NEW u \in Member, NEW x \in BOOLEAN
    PROVE  LET n == [p EXCEPT !.identity[u] = x]
           IN n \in Provider /\ n.item = p.item
<1>1. p.identity \in [Member -> BOOLEAN]
  BY ProviderFields
<1>2. [p.identity EXCEPT ![u] = x] \in [Member -> BOOLEAN]
  BY <1>1
<1> QED BY <1>2 DEF Provider

------------------------------------------------------------------------------
(* Operators.                                                              *)

LEMMA HandOverFacts ==
    ASSUME NEW h \in Home, NEW u \in Member
    PROVE  LET n == HandOver(h, u)
           IN /\ n \in Home /\ n.lifecycle = h.lifecycle /\ n.here = h.here
              /\ n.asked = h.asked /\ n.receipt = h.receipt
              /\ \A v \in Member : h.role[v] = "owner" => n.role[v] = "owner"
              /\ Others(u) = {} => n.role = h.role
              /\ Others(u) # {} => \E v \in Others(u) : n.role[v] = "owner"
<1> DEFINE heir(v) == v \in Others(u) /\ \A o \in Others(u) : v <= o
           role == [v \in Member |-> IF heir(v) THEN "owner" ELSE h.role[v]]
<1>1. h.role \in [Member -> {"owner", "member"}]
  BY HomeFields
<1>2. role \in [Member -> {"owner", "member"}]
  BY <1>1
<1>3. HandOver(h, u) = [h EXCEPT !.role = role]
  BY DEF HandOver
<1>4. /\ HandOver(h, u) \in Home /\ HandOver(h, u).role = role
      /\ HandOver(h, u).lifecycle = h.lifecycle /\ HandOver(h, u).here = h.here
      /\ HandOver(h, u).asked = h.asked /\ HandOver(h, u).receipt = h.receipt
  <2> HIDE DEF role
  <2> QED BY <1>2, <1>3, SetRole
<1>5. Others(u) = {} => role = h.role
  BY <1>1
<1>6. Others(u) # {} => \E v \in Others(u) : role[v] = "owner"
  <2> SUFFICES ASSUME Others(u) # {} PROVE \E v \in Others(u) : role[v] = "owner"
    OBVIOUS
  <2>1. Others(u) \in SUBSET Nat /\ Others(u) \subseteq Member
    BY Numbers DEF Others
  <2>2. PICK v \in Others(u) : \A o \in Others(u) : v <= o
    BY <2>1, First
  <2> QED BY <2>1, <2>2
<1> HIDE DEF role
<1>7. \A v \in Member : h.role[v] = "owner" => role[v] = "owner"
  BY DEF role
<1> QED BY <1>4, <1>5, <1>6, <1>7

LEMMA AskedFacts ==
    ASSUME NEW h \in Home, NEW u \in Member, NEW status \in Deletions
    PROVE  LET n == Asked(h, u, status)
           IN /\ n \in Home /\ n.lifecycle = h.lifecycle /\ n.here = h.here /\ n.role = h.role
              /\ n.receipt = h.receipt /\ n.asked = [h.asked EXCEPT ![u] = status]
<1> DEFINE m == [h EXCEPT !.asked[u] = status]
           order == Append(h.order, u)
<1>1. /\ m \in Home /\ m.lifecycle = h.lifecycle /\ m.here = h.here /\ m.role = h.role
      /\ m.receipt = h.receipt /\ m.asked = [h.asked EXCEPT ![u] = status] /\ m.order = h.order
  BY SetAsked
<1>2. order \in Seq(Member)
  BY HomeFields
<1>3. Asked(h, u, status) = [m EXCEPT !.order = order]
  BY DEF Asked
<1> HIDE DEF m, order
<1> QED BY <1>1, <1>2, <1>3, SetOrder

LEMMA QueuedFacts ==
    ASSUME TypeOK, NEW h \in Home, NEW u \in Member, NEW status \in Deletions
    PROVE  LET n == Queued(h, u, status)
           IN /\ n \in Home /\ n.lifecycle = h.lifecycle /\ n.here = h.here /\ n.role = h.role
              /\ \A v \in Member \ {u} : n.asked[v] = h.asked[v]
              /\ n.asked[u] \in {h.asked[u], status}
<1> DEFINE m == IF Pending(u) THEN h ELSE Asked(h, u, status)
<1>1. /\ m \in Home /\ m.lifecycle = h.lifecycle /\ m.here = h.here /\ m.role = h.role
      /\ m.asked \in {h.asked, [h.asked EXCEPT ![u] = status]}
  BY AskedFacts
<1>2. "queued" \in Receipts /\ h.asked \in [Member -> Deletions]
  BY HomeFields DEF Receipts
<1>3. Queued(h, u, status) = [m EXCEPT !.receipt[u] = "queued"]
  BY DEF Queued
<1>4. /\ \A v \in Member \ {u} : m.asked[v] = h.asked[v]
      /\ m.asked[u] \in {h.asked[u], status}
  BY <1>1, <1>2
<1> HIDE DEF m
<1> QED BY <1>1, <1>2, <1>3, <1>4, SetReceipt

LEMMA LeftFacts ==
    ASSUME NEW h \in Home, NEW u \in Member
    PROVE  LET n == Left(h, u)
           IN /\ n \in Home /\ n.role = h.role /\ n.here = [h.here EXCEPT ![u] = FALSE]
              /\ n.asked = [h.asked EXCEPT ![u] = "completed"]
              /\ n.lifecycle = IF Others(u) = {} THEN "deleted" ELSE "active"
<1> DEFINE a == [h EXCEPT !.here[u] = FALSE]
           b == [a EXCEPT !.asked[u] = "completed"]
           x == IF b.receipt[u] = "queued" THEN "processed" ELSE b.receipt[u]
           c == [b EXCEPT !.receipt[u] = x]
           y == IF Others(u) = {} THEN "deleted" ELSE "active"
           d == [c EXCEPT !.lifecycle = y]
<1>1. "completed" \in Deletions /\ FALSE \in BOOLEAN /\ y \in Lifecycles
  BY DEF Deletions, Lifecycles
<1>2. /\ a \in Home /\ a.role = h.role /\ a.here = [h.here EXCEPT ![u] = FALSE] /\ a.asked = h.asked
      /\ a.receipt = h.receipt
  BY <1>1, SetHere
<1>3. Left(h, u) = d
  BY <1>2 DEF Left
<1> HIDE DEF a
<1>4. /\ b \in Home /\ b.role = h.role /\ b.here = a.here
      /\ b.asked = [h.asked EXCEPT ![u] = "completed"]
  BY <1>1, <1>2, SetAsked
<1> HIDE DEF b
<1>5. x \in Receipts
  BY <1>4, HomeFields DEF Receipts
<1> HIDE DEF x
<1>6. c \in Home /\ c.role = b.role /\ c.here = b.here /\ c.asked = b.asked
  BY <1>4, <1>5, SetReceipt
<1> HIDE DEF c
<1>7. d \in Home /\ d.role = c.role /\ d.here = c.here /\ d.asked = c.asked /\ d.lifecycle = y
  BY <1>1, <1>6, SetLifecycle
<1> QED BY <1>2, <1>3, <1>4, <1>6, <1>7

LEMMA RevokeAllFacts ==
    ASSUME NEW l \in Link, NEW those \in SUBSET Linked
    PROVE  LET n == RevokeAll(l, those)
           IN /\ n \in Link /\ n.session = l.session
              /\ \A i \in Item : n.connection[i] =
                    IF l.connection[i] \in those THEN "pending" ELSE l.connection[i]
<1> DEFINE c == [i \in Item |-> IF l.connection[i] \in those THEN "pending" ELSE l.connection[i]]
<1>1. l.connection \in [Item -> Connections]
  BY LinkFields
<1>2. c \in [Item -> Connections]
  BY <1>1 DEF Connections
<1>3. RevokeAll(l, those) = [l EXCEPT !.connection = c]
  BY <1>1 DEF RevokeAll
<1> QED BY <1>2, <1>3 DEF Link, Connections

LEMMA ErasedFacts ==
    ASSUME NEW l \in Link
    PROVE  /\ Erased(l) \in Link
           /\ \A s \in Session : Erased(l).session[s].status =
                 IF l.session[s].status = "none" THEN "none" ELSE "erased"
           /\ \A i \in Item : Erased(l).connection[i] =
                 IF l.connection[i] = "none" THEN "none" ELSE "erased"
<1> DEFINE x(s) == IF l.session[s].status = "none" THEN "none" ELSE "erased"
           session == [s \in Session |-> [l.session[s] EXCEPT !.status = x(s)]]
           connection == [i \in Item |-> IF l.connection[i] = "none" THEN "none" ELSE "erased"]
<1>1. l.session \in [Session -> LinkSession]
  BY LinkFields
<1>2. ASSUME NEW s \in Session
      PROVE  session[s] \in LinkSession /\ session[s].status = x(s)
  <2>1. l.session[s] \in LinkSession
    BY <1>1
  <2> QED BY <2>1 DEF LinkSession
<1>3. session \in [Session -> LinkSession]
  BY <1>2
<1>4. connection \in [Item -> Connections]
  BY DEF Connections
<1>5. Erased(l) = [session |-> session, connection |-> connection]
  <2>1. session = [s \in Session |-> [l.session[s] EXCEPT !.status = IF @ = "none" THEN @ ELSE "erased"]]
    <3>1. \A s \in Session : [l.session[s] EXCEPT !.status = IF @ = "none" THEN @ ELSE "erased"] =
                             [l.session[s] EXCEPT !.status = x(s)]
      BY <1>1 DEF LinkSession
    <3> QED BY <3>1
  <2> HIDE DEF session
  <2> QED BY <2>1 DEF Erased
<1> HIDE DEF session, connection
<1>6. Erased(l) \in Link /\ Erased(l).session = session /\ Erased(l).connection = connection
  BY <1>3, <1>4, <1>5 DEF Link, Connections
<1> QED BY <1>2, <1>6 DEF connection

------------------------------------------------------------------------------
(* What steps leave as it is.                                              *)

\* Who is a member, and an owner; nobody else has asked.
HomeKept ==
    /\ home'.lifecycle = home.lifecycle /\ home'.role = home.role /\ home'.here = home.here
    /\ \A u \in Member : Pending(u)' => Pending(u)

\* The sessions that have ended stay as they are, or are erased.
SessionsStay ==
    \A s \in Session :
       link.session[s].status \in {"completed", "failed"} =>
          link'.session[s].status \in {link.session[s].status, "erased"}

\* A connection is revoked, or stays.
Withdrawn ==
    \A i \in Item :
       \/ link'.connection[i] = link.connection[i]
       \/ link.connection[i] \in Linked /\ link'.connection[i] = "pending"

\* The completed sessions stay as they are.
CompletedStay ==
    \A s \in Session :
       /\ link'.session[s].status = "completed" <=> link.session[s].status = "completed"
       /\ link.session[s].status = "completed" => link'.session[s].token = link.session[s].token

\* Plaid's Items stay as they are, or one is issued.
ItemsKept ==
    \A i \in Item :
       \/ provider'.item[i] = provider.item[i]
       \/ provider.item[i] = "none" /\ provider'.item[i] = "issued"

\* An attempt keeps its Item in hand, and leaves what it has lost.
HandsKept ==
    \A a \in Attempt :
       /\ Exchanged(a)' => Exchanged(a) /\ api'[a].token = api[a].token
       /\ Exchanged(a) \/ api[a].leaked =>
             (Exchanged(a)' \/ api'[a].leaked) /\ api'[a].token = api[a].token

LEMMA DeletionsStand ==
    ASSUME TypeOK, DeletionsGoOn, HomeKept, Withdrawn
    PROVE  DeletionsGoOn'
BY DEF DeletionsGoOn, HomeKept, Withdrawn

LEMMA OwnersStand ==
    ASSUME OwnersHandOver, HomeKept
    PROVE  OwnersHandOver'
<1>1. \A u \in Member : Others(u)' = Others(u)
  BY DEF HomeKept, Others
<1> QED BY <1>1 DEF OwnersHandOver, HomeKept

LEMMA ItemsStand ==
    ASSUME TypeOK, ItemsHaveOneHolder, HandsKept, Withdrawn,
           ItemsKept
    PROVE  ItemsHaveOneHolder'
<1>1. \A a \in Attempt : Exchanged(a) => api[a].token \in Item
  BY Numbers DEF TypeOK, Exchanges, Exchanged, NoAttempt
<1>2. ASSUME NEW a \in Attempt, Exchanged(a)'
      PROVE  /\ provider'.item[api'[a].token] = "present" /\ link'.connection[api'[a].token] = "none"
             /\ \A b \in Attempt : Exchanged(b)' /\ api'[b].token = api'[a].token => b = a
  <2>1. Exchanged(a) /\ api'[a].token = api[a].token
    BY <1>2 DEF HandsKept
  <2>2. provider.item[api[a].token] = "present" /\ link.connection[api[a].token] = "none"
    BY <2>1 DEF ItemsHaveOneHolder
  <2>3. \A b \in Attempt : Exchanged(b)' => Exchanged(b) /\ api'[b].token = api[b].token
    BY DEF HandsKept
  <2>4. provider'.item[api[a].token] = "present" /\ link'.connection[api[a].token] = "none"
    BY <1>1, <2>1, <2>2 DEF Withdrawn, ItemsKept
  <2> QED BY <2>1, <2>3, <2>4 DEF ItemsHaveOneHolder
<1>3. \A i \in Item : Unaccounted(i) => Unaccounted(i)'
  BY DEF Unaccounted, HandsKept, Exchanged
<1>4. ASSUME NEW i \in Item
      PROVE  /\ link'.connection[i] \in InUse => provider'.item[i] = "present"
             /\ link'.connection[i] \in {"pending", "failed"} =>
                   provider'.item[i] \in {"present", "removed"}
             /\ link'.connection[i] \in {"revoked", "erased"} => provider'.item[i] = "removed"
             /\ provider'.item[i] = "present" =>
                   link'.connection[i] \in Linked \/ Unaccounted(i)'
  <2>1. /\ link.connection[i] \in InUse => provider.item[i] = "present"
        /\ link.connection[i] \in {"pending", "failed"} =>
              provider.item[i] \in {"present", "removed"}
        /\ link.connection[i] \in {"revoked", "erased"} => provider.item[i] = "removed"
        /\ provider.item[i] = "present" => link.connection[i] \in Linked \/ Unaccounted(i)
    BY DEF ItemsHaveOneHolder
  <2> QED BY <1>3, <2>1 DEF Withdrawn, ItemsKept
<1> QED BY <1>2, <1>4 DEF ItemsHaveOneHolder

LEMMA SessionsStand ==
    ASSUME ConnectionsHaveOneSession, Withdrawn, CompletedStay
    PROVE  ConnectionsHaveOneSession'
<1>1. \A i : Completed(i)' = Completed(i)
  BY DEF Completed, CompletedStay
<1>2. ASSUME NEW i \in Token
      PROVE  /\ link'.connection[i] = "none" => Completed(i)' = {}
             /\ link'.connection[i] \in Linked \cup {"revoked"} =>
                   \E s \in Session : Completed(i)' = {s}
  <2>1. /\ link.connection[i] = "none" => Completed(i) = {}
        /\ link.connection[i] \in Linked \cup {"revoked"} =>
              \E s \in Session : Completed(i) = {s}
    BY DEF ConnectionsHaveOneSession
  <2>2. i \in Item
    BY Numbers
  <2> QED BY <1>1, <2>1, <2>2 DEF Withdrawn
<1> QED BY <1>2 DEF ConnectionsHaveOneSession

\* A step that touches neither the household, nor the links, nor an attempt,
\* nor an Item that anyone knows.
LEMMA QuietStep ==
    ASSUME LifecycleInv, TypeOK', HomeKept, Withdrawn, CompletedStay, HandsKept,
           ItemsKept
    PROVE  LifecycleInv'
BY DeletionsStand, OwnersStand, ItemsStand, SessionsStand DEF LifecycleInv

LEMMA SameHome ==
    ASSUME home' = home
    PROVE  HomeKept
BY DEF HomeKept, Pending

LEMMA SameProvider ==
    ASSUME provider' = provider
    PROVE  ItemsKept
BY DEF ItemsKept

LEMMA SameLink ==
    ASSUME link' = link
    PROVE  Withdrawn /\ CompletedStay /\ SessionsStay
BY DEF Withdrawn, CompletedStay, SessionsStay

LEMMA SameApi ==
    ASSUME api' = api
    PROVE  HandsKept
BY DEF HandsKept, Exchanged

------------------------------------------------------------------------------
(* The client.                                                             *)

\* A step of the client alone.
LEMMA ClientStep ==
    ASSUME LifecycleInv, UNCHANGED <<world, home, link, provider, api, worker>>,
           client' \in Client,
           client'.phase \in {"opening", "exchanging"} => client'.session # 0,
           client'.phase = "exchanging" => client'.token # 0,
           bounds' \in [crashes : Nat, losses : Nat, restarts : Nat]
    PROVE  LifecycleInv' /\ SessionsStay
<1>1. TypeOK'
  BY DEF LifecycleInv, TypeOK
<1>2. Withdrawn /\ CompletedStay /\ SessionsStay /\ HandsKept
  BY SameLink, SameApi
<1>3. HomeKept /\ ItemsKept
  BY SameHome, SameProvider
<1>4. LifecycleInv'
  BY <1>1, <1>2, <1>3, QuietStep
<1> QED BY <1>2, <1>4

LEMMA ClientFields ==
    ASSUME TypeOK
    PROVE  /\ client \in Client
           /\ client.phase \in {"opening", "exchanging"} => client.session \in Session
           /\ client.phase = "exchanging" => client.token \in Token
           /\ client.session \in 0 .. MaxSessions /\ client.stored \in 0 .. MaxSessions
           /\ client.attempt \in 0 .. MaxAttempts /\ client.token \in Item
           /\ client.stored # 0 => client.stored \in Session
           /\ bounds \in [crashes : Nat, losses : Nat, restarts : Nat]
BY Numbers DEF TypeOK, Client

LEMMA RestIsClient ==
    ASSUME NEW stored \in 0 .. MaxSessions
    PROVE  /\ Rest \in Client /\ Rest.phase = "idle"
           /\ [Rest EXCEPT !.stored = stored] \in Client
           /\ [Rest EXCEPT !.stored = stored].phase = "idle"
<1>1. 0 \in 0 .. MaxSessions /\ 0 \in 0 .. MaxAttempts /\ 0 \in Item
  BY Numbers
<1> QED BY <1>1 DEF Rest, Client

LEMMA SettledIsClient ==
    ASSUME TypeOK, NEW phase \in {"done", "error", "cancelled"}
    PROVE  Settled(phase) \in Client /\ Settled(phase).phase = phase
<1> DEFINE a == [client EXCEPT !.phase = phase]
           b == [a EXCEPT !.attempt = 0]
<1>1. 0 \in 0 .. MaxSessions /\ 0 \in 0 .. MaxAttempts
  BY Numbers
<1>2. a \in Client /\ a.phase = phase
  BY ClientFields DEF Client
<1>3. Settled(phase) = [b EXCEPT !.stored = 0]
  BY DEF Settled
<1> HIDE DEF a
<1>4. b \in Client /\ b.phase = phase
  BY <1>1, <1>2 DEF Client
<1> HIDE DEF b
<1> QED BY <1>1, <1>3, <1>4 DEF Client

LEMMA OneClientStep ==
    ASSUME LifecycleInv,
           Start \/ Redirect \/ ReadPending \/ LinkExits \/ StartAgain \/ ReturnToNative
             \/ ReceiveAnswer \/ LoseAnswer
    PROVE  LifecycleInv' /\ SessionsStay
<1>1. /\ TypeOK /\ UNCHANGED <<world, home, link, provider, api, worker>>
      /\ 0 \in 0 .. MaxSessions
  BY Numbers DEF LifecycleInv, Start, Redirect, ReadPending, LinkExits, StartAgain, ReturnToNative,
                 ReceiveAnswer, LoseAnswer
<1>2. /\ client \in Client /\ client.session \in 0 .. MaxSessions /\ client.stored \in 0 .. MaxSessions
      /\ bounds \in [crashes : Nat, losses : Nat, restarts : Nat]
  BY <1>1, ClientFields
<1> DEFINE Fine == /\ client' \in Client
                   /\ client'.phase \in {"opening", "exchanging"} => client'.session # 0
                   /\ client'.phase = "exchanging" => client'.token # 0
<1>3. CASE Start
  <2>1. client' = [client EXCEPT !.phase = "requesting"]
    BY <1>3 DEF Start
  <2>2. Fine
    BY <1>2, <2>1 DEF Client
  <2>3. bounds' = bounds
    BY <1>3 DEF Start
  <2> QED BY <1>1, <1>2, <2>2, <2>3, ClientStep
<1>4. CASE Redirect
  <2> DEFINE a == [client EXCEPT !.phase = "away"]
  <2>1. client' = [a EXCEPT !.page = TRUE] /\ bounds' = bounds
    BY <1>4 DEF Redirect
  <2>2. a \in Client /\ a.phase = "away"
    BY <1>2 DEF Client
  <2> HIDE DEF a
  <2>3. Fine
    BY <2>1, <2>2 DEF Client
  <2> QED BY <1>1, <1>2, <2>1, <2>3, ClientStep
<1>5. CASE ReadPending
  <2> DEFINE a == [client EXCEPT !.phase = "opening"]
             b == [client EXCEPT !.phase = "expired"]
  <2>1. /\ bounds' = bounds
        /\ \/ client.stored # 0 /\ client' = [a EXCEPT !.session = client.stored]
           \/ client' = [b EXCEPT !.stored = 0]
    BY <1>5 DEF ReadPending
  <2>2. a \in Client /\ a.phase = "opening" /\ b \in Client /\ b.phase = "expired"
    BY <1>2 DEF Client
  <2> HIDE DEF a, b
  <2>3. Fine
    <3>1. CASE client.stored # 0 /\ client' = [a EXCEPT !.session = client.stored]
      BY <1>2, <2>2, <3>1 DEF Client
    <3>2. CASE client' = [b EXCEPT !.stored = 0]
      BY <1>1, <2>2, <3>2 DEF Client
    <3> QED BY <2>1, <3>1, <3>2
  <2> QED BY <1>1, <1>2, <2>1, <2>3, ClientStep
<1>6. CASE LinkExits
  <2>1. bounds' = bounds
    BY <1>6 DEF LinkExits
  <2>2. \/ \E phase \in {"error", "cancelled"} : client' = Settled(phase)
        \/ client' = [client EXCEPT !.phase = "error"]
        \/ client' = [Rest EXCEPT !.stored = client.stored]
    BY <1>6 DEF LinkExits
  <2>3. Fine
    <3>1. CASE \E phase \in {"error", "cancelled"} : client' = Settled(phase)
      BY <1>1, <3>1, SettledIsClient
    <3>2. CASE client' = [client EXCEPT !.phase = "error"]
      BY <1>2, <3>2 DEF Client
    <3>3. CASE client' = [Rest EXCEPT !.stored = client.stored]
      BY <1>2, <3>3, RestIsClient
    <3> QED BY <2>2, <3>1, <3>2, <3>3
  <2> QED BY <1>1, <1>2, <2>1, <2>3, ClientStep
<1>7. CASE StartAgain
  <2>1. bounds' = bounds \/ bounds' = [bounds EXCEPT !.restarts = @ + 1]
    BY <1>7 DEF StartAgain
  <2>2. bounds' \in [crashes : Nat, losses : Nat, restarts : Nat]
    BY <1>2, <2>1
  <2>3. Fine
    BY <1>2, <1>7, RestIsClient DEF StartAgain
  <2> QED BY <1>1, <2>2, <2>3, ClientStep
<1>8. CASE ReturnToNative
  <2> DEFINE t == provider.public[client.stored]
             a == [client EXCEPT !.phase = "error"]
             b == [client EXCEPT !.phase = "exchanging"]
             c == [b EXCEPT !.session = client.stored]
  <2>1. /\ bounds' = bounds /\ client.stored \in Session
        /\ \/ client' = [a EXCEPT !.stored = 0]
           \/ t # 0 /\ client' = [c EXCEPT !.token = t]
    BY <1>1, <1>8, ClientFields DEF ReturnToNative
  <2>2. t \in Item
    BY <1>1, <2>1, ProviderFields DEF TypeOK
  <2>3. a \in Client /\ a.phase = "error" /\ b \in Client /\ b.phase = "exchanging"
    BY <1>2 DEF Client
  <2> HIDE DEF t, a, b
  <2>4. c \in Client /\ c.phase = "exchanging" /\ c.session # 0
    BY <1>2, <2>1, <2>3, Numbers DEF Client
  <2> HIDE DEF c
  <2>5. Fine
    <3>1. CASE client' = [a EXCEPT !.stored = 0]
      BY <1>1, <2>3, <3>1 DEF Client
    <3>2. CASE t # 0 /\ client' = [c EXCEPT !.token = t]
      BY <2>2, <2>4, <3>2 DEF Client
    <3> QED BY <2>1, <3>1, <3>2
  <2> QED BY <1>1, <1>2, <2>1, <2>5, ClientStep
<1>9. CASE ReceiveAnswer \/ LoseAnswer
  <2>1. bounds' = bounds
    BY <1>9 DEF ReceiveAnswer, LoseAnswer
  <2>2. client' \in {Settled("done"), Settled("error")}
    BY <1>9 DEF ReceiveAnswer, LoseAnswer
  <2>3. Fine
    BY <1>1, <2>2, SettledIsClient
  <2> QED BY <1>1, <1>2, <2>1, <2>3, ClientStep
<1> QED BY <1>3, <1>4, <1>5, <1>6, <1>7, <1>8, <1>9

\* Plaid hands a public token of an Item that nobody knows yet.
LEMMA LinkSucceedsStep ==
    ASSUME LifecycleInv, LinkSucceeds
    PROVE  LifecycleInv' /\ SessionsStay
<1>1. TypeOK /\ provider \in Provider
  BY DEF LifecycleInv, TypeOK
<1>2. PICK t \in Unissued :
         /\ provider' = [provider EXCEPT !.item[t] = "issued", !.public[client.session] = t]
         /\ client' = [client EXCEPT !.phase = "exchanging", !.token = t,
                                     !.stored = IF client.page \/ world.native THEN @ ELSE 0]
  BY DEF LinkSucceeds
<1>3. /\ t \in Token /\ t \in Item /\ t # 0 /\ provider.item[t] = "none" /\ client.session \in Session
      /\ client \in Client /\ client.session # 0 /\ client.stored \in 0 .. MaxSessions
      /\ 0 \in 0 .. MaxSessions
  BY <1>1, <1>2, ClientFields, Numbers DEF Unissued, LinkSucceeds
<1>4. provider' \in Provider /\ provider'.item = [provider.item EXCEPT ![t] = "issued"]
  <2> DEFINE p == [provider EXCEPT !.item[t] = "issued"]
  <2>1. provider' = [p EXCEPT !.public[client.session] = t]
    BY <1>2
  <2>2. p \in Provider /\ p.item = [provider.item EXCEPT ![t] = "issued"]
    BY <1>1, <1>3, SetItem DEF Items
  <2> HIDE DEF p
  <2> QED BY <1>3, <2>1, <2>2, SetPublic
<1>5. /\ client' \in Client /\ client'.phase = "exchanging" /\ client'.session # 0 /\ client'.token # 0
  <2> DEFINE x == IF client.page \/ world.native THEN client.stored ELSE 0
             a == [client EXCEPT !.phase = "exchanging"]
             b == [a EXCEPT !.token = t]
  <2>1. client' = [b EXCEPT !.stored = x]
    BY <1>2
  <2>2. x \in 0 .. MaxSessions
    BY <1>3
  <2>3. a \in Client /\ a.phase = "exchanging" /\ a.session = client.session
    BY <1>3 DEF Client
  <2> HIDE DEF x, a
  <2>4. b \in Client /\ b.phase = "exchanging" /\ b.session = client.session /\ b.token = t
    BY <1>3, <2>3 DEF Client
  <2> HIDE DEF b
  <2> QED BY <1>3, <2>1, <2>2, <2>4 DEF Client
<1>6. UNCHANGED <<world, home, link, api, worker, bounds>>
  BY DEF LinkSucceeds
<1>7. TypeOK'
  BY <1>1, <1>4, <1>5, <1>6 DEF TypeOK
<1>8. Withdrawn /\ CompletedStay /\ SessionsStay /\ HandsKept
  BY <1>6, SameLink, SameApi
<1>9. ItemsKept
  BY <1>1, <1>3, <1>4, ProviderFields DEF ItemsKept
<1>10. HomeKept
  BY <1>6, SameHome
<1>11. LifecycleInv'
  BY <1>7, <1>8, <1>9, <1>10, QuietStep
<1> QED BY <1>8, <1>11

------------------------------------------------------------------------------
(* Link sessions.                                                          *)

\* One session changes that does not begin or cease to be completed.
LEMMA OneSession ==
    ASSUME TypeOK, NEW s \in Session,
           link'.connection = link.connection,
           \A o \in Session \ {s} : link'.session[o] = link.session[o],
           link.session[s].status # "completed", link'.session[s].status # "completed",
           link.session[s].status # "failed" \/ link'.session[s].status = "failed"
    PROVE  Withdrawn /\ CompletedStay /\ SessionsStay
<1>1. Withdrawn
  BY DEF Withdrawn
<1>2. CompletedStay /\ SessionsStay
  BY DEF CompletedStay, SessionsStay
<1> QED BY <1>1, <1>2

LEMMA CreateLinkTokenStep ==
    ASSUME LifecycleInv, CreateLinkToken
    PROVE  LifecycleInv' /\ SessionsStay
<1>1. /\ TypeOK /\ client \in Client /\ link \in Link
      /\ UNCHANGED <<world, home, provider, api, worker, bounds>>
  BY ClientFields DEF LifecycleInv, CreateLinkToken, TypeOK
<1>2. CASE client' = [client EXCEPT !.phase = "error"] /\ link' = link
  <2>1. client' \in Client /\ client'.phase = "error"
    BY <1>1, <1>2 DEF Client
  <2> QED BY <1>1, <1>2, <2>1, ClientFields, ClientStep
<1>3. ASSUME NEW s \in Fresh,
             link' = [link EXCEPT !.session[s].status = "created"],
             client' \in {[client EXCEPT !.phase = "opening", !.session = s, !.stored = s],
                          [client EXCEPT !.phase = "error"]}
      PROVE  LifecycleInv' /\ SessionsStay
  <2> DEFINE x == [link.session[s] EXCEPT !.status = "created"]
  <2>1. s \in Session /\ link.session[s].status = "none" /\ link.session[s] \in LinkSession
    BY <1>1, LinkFields DEF Fresh
  <2>2. x \in LinkSession /\ x.status = "created"
    BY <2>1 DEF LinkSession
  <2>3. link' = [link EXCEPT !.session[s] = x]
    BY <1>3
  <2> HIDE DEF x
  <2>4. /\ link' \in Link /\ link'.session[s] = x /\ link'.connection = link.connection
        /\ \A o \in Session \ {s} : link'.session[o] = link.session[o]
    BY <1>1, <2>1, <2>2, <2>3, SetSession
  <2>5. client' \in Client /\ (client'.phase \in {"opening", "exchanging"} => client'.session # 0)
           /\ client'.phase # "exchanging"
    <3> DEFINE a == [client EXCEPT !.phase = "opening"]
               b == [a EXCEPT !.session = s]
    <3>1. s \in 0 .. MaxSessions /\ s # 0
      BY <2>1, Numbers
    <3>2. CASE client' = [b EXCEPT !.stored = s]
      <4>1. a \in Client /\ a.phase = "opening"
        BY <1>1 DEF Client
      <4> HIDE DEF a
      <4>2. b \in Client /\ b.phase = "opening" /\ b.session = s
        BY <3>1, <4>1 DEF Client
      <4> HIDE DEF b
      <4> QED BY <3>1, <3>2, <4>2 DEF Client
    <3>3. CASE client' = [client EXCEPT !.phase = "error"]
      BY <1>1, <3>3 DEF Client
    <3> QED BY <1>3, <3>2, <3>3
  <2>6. TypeOK'
    BY <1>1, <2>4, <2>5 DEF TypeOK
  <2>7. Withdrawn /\ CompletedStay /\ SessionsStay
    BY <1>1, <2>1, <2>2, <2>4, OneSession
  <2>8. HomeKept /\ ItemsKept /\ HandsKept
    BY <1>1, SameHome, SameProvider, SameApi
  <2>9. LifecycleInv'
    BY <2>6, <2>7, <2>8, QuietStep
  <2> QED BY <2>7, <2>9
<1> QED BY <1>2, <1>3 DEF CreateLinkToken

LEMMA TimePassesStep ==
    ASSUME LifecycleInv, NEW s \in Session, TwoMinutesPass(s) \/ Expire(s)
    PROVE  LifecycleInv' /\ SessionsStay
<1> DEFINE x == [link.session[s] EXCEPT !.recent = FALSE]
           y == [link.session[s] EXCEPT !.expired = TRUE]
<1>1. /\ TypeOK /\ link \in Link /\ link.session[s] \in LinkSession
      /\ UNCHANGED <<world, home, provider, api, worker, client, bounds>>
  BY LinkFields DEF LifecycleInv, TwoMinutesPass, Expire, TypeOK
<1>2. \A z \in {x, y} :
         z \in LinkSession /\ z.status = link.session[s].status /\ z.token = link.session[s].token
  BY <1>1 DEF LinkSession
<1>3. link' = [link EXCEPT !.session[s] = x] \/ link' = [link EXCEPT !.session[s] = y]
  BY DEF TwoMinutesPass, Expire
<1>4. PICK z \in {x, y} : link' = [link EXCEPT !.session[s] = z]
  BY <1>3
<1>5. z \in LinkSession /\ z.status = link.session[s].status /\ z.token = link.session[s].token
  BY <1>2
<1> HIDE DEF x, y
<1>6. /\ link' \in Link /\ link'.session[s] = z /\ link'.connection = link.connection
      /\ \A o \in Session \ {s} : link'.session[o] = link.session[o]
  BY <1>1, <1>4, <1>5, SetSession
<1>7. Withdrawn
  BY <1>6 DEF Withdrawn
<1>8. CompletedStay /\ SessionsStay
  BY <1>5, <1>6 DEF CompletedStay, SessionsStay
<1>9. TypeOK'
  BY <1>1, <1>6 DEF TypeOK
<1>10. HomeKept /\ ItemsKept /\ HandsKept
  BY <1>1, SameHome, SameProvider, SameApi
<1>11. LifecycleInv'
  BY <1>7, <1>8, <1>9, <1>10, QuietStep
<1> QED BY <1>8, <1>11

------------------------------------------------------------------------------
(* The exchange.                                                           *)

Steps == {"calling", "exchanged", "compensating", "marking", "succeeded", "failed"}

LEMMA AttemptFields ==
    ASSUME TypeOK, NEW a \in Attempt
    PROVE  /\ api[a] \in Exchanges /\ api[a].token \in Item
           /\ api[a] = NoAttempt => ~Exchanged(a) /\ ~api[a].leaked /\ api[a].step = "free"
           /\ api[a].step \in Steps =>
                 /\ api[a] \in [step : Steps, session : Session, token : Token, leaked : BOOLEAN]
                 /\ api[a].token \in Token /\ api[a].session \in Session /\ api[a].leaked \in BOOLEAN
<1>1. api[a] \in Exchanges
  BY DEF TypeOK
<1>2. NoAttempt.token \in Item
  BY Numbers DEF NoAttempt
<1>3. CASE api[a] = NoAttempt
  BY <1>1, <1>2, <1>3 DEF NoAttempt, Exchanged, Steps
<1>4. CASE api[a] \in [step : Steps, session : Session, token : Token, leaked : BOOLEAN]
  <2>1. api[a].token \in Token /\ api[a].step \in Steps /\ api[a].session \in Session
           /\ api[a].leaked \in BOOLEAN
    BY <1>4
  <2>2. api[a] # NoAttempt
    BY <2>1 DEF NoAttempt, Steps
  <2> QED BY <1>1, <1>4, <2>1, <2>2, Numbers
<1> QED BY <1>1, <1>3, <1>4 DEF Exchanges, Steps

LEMMA SetStep ==
    ASSUME TypeOK, NEW a \in Attempt, api[a].step \in Steps, NEW x \in Steps
    PROVE  LET n == [api EXCEPT ![a].step = x]
           IN /\ n \in [Attempt -> Exchanges] /\ n[a].step = x
              /\ n[a].token = api[a].token /\ n[a].leaked = api[a].leaked
              /\ \A b \in Attempt \ {a} : n[b] = api[b]
<1> DEFINE r == [api[a] EXCEPT !.step = x]
<1>1. api[a] \in [step : Steps, session : Session, token : Token, leaked : BOOLEAN]
  BY AttemptFields
<1>2. /\ r \in [step : Steps, session : Session, token : Token, leaked : BOOLEAN]
      /\ r.step = x /\ r.token = api[a].token /\ r.leaked = api[a].leaked
  BY <1>1
<1>3. r \in Exchanges
  BY <1>2 DEF Exchanges, Steps
<1>4. [api EXCEPT ![a].step = x] = [api EXCEPT ![a] = r]
  OBVIOUS
<1>5. api \in [Attempt -> Exchanges]
  BY DEF TypeOK
<1> HIDE DEF r
<1> QED BY <1>2, <1>3, <1>4, <1>5

LEMMA SetLeaked ==
    ASSUME TypeOK, NEW a \in Attempt, api[a].step \in Steps, NEW x \in Steps, NEW y \in BOOLEAN,
           \/ api' = [api EXCEPT ![a].step = x, ![a].leaked = y]
           \/ api' = [api EXCEPT ![a].leaked = y, ![a].step = x]
    PROVE  /\ api' \in [Attempt -> Exchanges]
           /\ api'[a].step = x /\ api'[a].token = api[a].token /\ api'[a].leaked = y
           /\ \A b \in Attempt \ {a} : api'[b] = api[b]
<1> DEFINE p == [api[a] EXCEPT !.step = x]
           r == [p EXCEPT !.leaked = y]
           q == [api[a] EXCEPT !.leaked = y]
           t == [q EXCEPT !.step = x]
<1>1. api[a] \in [step : Steps, session : Session, token : Token, leaked : BOOLEAN]
  BY AttemptFields
<1>2. /\ p \in [step : Steps, session : Session, token : Token, leaked : BOOLEAN]
      /\ q \in [step : Steps, session : Session, token : Token, leaked : BOOLEAN]
  BY <1>1
<1>3. r = t
  BY <1>1
<1>4. /\ r \in [step : Steps, session : Session, token : Token, leaked : BOOLEAN]
      /\ r.step = x /\ r.token = api[a].token /\ r.leaked = y
  BY <1>1, <1>2
<1>5. r \in Exchanges
  BY <1>4 DEF Exchanges, Steps
<1>6. api \in [Attempt -> Exchanges]
  BY DEF TypeOK
<1>7. /\ [api EXCEPT ![a].step = x, ![a].leaked = y] = [api EXCEPT ![a] = r]
      /\ [api EXCEPT ![a].leaked = y, ![a].step = x] = [api EXCEPT ![a] = t]
  BY <1>6
<1>8. api' = [api EXCEPT ![a] = r]
  BY <1>3, <1>7
<1> HIDE DEF r, t
<1> QED BY <1>4, <1>5, <1>6, <1>8

\* An attempt goes on without an Item it has in hand, or gives up.
LEMMA OneAttempt ==
    ASSUME TypeOK, NEW a \in Attempt, \A b \in Attempt \ {a} : api'[b] = api[b],
           ~Exchanged(a)' \/ Exchanged(a),
           Exchanged(a) \/ api[a].leaked => Exchanged(a)' \/ api'[a].leaked,
           Exchanged(a) \/ api[a].leaked => api'[a].token = api[a].token
    PROVE  HandsKept
BY DEF HandsKept, Exchanged

LEMMA ExchangeStep ==
    ASSUME LifecycleInv, Exchange
    PROVE  LifecycleInv' /\ SessionsStay
<1>1. /\ TypeOK /\ client \in Client /\ link \in Link /\ api \in [Attempt -> Exchanges]
      /\ UNCHANGED <<world, home, provider, worker, bounds>>
      /\ client.session \in Session /\ client.token \in Token
  BY ClientFields DEF LifecycleInv, Exchange, TypeOK
<1>2. CASE client' \in {Settled("done"), Settled("error")} /\ link' = link /\ api' = api
  <2>1. client' \in Client /\ client'.phase \in {"done", "error"}
    BY <1>1, <1>2, SettledIsClient
  <2>2. bounds' \in [crashes : Nat, losses : Nat, restarts : Nat]
    BY <1>1, ClientFields
  <2> QED BY <1>1, <1>2, <2>1, <2>2, ClientStep
<1>3. ASSUME Exchangeable(link.session[client.session], client.token),
             NEW a \in Attempt, api[a] = NoAttempt,
             api' = [api EXCEPT ![a] = [step |-> "calling", session |-> client.session,
                                        token |-> client.token, leaked |-> FALSE]],
             client' = [client EXCEPT !.attempt = a],
             link' = [link EXCEPT !.session[client.session].status = "exchanging",
                                  !.session[client.session].token = client.token,
                                  !.session[client.session].recent = TRUE]
      PROVE  LifecycleInv' /\ SessionsStay
  <2> DEFINE s == client.session
             x == [link.session[s] EXCEPT !.status = "exchanging"]
             y == [x EXCEPT !.token = client.token]
             z == [y EXCEPT !.recent = TRUE]
  <2>1. link.session[s] \in LinkSession /\ client.token \in Item
    BY <1>1, LinkFields, Numbers
  <2>2. z \in LinkSession /\ z.status = "exchanging"
    <3>1. x \in LinkSession /\ x.status = "exchanging"
      BY <2>1 DEF LinkSession
    <3> HIDE DEF x
    <3>2. y \in LinkSession /\ y.status = "exchanging"
      BY <2>1, <3>1 DEF LinkSession
    <3> HIDE DEF y
    <3> QED BY <3>2 DEF LinkSession
  <2>3. link' = [link EXCEPT !.session[s] = z]
    <3>1. link.session \in [Session -> LinkSession] /\ s \in Session
      BY <1>1, LinkFields
    <3>2. [[[link.session EXCEPT ![s] = x] EXCEPT ![s] = y] EXCEPT ![s] = z] = [link.session EXCEPT ![s] = z]
      <4> HIDE DEF x, y, z
      <4> QED BY <3>1
    <3>3. [link.session EXCEPT ![s] = x][s] = x
      <4> HIDE DEF x
      <4> QED BY <3>1
    <3>4. [[link.session EXCEPT ![s] = x] EXCEPT ![s] = y][s] = y
      <4> HIDE DEF x, y
      <4> QED BY <3>1
    <3>5. link' = [link EXCEPT !.session = [[[@ EXCEPT ![s] = x] EXCEPT ![s] = y] EXCEPT ![s] = z]]
      <4>1. link' = [[[link EXCEPT !.session[s] = x] EXCEPT !.session[s].token = client.token]
                      EXCEPT !.session[s].recent = TRUE]
        BY <1>3
      <4>2. [[link EXCEPT !.session[s] = x] EXCEPT !.session[s].token = client.token] =
            [link EXCEPT !.session = [[@ EXCEPT ![s] = x] EXCEPT ![s] = y]]
        <5> HIDE DEF x
        <5> QED BY <1>1, <3>1, <3>3 DEF Link
      <4>3. [[link EXCEPT !.session = [[@ EXCEPT ![s] = x] EXCEPT ![s] = y]]
              EXCEPT !.session[s].recent = TRUE] =
            [link EXCEPT !.session = [[[@ EXCEPT ![s] = x] EXCEPT ![s] = y] EXCEPT ![s] = z]]
        <5> HIDE DEF x, y
        <5> QED BY <1>1, <3>1, <3>4 DEF Link
      <4> QED BY <4>1, <4>2, <4>3
    <3> HIDE DEF x, y, z
    <3> QED BY <1>1, <3>2, <3>5 DEF Link
  <2> HIDE DEF x, y, z
  <2>4. /\ link' \in Link /\ link'.session[s] = z /\ link'.connection = link.connection
        /\ \A o \in Session \ {s} : link'.session[o] = link.session[o]
    BY <1>1, <2>2, <2>3, SetSession
  <2>5. client' \in Client /\ client'.phase = client.phase /\ client'.session = s
           /\ client'.token = client.token
    <3>1. a \in 0 .. MaxAttempts
      BY Numbers DEF Attempt
    <3> QED BY <1>1, <1>3, <3>1 DEF Client
  <2>6. /\ api' \in [Attempt -> Exchanges] /\ api'[a].step = "calling"
        /\ \A b \in Attempt \ {a} : api'[b] = api[b]
    <3> DEFINE r == [step |-> "calling", session |-> client.session,
                     token |-> client.token, leaked |-> FALSE]
    <3>1. r \in Exchanges /\ r.step = "calling"
      BY <1>1 DEF Exchanges
    <3>2. api' = [api EXCEPT ![a] = r]
      BY <1>3
    <3> HIDE DEF r
    <3> QED BY <1>1, <3>1, <3>2
  <2>7. TypeOK'
    BY <1>1, <2>4, <2>5, <2>6 DEF TypeOK
  <2>8. link.session[s].status \notin {"completed", "failed"}
    BY <1>3 DEF Exchangeable
  <2>9. Withdrawn /\ CompletedStay /\ SessionsStay
    BY <1>1, <2>2, <2>4, <2>8, OneSession
  <2>10. HandsKept
    <3>1. ~Exchanged(a) /\ ~api[a].leaked /\ ~Exchanged(a)'
      BY <1>1, <1>3, <2>6, AttemptFields DEF Exchanged
    <3> QED BY <1>1, <2>6, <3>1, OneAttempt
  <2>11. HomeKept /\ ItemsKept
    BY <1>1, SameHome, SameProvider
  <2>12. LifecycleInv'
    BY <2>7, <2>9, <2>10, <2>11, QuietStep
  <2> QED BY <2>9, <2>12
<1> QED BY <1>2, <1>3 DEF Exchange

\* An attempt goes on in a step that changes neither the household nor a link
\* nor an Item.
LEMMA QuietAttempt ==
    ASSUME LifecycleInv, UNCHANGED <<world, home, link, provider, worker, client>>,
           bounds' \in [crashes : Nat, losses : Nat, restarts : Nat],
           api' \in [Attempt -> Exchanges], HandsKept
    PROVE  LifecycleInv' /\ SessionsStay
<1>1. TypeOK'
  BY DEF LifecycleInv, TypeOK
<1>2. Withdrawn /\ CompletedStay /\ SessionsStay /\ HomeKept /\ ItemsKept
  BY SameHome, SameLink, SameProvider
<1>3. LifecycleInv'
  BY <1>1, <1>2, QuietStep
<1> QED BY <1>2, <1>3

\* The Item of a public token is handed to the attempt that exchanged it.
LEMMA ItemIsHanded ==
    ASSUME LifecycleInv, NEW a \in Attempt, api[a].step = "calling",
           UNCHANGED <<world, home, link, worker, client>>,
           bounds' \in [crashes : Nat, losses : Nat, restarts : Nat],
           provider.item[api[a].token] = "issued",
           provider' = [provider EXCEPT !.item[api[a].token] = "present"],
           api' \in [Attempt -> Exchanges], api'[a].token = api[a].token,
           \A b \in Attempt \ {a} : api'[b] = api[b],
           Exchanged(a)' \/ api'[a].leaked
    PROVE  LifecycleInv' /\ SessionsStay
<1> DEFINE t == api[a].token
<1>1. TypeOK /\ provider \in Provider /\ provider.item \in [Item -> Items] /\ t \in Item
  BY AttemptFields, ProviderFields DEF LifecycleInv, TypeOK
<1>2. provider' \in Provider /\ provider'.item = [provider.item EXCEPT ![t] = "present"]
  BY <1>1, SetItem DEF Items
<1>3. TypeOK'
  BY <1>1, <1>2 DEF TypeOK
<1>4. Withdrawn /\ CompletedStay /\ SessionsStay /\ HomeKept
  BY SameHome, SameLink
<1>5. DeletionsGoOn' /\ OwnersHandOver' /\ ConnectionsHaveOneSession'
  BY <1>1, <1>4, DeletionsStand, OwnersStand, SessionsStand DEF LifecycleInv
<1>6. link.connection[t] = "none"
  <2>1. link.connection[t] \in Connections
    BY <1>1, LinkFields DEF TypeOK
  <2> QED BY <1>1, <2>1 DEF LifecycleInv, ItemsHaveOneHolder, Connections
<1>7. \A b \in Attempt : Exchanged(b) =>
         /\ provider.item[api[b].token] = "present" /\ link.connection[api[b].token] = "none"
         /\ api[b].token # t /\ b # a /\ api[b].token \in Item
         /\ \A c \in Attempt : Exchanged(c) /\ api[c].token = api[b].token => c = b
  BY <1>1, AttemptFields DEF LifecycleInv, ItemsHaveOneHolder, Exchanged
<1>8. \A b \in Attempt \ {a} : (Exchanged(b)' <=> Exchanged(b)) /\ api'[b].token = api[b].token
  BY DEF Exchanged
<1>9. ASSUME NEW b \in Attempt, Exchanged(b)'
      PROVE  /\ provider'.item[api'[b].token] = "present" /\ link'.connection[api'[b].token] = "none"
             /\ \A c \in Attempt : Exchanged(c)' /\ api'[c].token = api'[b].token => c = b
  <2>1. CASE b = a
    BY <1>1, <1>2, <1>6, <1>7, <1>8, <2>1
  <2>2. CASE b # a
    BY <1>1, <1>2, <1>7, <1>8, <1>9, <2>2
  <2> QED BY <2>1, <2>2
<1>10. \A i \in Item : Unaccounted(i) \/ i = t => Unaccounted(i)'
  <2>1. ~Exchanged(a)
    BY DEF Exchanged
  <2>2. Unaccounted(t)'
    BY DEF Unaccounted, Exchanged
  <2> QED BY <2>1, <2>2 DEF Unaccounted, Exchanged
<1>11. \A i \in Item :
         /\ link'.connection[i] \in InUse => provider'.item[i] = "present"
         /\ link'.connection[i] \in {"pending", "failed"} =>
               provider'.item[i] \in {"present", "removed"}
         /\ link'.connection[i] \in {"revoked", "erased"} => provider'.item[i] = "removed"
         /\ provider'.item[i] = "present" =>
               link'.connection[i] \in Linked \/ Unaccounted(i)'
  BY <1>1, <1>2, <1>6, <1>10 DEF LifecycleInv, ItemsHaveOneHolder
<1>12. ItemsHaveOneHolder'
  BY <1>9, <1>11 DEF ItemsHaveOneHolder
<1> QED BY <1>3, <1>4, <1>5, <1>12 DEF LifecycleInv

LEMMA ExchangePublicTokenStep ==
    ASSUME LifecycleInv, NEW a \in Attempt, ExchangePublicToken(a)
    PROVE  LifecycleInv' /\ SessionsStay
<1>1. /\ TypeOK /\ api[a].step = "calling" /\ UNCHANGED <<world, home, link, worker, client>>
      /\ bounds \in [crashes : Nat, losses : Nat, restarts : Nat]
      /\ api[a].step \in Steps /\ {"exchanged", "marking"} \subseteq Steps /\ TRUE \in BOOLEAN
  BY DEF LifecycleInv, TypeOK, ExchangePublicToken, Steps
<1>2. CASE /\ provider.item[api[a].token] = "issued"
           /\ provider' = [provider EXCEPT !.item[api[a].token] = "present"]
           /\ api' = [api EXCEPT ![a].step = "exchanged"] /\ bounds' = bounds
  <2>1. /\ api' \in [Attempt -> Exchanges] /\ api'[a].step = "exchanged"
        /\ api'[a].token = api[a].token
        /\ \A b \in Attempt \ {a} : api'[b] = api[b]
    BY <1>1, <1>2, SetStep
  <2>2. Exchanged(a)'
    BY <2>1 DEF Exchanged
  <2> QED BY <1>1, <1>2, <2>1, <2>2, ItemIsHanded
<1>3. CASE /\ provider.item[api[a].token] = "issued"
           /\ provider' = [provider EXCEPT !.item[api[a].token] = "present"]
           /\ bounds' = [bounds EXCEPT !.losses = @ + 1]
           /\ api' = [api EXCEPT ![a].step = "marking", ![a].leaked = TRUE]
  <2>1. /\ api' \in [Attempt -> Exchanges] /\ api'[a].leaked
        /\ api'[a].token = api[a].token
        /\ \A b \in Attempt \ {a} : api'[b] = api[b]
    BY <1>1, <1>3, SetLeaked
  <2>2. bounds' \in [crashes : Nat, losses : Nat, restarts : Nat]
    BY <1>1, <1>3
  <2> QED BY <1>1, <1>3, <2>1, <2>2, ItemIsHanded
<1>4. CASE api' = [api EXCEPT ![a].step = "marking"] /\ UNCHANGED <<provider, bounds>>
  <2>1. /\ api' \in [Attempt -> Exchanges] /\ api'[a].step = "marking"
        /\ api'[a].token = api[a].token /\ api'[a].leaked = api[a].leaked
        /\ \A b \in Attempt \ {a} : api'[b] = api[b]
    BY <1>1, <1>4, SetStep
  <2>2. HandsKept
    <3>1. ~Exchanged(a) /\ ~Exchanged(a)'
      BY <1>1, <2>1 DEF Exchanged
    <3> QED BY <1>1, <2>1, <3>1, OneAttempt
  <2> QED BY <1>1, <1>4, <2>1, <2>2, QuietAttempt
<1> QED BY <1>2, <1>3, <1>4 DEF ExchangePublicToken

LEMMA MarkSessionFailedStep ==
    ASSUME LifecycleInv, NEW a \in Attempt, MarkSessionFailed(a)
    PROVE  LifecycleInv' /\ SessionsStay
<1> DEFINE s == api[a].session
<1>1. /\ TypeOK /\ link \in Link /\ api[a].step = "marking" /\ api[a].step \in Steps /\ "failed" \in Steps
      /\ UNCHANGED <<world, home, provider, worker, client, bounds>>
      /\ bounds \in [crashes : Nat, losses : Nat, restarts : Nat]
  BY DEF LifecycleInv, TypeOK, MarkSessionFailed, Steps
<1>2. /\ s \in Session /\ link.session[s] \in LinkSession
      /\ link.session \in [Session -> LinkSession]
  BY <1>1, AttemptFields, LinkFields
<1>3. HandsKept /\ api' \in [Attempt -> Exchanges]
  <2>1. /\ api' \in [Attempt -> Exchanges] /\ api'[a].step = "failed"
        /\ api'[a].token = api[a].token /\ api'[a].leaked = api[a].leaked
        /\ \A b \in Attempt \ {a} : api'[b] = api[b]
    BY <1>1, SetStep DEF MarkSessionFailed
  <2>2. ~Exchanged(a) /\ ~Exchanged(a)'
    BY <1>1, <2>1 DEF Exchanged
  <2> QED BY <1>1, <2>1, <2>2, OneAttempt
<1>4. CASE link' = link
  BY <1>1, <1>3, <1>4, QuietAttempt
<1>5. CASE link' = [link EXCEPT !.session[s] = MarkedFailed(@)]
  <2> DEFINE x == MarkedFailed(link.session[s])
  <2>1. \/ x = link.session[s]
        \/ /\ x \in LinkSession /\ x.status = "failed"
           /\ link.session[s].status \in {"created", "exchanging", "failed"}
    <3> DEFINE y == [link.session[s] EXCEPT !.status = "failed"]
    <3>1. y \in LinkSession /\ y.status = "failed"
      BY <1>2 DEF LinkSession
    <3>2. x \in {link.session[s], [y EXCEPT !.recent = FALSE]}
      BY DEF MarkedFailed
    <3>3. x = link.session[s] \/ link.session[s].status \in {"created", "exchanging", "failed"}
      BY DEF MarkedFailed
    <3> HIDE DEF x, y
    <3>4. [y EXCEPT !.recent = FALSE] \in LinkSession /\ [y EXCEPT !.recent = FALSE].status = "failed"
      BY <3>1 DEF LinkSession
    <3> QED BY <3>2, <3>3, <3>4
  <2>2. link' = [link EXCEPT !.session[s] = x]
    BY <1>5
  <2> HIDE DEF x
  <2>3. CASE x = link.session[s]
    <3>1. link' = link
      BY <1>1, <1>2, <2>2, <2>3 DEF Link
    <3> QED BY <1>4, <3>1
  <2>4. CASE /\ x \in LinkSession /\ x.status = "failed"
             /\ link.session[s].status \in {"created", "exchanging", "failed"}
    <3>1. /\ link' \in Link /\ link'.session[s] = x /\ link'.connection = link.connection
          /\ \A o \in Session \ {s} : link'.session[o] = link.session[o]
      BY <1>1, <1>2, <2>2, <2>4, SetSession
    <3>2. Withdrawn /\ CompletedStay /\ SessionsStay
      BY <1>1, <1>2, <2>4, <3>1, OneSession
    <3>3. TypeOK'
      BY <1>1, <1>3, <3>1 DEF TypeOK
    <3>4. HomeKept /\ ItemsKept
      BY <1>1, SameHome, SameProvider
    <3>5. LifecycleInv'
      BY <1>3, <3>2, <3>3, <3>4, QuietStep
    <3> QED BY <3>2, <3>5
  <2> QED BY <2>1, <2>3, <2>4
<1> QED BY <1>4, <1>5 DEF MarkSessionFailed

LEMMA ApiStopsStep ==
    ASSUME LifecycleInv, NEW a \in Attempt, ApiStops(a)
    PROVE  LifecycleInv' /\ SessionsStay
<1> DEFINE y == api[a].leaked \/ api[a].step \in {"exchanged", "compensating"}
<1>1. /\ TypeOK /\ api[a].step \in Steps /\ "failed" \in Steps /\ y \in BOOLEAN
      /\ UNCHANGED <<world, home, link, provider, worker, client>>
      /\ bounds \in [crashes : Nat, losses : Nat, restarts : Nat]
  BY AttemptFields DEF LifecycleInv, TypeOK, ApiStops, Steps
<1>2. bounds' \in [crashes : Nat, losses : Nat, restarts : Nat]
  BY <1>1 DEF ApiStops, Stopped
<1>3. api' = [api EXCEPT ![a].leaked = y, ![a].step = "failed"]
  BY DEF ApiStops
<1>4. y <=> (api[a].leaked \/ Exchanged(a))
  BY DEF Exchanged
<1> HIDE DEF y
<1>5. /\ api' \in [Attempt -> Exchanges] /\ api'[a].step = "failed"
      /\ api'[a].token = api[a].token /\ api'[a].leaked = y
      /\ \A b \in Attempt \ {a} : api'[b] = api[b]
  BY <1>1, <1>3, SetLeaked
<1>6. ~Exchanged(a)'
  BY <1>5 DEF Exchanged
<1>7. HandsKept
  BY <1>1, <1>4, <1>5, <1>6, OneAttempt
<1> QED BY <1>1, <1>2, <1>5, <1>7, QuietAttempt

\* An Item leaves the hands of its attempt, for a connection or to be removed.
LEMMA OtherHands ==
    ASSUME LifecycleInv, NEW a \in Attempt, Exchanged(a), ~Exchanged(a)',
           \A b \in Attempt \ {a} : api'[b] = api[b],
           \A i \in Item \ {api[a].token} :
              link'.connection[i] = link.connection[i] /\ provider'.item[i] = provider.item[i],
           provider'.item[api[a].token] # "present"
              \/ link'.connection[api[a].token] \in Linked,
           link'.connection[api[a].token] \in Linked =>
              provider'.item[api[a].token] = "present",
           link'.connection[api[a].token] \notin {"revoked", "erased"}
    PROVE  ItemsHaveOneHolder'
<1> DEFINE t == api[a].token
<1>1. \A b \in Attempt \ {a} : (Exchanged(b)' <=> Exchanged(b)) /\ api'[b].token = api[b].token
  BY DEF Exchanged
<1>2. \A b \in Attempt : api[b].token \in Item
  BY AttemptFields DEF LifecycleInv
<1>3. \A b \in Attempt : Exchanged(b) =>
         /\ provider.item[api[b].token] = "present" /\ link.connection[api[b].token] = "none"
         /\ \A c \in Attempt : Exchanged(c) /\ api[c].token = api[b].token => c = b
  BY DEF LifecycleInv, ItemsHaveOneHolder
<1>4. ASSUME NEW b \in Attempt, Exchanged(b)'
      PROVE  /\ provider'.item[api'[b].token] = "present" /\ link'.connection[api'[b].token] = "none"
             /\ \A c \in Attempt : Exchanged(c)' /\ api'[c].token = api'[b].token => c = b
  <2>1. b # a /\ Exchanged(b) /\ api'[b].token = api[b].token
    BY <1>1, <1>4
  <2>2. api[b].token # t
    BY <1>3, <2>1
  <2>3. provider'.item[api[b].token] = "present" /\ link'.connection[api[b].token] = "none"
    BY <1>2, <1>3, <2>1, <2>2
  <2>4. \A c \in Attempt : Exchanged(c)' => Exchanged(c) /\ api'[c].token = api[c].token
    BY <1>1
  <2> QED BY <1>3, <2>1, <2>3, <2>4
<1>5. \A i \in Item \ {t} : Unaccounted(i) => Unaccounted(i)'
  BY DEF Unaccounted, Exchanged
<1>6. ASSUME NEW i \in Item
      PROVE  /\ link'.connection[i] \in InUse => provider'.item[i] = "present"
             /\ link'.connection[i] \in {"pending", "failed"} =>
                   provider'.item[i] \in {"present", "removed"}
             /\ link'.connection[i] \in {"revoked", "erased"} => provider'.item[i] = "removed"
             /\ provider'.item[i] = "present" =>
                   link'.connection[i] \in Linked \/ Unaccounted(i)'
  <2>1. CASE i = t
    BY <2>1
  <2>2. CASE i # t
    BY <1>5, <2>2 DEF LifecycleInv, ItemsHaveOneHolder
  <2> QED BY <2>1, <2>2
<1> QED BY <1>4, <1>6 DEF ItemsHaveOneHolder

LEMMA StoreStep ==
    ASSUME LifecycleInv, NEW a \in Attempt, Store(a)
    PROVE  LifecycleInv' /\ SessionsStay
<1> DEFINE s == api[a].session
           t == api[a].token
<1>1. /\ TypeOK /\ link \in Link /\ api[a].step = "exchanged" /\ api[a].step \in Steps
      /\ {"succeeded", "compensating"} \subseteq Steps
      /\ UNCHANGED <<world, home, provider, worker, client, bounds>>
      /\ bounds \in [crashes : Nat, losses : Nat, restarts : Nat]
  BY DEF LifecycleInv, TypeOK, Store, Steps
<1>2. /\ s \in Session /\ t \in Token /\ t \in Item /\ link.session[s] \in LinkSession
      /\ link.session \in [Session -> LinkSession] /\ link.connection \in [Item -> Connections]
  BY <1>1, AttemptFields, LinkFields
<1>3. Exchanged(a) /\ provider.item[t] = "present" /\ link.connection[t] = "none"
  BY <1>1 DEF Exchanged, LifecycleInv, ItemsHaveOneHolder
<1>4. CASE api' = [api EXCEPT ![a].step = "compensating"] /\ link' = link
  <2>1. /\ api' \in [Attempt -> Exchanges] /\ api'[a].step = "compensating"
        /\ api'[a].token = t /\ \A b \in Attempt \ {a} : api'[b] = api[b]
    BY <1>1, <1>4, SetStep
  <2>2. Exchanged(a)'
    BY <2>1 DEF Exchanged
  <2>3. HandsKept
    BY <1>1, <1>3, <2>1, <2>2, OneAttempt
  <2> QED BY <1>1, <1>4, <2>1, <2>3, QuietAttempt
<1>5. CASE /\ Storable(link.session[s], t)
           /\ link' = [link EXCEPT !.connection[t] = "live",
                                   !.session[s].status = "completed",
                                   !.session[s].recent = FALSE]
           /\ api' = [api EXCEPT ![a].step = "succeeded"]
  <2>1. /\ api' \in [Attempt -> Exchanges] /\ api'[a].step = "succeeded"
        /\ \A b \in Attempt \ {a} : api'[b] = api[b]
    BY <1>1, <1>5, SetStep
  <2>2. home.lifecycle = "active" /\ link.session[s].status = "exchanging" /\ link.session[s].token = t
    BY <1>5 DEF Storable, Active
  <2> DEFINE m == [link EXCEPT !.connection[t] = "live"]
             x == [link.session[s] EXCEPT !.status = "completed"]
             y == [x EXCEPT !.recent = FALSE]
             n == [m EXCEPT !.session[s] = x]
  <2>3. /\ m \in Link /\ m.session = link.session
        /\ m.connection = [link.connection EXCEPT ![t] = "live"]
    <3>1. "live" \in Connections
      BY DEF Connections
    <3> QED BY <1>1, <1>2, <3>1, SetConnection
  <2>4. link' = [[m EXCEPT !.session[s].status = "completed"] EXCEPT !.session[s].recent = FALSE]
    BY <1>5
  <2> HIDE DEF m
  <2>5. x \in LinkSession /\ x.status = "completed" /\ x.token = t
    BY <1>2, <2>2 DEF LinkSession
  <2>6. y \in LinkSession /\ y.status = "completed" /\ y.token = t
    <3> HIDE DEF x
    <3> QED BY <2>5 DEF LinkSession
  <2>7. n \in Link /\ n.session[s] = x /\ n.connection = m.connection
           /\ \A o \in Session \ {s} : n.session[o] = link.session[o]
    <3> HIDE DEF x
    <3> QED BY <1>2, <2>3, <2>5, SetSession
  <2>8. [m EXCEPT !.session[s].status = "completed"] = n
    BY <2>3
  <2>9. link' = [n EXCEPT !.session[s] = y]
    <3> HIDE DEF x, n
    <3> QED BY <2>4, <2>7, <2>8
  <2> HIDE DEF x, y, n
  <2>10. /\ link' \in Link /\ link'.session[s] = y /\ link'.connection = m.connection
         /\ \A o \in Session \ {s} : link'.session[o] = n.session[o]
    BY <1>2, <2>6, <2>7, <2>9, SetSession
  <2>11. TypeOK'
    BY <1>1, <2>1, <2>10 DEF TypeOK
  <2>12. DeletionsGoOn' /\ OwnersHandOver'
    <3>1. HomeKept
      BY <1>1, SameHome
    <3>2. OwnersHandOver'
      BY <3>1, OwnersStand DEF LifecycleInv
    <3>3. DeletionsGoOn'
      BY <2>2, <3>1 DEF LifecycleInv, DeletionsGoOn, HomeKept
    <3> QED BY <3>2, <3>3
  <2>13. ItemsHaveOneHolder'
    <3>1. ~Exchanged(a)'
      BY <2>1 DEF Exchanged
    <3>2. link'.connection[t] = "live"
      BY <1>2, <2>3, <2>10
    <3>3. \A i \in Item \ {t} :
             link'.connection[i] = link.connection[i] /\ provider'.item[i] = provider.item[i]
      BY <1>1, <1>2, <2>3, <2>10
    <3>4. provider'.item[t] = "present"
      BY <1>1, <1>3
    <3> QED BY <1>3, <2>1, <3>1, <3>2, <3>3, <3>4, OtherHands
  <2>14. ConnectionsHaveOneSession'
    <3>1. Completed(t) = {}
      BY <1>2, <1>3 DEF LifecycleInv, ConnectionsHaveOneSession
    <3>2. link'.session[s].status = "completed" /\ link'.session[s].token = t
      BY <2>6, <2>10
    <3>3. \A o \in Session \ {s} : link'.session[o] = link.session[o]
      BY <2>7, <2>10
    <3>4. ASSUME NEW i \in Token, i = t
          PROVE  Completed(i)' = {s}
      <4>1. \A o \in Session \ {s} :
               ~(link.session[o].status = "completed" /\ link.session[o].token = i)
        BY <3>1, <3>4 DEF Completed
      <4> QED BY <1>2, <3>2, <3>3, <3>4, <4>1 DEF Completed
    <3>5. \A i \in Token \ {t} : Completed(i)' = Completed(i)
      BY <1>2, <2>2, <3>2, <3>3 DEF Completed
    <3>6. \A i \in Token \ {t} : link'.connection[i] = link.connection[i]
      BY <1>2, <2>3, <2>10, Numbers
    <3>7. link'.connection[t] = "live"
      BY <1>2, <2>3, <2>10
    <3>8. ASSUME NEW i \in Token
          PROVE  /\ link'.connection[i] = "none" => Completed(i)' = {}
                 /\ link'.connection[i] \in Linked \cup {"revoked"} =>
                       \E o \in Session : Completed(i)' = {o}
      <4>1. CASE i = t
        BY <1>2, <3>4, <3>7, <4>1
      <4>2. CASE i # t
        BY <3>5, <3>6, <4>2 DEF LifecycleInv, ConnectionsHaveOneSession
      <4> QED BY <4>1, <4>2
    <3> QED BY <3>8 DEF ConnectionsHaveOneSession
  <2>15. SessionsStay
    <3>1. \A o \in Session \ {s} : link'.session[o] = link.session[o]
      BY <2>7, <2>10
    <3> QED BY <2>2, <3>1 DEF SessionsStay
  <2> QED BY <2>11, <2>12, <2>13, <2>14, <2>15 DEF LifecycleInv
<1> QED BY <1>4, <1>5 DEF Store

LEMMA CompensateStep ==
    ASSUME LifecycleInv, NEW a \in Attempt, Compensate(a)
    PROVE  LifecycleInv' /\ SessionsStay
<1> DEFINE t == api[a].token
<1>1. /\ TypeOK /\ api[a].step = "compensating" /\ api[a].step \in Steps
      /\ "marking" \in Steps /\ TRUE \in BOOLEAN
      /\ UNCHANGED <<world, home, link, worker, client, bounds>>
      /\ bounds \in [crashes : Nat, losses : Nat, restarts : Nat] /\ provider \in Provider
  BY DEF LifecycleInv, TypeOK, Compensate, Steps
<1>2. Exchanged(a) /\ t \in Item /\ provider.item \in [Item -> Items]
  BY <1>1, AttemptFields, ProviderFields DEF Exchanged
<1>3. CASE /\ provider' = [provider EXCEPT !.item[t] = "removed"]
           /\ api' = [api EXCEPT ![a].step = "marking"]
  <2>1. /\ api' \in [Attempt -> Exchanges] /\ api'[a].step = "marking"
        /\ \A b \in Attempt \ {a} : api'[b] = api[b]
    BY <1>1, <1>3, SetStep
  <2>2. provider' \in Provider /\ provider'.item = [provider.item EXCEPT ![t] = "removed"]
    BY <1>1, <1>2, <1>3, SetItem DEF Items
  <2>3. TypeOK'
    BY <1>1, <2>1, <2>2 DEF TypeOK
  <2>4. Withdrawn /\ CompletedStay /\ SessionsStay /\ HomeKept
    BY <1>1, SameHome, SameLink
  <2>5. DeletionsGoOn' /\ OwnersHandOver' /\ ConnectionsHaveOneSession'
    BY <1>1, <2>4, DeletionsStand, OwnersStand, SessionsStand DEF LifecycleInv
  <2>6. ItemsHaveOneHolder'
    <3>1. ~Exchanged(a)'
      BY <2>1 DEF Exchanged
    <3>2. link'.connection[t] = "none"
      BY <1>1, <1>2 DEF LifecycleInv, ItemsHaveOneHolder
    <3>3. provider'.item[t] = "removed"
      BY <1>2, <2>2
    <3>4. \A i \in Item \ {t} :
             link'.connection[i] = link.connection[i] /\ provider'.item[i] = provider.item[i]
      BY <1>1, <1>2, <2>2
    <3> QED BY <1>2, <2>1, <3>1, <3>2, <3>3, <3>4, OtherHands
  <2> QED BY <2>3, <2>4, <2>5, <2>6 DEF LifecycleInv
<1>4. CASE /\ api' = [api EXCEPT ![a].step = "marking", ![a].leaked = TRUE]
           /\ provider' = provider
  <2>1. /\ api' \in [Attempt -> Exchanges] /\ api'[a].step = "marking"
        /\ api'[a].leaked /\ api'[a].token = t /\ \A b \in Attempt \ {a} : api'[b] = api[b]
    BY <1>1, <1>4, SetLeaked
  <2>2. HandsKept
    <3>1. ~Exchanged(a)'
      BY <2>1 DEF Exchanged
    <3> QED BY <1>1, <2>1, <3>1, OneAttempt
  <2> QED BY <1>1, <1>4, <2>1, <2>2, QuietAttempt
<1> QED BY <1>3, <1>4 DEF Compensate

------------------------------------------------------------------------------
(* Disconnecting and revoking.                                             *)

LEMMA DisconnectStep ==
    ASSUME LifecycleInv, NEW u \in Member, NEW i \in Item, Disconnect(u, i)
    PROVE  LifecycleInv' /\ SessionsStay
<1>1. /\ TypeOK /\ link \in Link /\ link.connection[i] \in Linked
      /\ link' = [link EXCEPT !.connection[i] = "pending"] /\ "pending" \in Connections
      /\ UNCHANGED <<world, home, provider, api, worker, client, bounds>>
  BY DEF LifecycleInv, TypeOK, Disconnect, Connections
<1>2. link.connection \in [Item -> Connections]
  BY <1>1, LinkFields
<1>3. /\ link' \in Link /\ link'.session = link.session
      /\ link'.connection = [link.connection EXCEPT ![i] = "pending"]
  BY <1>1, SetConnection
<1>4. TypeOK'
  BY <1>1, <1>3 DEF TypeOK
<1>5. Withdrawn
  BY <1>1, <1>2, <1>3 DEF Withdrawn
<1>6. CompletedStay /\ SessionsStay
  BY <1>3 DEF CompletedStay, SessionsStay
<1>7. HomeKept /\ ItemsKept /\ HandsKept
  BY <1>1, SameHome, SameProvider, SameApi
<1>8. LifecycleInv'
  BY <1>4, <1>5, <1>6, <1>7, QuietStep
<1> QED BY <1>6, <1>8

\* The revocation of an Item ends, one way or the other.
LEMMA RevocationEnds ==
    ASSUME LifecycleInv, NEW i \in Item, link.connection[i] = "pending",
           \E u \in Member : home.here[u],
           NEW x \in {"revoked", "failed", "locked"},
           link' = [link EXCEPT !.connection[i] = x],
           NEW y \in {"present", "removed"}, provider' \in Provider,
           provider'.item = [provider.item EXCEPT ![i] = y],
           x = "revoked" => y = "removed", x = "locked" => y = "present",
           UNCHANGED <<world, home, api, worker, client, bounds>>
    PROVE  LifecycleInv' /\ SessionsStay
<1>1. TypeOK /\ link \in Link /\ provider \in Provider /\ x \in Connections
  BY DEF LifecycleInv, TypeOK, Connections
<1>2. link.connection \in [Item -> Connections] /\ provider.item \in [Item -> Items]
  BY <1>1, LinkFields, ProviderFields
<1>3. /\ link' \in Link /\ link'.session = link.session
      /\ link'.connection = [link.connection EXCEPT ![i] = x]
  BY <1>1, SetConnection
<1>4. provider' \in Provider /\ provider'.item = [provider.item EXCEPT ![i] = y]
  OBVIOUS
<1>5. TypeOK'
  BY <1>1, <1>3, <1>4 DEF TypeOK
<1>6. HomeKept /\ HandsKept
  BY <1>1, SameHome, SameApi
<1>7. OwnersHandOver'
  BY <1>6, OwnersStand DEF LifecycleInv
<1>8. DeletionsGoOn'
  BY <1>1, <1>6 DEF LifecycleInv, DeletionsGoOn, HomeKept
<1>9. CompletedStay /\ SessionsStay
  BY <1>3 DEF CompletedStay, SessionsStay
<1>10. ConnectionsHaveOneSession'
  <2>1. \A j : Completed(j)' = Completed(j)
    BY <1>3 DEF Completed
  <2>2. \A j \in Token : \/ link'.connection[j] = link.connection[j]
                         \/ link'.connection[j] = x /\ link.connection[j] = "pending"
    BY <1>1, <1>2, <1>3, Numbers
  <2>3. ASSUME NEW j \in Token
        PROVE  /\ link'.connection[j] = "none" => Completed(j)' = {}
               /\ link'.connection[j] \in Linked \cup {"revoked"} =>
                     \E s \in Session : Completed(j)' = {s}
    <3>1. /\ link.connection[j] = "none" => Completed(j) = {}
          /\ link.connection[j] \in Linked \cup {"revoked"} =>
                \E s \in Session : Completed(j) = {s}
      BY DEF LifecycleInv, ConnectionsHaveOneSession
    <3> QED BY <2>1, <2>2, <3>1
  <2> QED BY <2>3 DEF ConnectionsHaveOneSession
<1>11. ItemsHaveOneHolder'
  <2>1. \A a \in Attempt : (Exchanged(a)' <=> Exchanged(a)) /\ api'[a].token = api[a].token
    BY <1>1 DEF Exchanged
  <2>2. \A a \in Attempt : Exchanged(a) => api[a].token \in Item \ {i}
    BY <1>1, AttemptFields DEF LifecycleInv, ItemsHaveOneHolder
  <2>3. \A j \in Item \ {i} :
           link'.connection[j] = link.connection[j] /\ provider'.item[j] = provider.item[j]
    BY <1>2, <1>3, <1>4
  <2>4. link'.connection[i] = x /\ provider'.item[i] = y
    BY <1>2, <1>3, <1>4
  <2>5. \A j \in Item : Unaccounted(j)' <=> Unaccounted(j)
    BY <1>1 DEF Unaccounted
  <2>6. ASSUME NEW a \in Attempt, Exchanged(a)'
        PROVE  /\ provider'.item[api'[a].token] = "present" /\ link'.connection[api'[a].token] = "none"
               /\ \A b \in Attempt : Exchanged(b)' /\ api'[b].token = api'[a].token => b = a
    BY <2>1, <2>2, <2>3, <2>6 DEF LifecycleInv, ItemsHaveOneHolder
  <2>7. ASSUME NEW j \in Item
        PROVE  /\ link'.connection[j] \in InUse => provider'.item[j] = "present"
               /\ link'.connection[j] \in {"pending", "failed"} =>
                     provider'.item[j] \in {"present", "removed"}
               /\ link'.connection[j] \in {"revoked", "erased"} => provider'.item[j] = "removed"
               /\ provider'.item[j] = "present" =>
                     link'.connection[j] \in Linked \/ Unaccounted(j)'
    <3>1. CASE j = i
      BY <2>4, <3>1
    <3>2. CASE j # i
      BY <2>3, <2>5, <3>2 DEF LifecycleInv, ItemsHaveOneHolder
    <3> QED BY <3>1, <3>2
  <2> QED BY <2>6, <2>7 DEF ItemsHaveOneHolder
<1> QED BY <1>5, <1>7, <1>8, <1>9, <1>10, <1>11 DEF LifecycleInv

LEMMA RevokeStep ==
    ASSUME LifecycleInv, NEW i \in Item, Revoke(i) \/ RevocationFails(i)
    PROVE  LifecycleInv' /\ SessionsStay
<1>1. /\ provider \in Provider /\ "removed" \in Items /\ link.connection[i] = "pending"
      /\ \E u \in Member : home.here[u]
      /\ UNCHANGED <<world, home, api, worker, client, bounds>>
  BY DEF LifecycleInv, TypeOK, Revoke, RevocationFails, Items
<1>2. provider.item[i] \in {"present", "removed"} /\ provider.item \in [Item -> Items]
  BY <1>1, ProviderFields DEF LifecycleInv, ItemsHaveOneHolder
<1> DEFINE p == [provider EXCEPT !.item[i] = "removed"]
<1>3. p \in Provider /\ p.item = [provider.item EXCEPT ![i] = "removed"]
  BY <1>1, SetItem
<1>4. provider.item = [provider.item EXCEPT ![i] = provider.item[i]]
  BY <1>2
<1>5. /\ Revoke(i) => link' = [link EXCEPT !.connection[i] = "revoked"] /\ provider' = p
      /\ RevocationFails(i) =>
            \/ link' = [link EXCEPT !.connection[i] = "failed"] /\ provider' \in {provider, p}
            \/ /\ provider.item[i] = "present" /\ provider' = provider
               /\ link' = [link EXCEPT !.connection[i] = "locked"]
  BY DEF Revoke, RevocationFails
<1> HIDE DEF p
<1>6. CASE link' = [link EXCEPT !.connection[i] = "revoked"] /\ provider' = p
  BY <1>1, <1>3, <1>6, RevocationEnds
<1>7. CASE link' = [link EXCEPT !.connection[i] = "failed"] /\ provider' = p
  BY <1>1, <1>3, <1>7, RevocationEnds
<1>8. CASE link' = [link EXCEPT !.connection[i] = "failed"] /\ provider' = provider
  BY <1>1, <1>2, <1>4, <1>8, RevocationEnds
<1>9. CASE /\ provider.item[i] = "present" /\ provider' = provider
           /\ link' = [link EXCEPT !.connection[i] = "locked"]
  BY <1>1, <1>2, <1>4, <1>9, RevocationEnds
<1> QED BY <1>5, <1>6, <1>7, <1>8, <1>9

------------------------------------------------------------------------------
(* Members, Clerk and the workers.                                         *)

\* A step that touches no link and leaves the members and the owners.
LEMMA QuietDeletion ==
    ASSUME LifecycleInv, UNCHANGED <<world, link, api, client>>, HomeKept, home' \in Home,
           provider' \in Provider, provider'.item = provider.item,
           worker' \in [Workers -> Deletion],
           bounds' \in [crashes : Nat, losses : Nat, restarts : Nat]
    PROVE  LifecycleInv' /\ SessionsStay
<1>1. TypeOK'
  BY DEF LifecycleInv, TypeOK
<1>2. Withdrawn /\ CompletedStay /\ SessionsStay /\ HandsKept
  BY SameLink, SameApi
<1>3. ItemsKept
  BY DEF ItemsKept
<1>4. LifecycleInv'
  BY <1>1, <1>2, <1>3, QuietStep
<1> QED BY <1>2, <1>4

LEMMA WorkerFields ==
    ASSUME TypeOK, NEW w \in Workers
    PROVE  /\ worker[w].step \in {"claimed", "identity deleted"} =>
                 /\ worker[w].user \in Member
                 /\ worker[w] \in [user : Member, step : {"claimed", "identity deleted"}]
           /\ worker \in [Workers -> Deletion] /\ NoDeletion \in Deletion
           /\ [worker EXCEPT ![w] = NoDeletion] \in [Workers -> Deletion]
<1>1. worker \in [Workers -> Deletion] /\ NoDeletion \in Deletion
  BY DEF TypeOK, Deletion
<1>2. NoDeletion.step = "none"
  BY DEF NoDeletion
<1>3. worker[w] = NoDeletion \/ worker[w] \in [user : Member, step : {"claimed", "identity deleted"}]
  <2>1. worker[w] \in Deletion
    BY <1>1
  <2> QED BY <2>1 DEF Deletion
<1>4. ASSUME worker[w] \in [user : Member, step : {"claimed", "identity deleted"}]
      PROVE  worker[w].user \in Member
  BY <1>4
<1>5. [worker EXCEPT ![w] = NoDeletion] \in [Workers -> Deletion]
  BY <1>1
<1> QED BY <1>1, <1>2, <1>3, <1>4, <1>5

LEMMA IdentityStep ==
    ASSUME LifecycleInv,
           \/ \E u \in Member : RemoveIdentity(u)
           \/ \E w \in Workers : DeleteIdentity(w) \/ DeleteIdentityFails(w) \/ WorkerStops(w)
    PROVE  LifecycleInv' /\ SessionsStay
<1>1. /\ TypeOK /\ provider \in Provider /\ home \in Home /\ worker \in [Workers -> Deletion]
      /\ bounds \in [crashes : Nat, losses : Nat, restarts : Nat]
      /\ provider.identity \in [Member -> BOOLEAN]
  BY ProviderFields DEF LifecycleInv, TypeOK
<1>2. ASSUME NEW u \in Member, RemoveIdentity(u)
      PROVE  LifecycleInv' /\ SessionsStay
  <2>1. /\ provider' = [provider EXCEPT !.identity[u] = FALSE]
        /\ UNCHANGED <<world, home, link, api, worker, client, bounds>>
    BY <1>2 DEF RemoveIdentity
  <2>2. provider' \in Provider /\ provider'.item = provider.item /\ HomeKept
    BY <1>1, <2>1, SetIdentity, SameHome
  <2> QED BY <1>1, <2>1, <2>2, QuietDeletion
<1>3. ASSUME NEW w \in Workers, DeleteIdentity(w) \/ DeleteIdentityFails(w)
      PROVE  LifecycleInv' /\ SessionsStay
  <2> DEFINE u == worker[w].user
  <2>1. /\ worker[w].step = "claimed" /\ u \in Member
        /\ UNCHANGED <<world, home, link, api, client, bounds>>
    BY <1>1, <1>3, WorkerFields DEF DeleteIdentity, DeleteIdentityFails
  <2>2. \E x \in BOOLEAN : provider' = [provider EXCEPT !.identity[u] = x]
    <3>1. CASE DeleteIdentity(w)
      BY <3>1 DEF DeleteIdentity
    <3>2. CASE DeleteIdentityFails(w)
      <4>1. PICK gone \in BOOLEAN : provider' = [provider EXCEPT !.identity[u] = @ /\ ~gone]
        BY <3>2 DEF DeleteIdentityFails
      <4> QED BY <4>1
    <3> QED BY <1>3, <3>1, <3>2
  <2>3. provider' \in Provider /\ provider'.item = provider.item /\ HomeKept
    BY <1>1, <2>1, <2>2, SetIdentity, SameHome
  <2>4. worker' \in [Workers -> Deletion]
    <3>1. CASE DeleteIdentity(w)
      <4>1. worker[w] \in [user : Member, step : {"claimed", "identity deleted"}]
        BY <1>1, <2>1, WorkerFields
      <4>2. worker' = [worker EXCEPT ![w].step = "identity deleted"]
        BY <3>1 DEF DeleteIdentity
      <4> QED BY <1>1, <4>1, <4>2 DEF Deletion
    <3>2. CASE DeleteIdentityFails(w)
      BY <1>1, <3>2, WorkerFields DEF DeleteIdentityFails
    <3> QED BY <1>3, <3>1, <3>2
  <2> QED BY <1>1, <2>1, <2>3, <2>4, QuietDeletion
<1>4. ASSUME NEW w \in Workers, WorkerStops(w)
      PROVE  LifecycleInv' /\ SessionsStay
  <2>1. UNCHANGED <<world, home, link, provider, api, client>>
    BY <1>4 DEF WorkerStops
  <2>2. HomeKept
    BY <2>1, SameHome
  <2>3. worker' \in [Workers -> Deletion]
    BY <1>1, <1>4, WorkerFields DEF WorkerStops
  <2>4. bounds' \in [crashes : Nat, losses : Nat, restarts : Nat]
    BY <1>1, <1>4 DEF WorkerStops, Stopped
  <2> QED BY <1>1, <2>1, <2>2, <2>3, <2>4, QuietDeletion
<1> QED BY <1>2, <1>3, <1>4

\* A request that goes on is one that was made.
LEMMA GoesOn ==
    ASSUME TypeOK, NEW u \in Member, Pending(u), NEW x \in Deletions,
           home' = [home EXCEPT !.asked[u] = x]
    PROVE  HomeKept /\ home' \in Home
<1>1. home \in Home /\ home.asked \in [Member -> Deletions]
  BY HomeFields DEF TypeOK
<1>2. /\ home' \in Home /\ home'.lifecycle = home.lifecycle
      /\ home'.role = home.role /\ home'.here = home.here
      /\ home'.asked = [home.asked EXCEPT ![u] = x]
  BY <1>1, SetAsked
<1>3. \A v \in Member : Pending(v)' => Pending(v)
  BY <1>1, <1>2 DEF Pending
<1> QED BY <1>2, <1>3 DEF HomeKept

LEMMA ClaimStep ==
    ASSUME LifecycleInv, NEW w \in Workers, Claim(w)
    PROVE  LifecycleInv' /\ SessionsStay
<1>1. /\ TypeOK /\ home.order \in Seq(Member) /\ worker \in [Workers -> Deletion]
      /\ bounds \in [crashes : Nat, losses : Nat, restarts : Nat] /\ provider \in Provider
      /\ UNCHANGED <<world, link, provider, api, client, bounds>>
  BY HomeFields DEF LifecycleInv, TypeOK, Claim
<1>2. PICK i \in DOMAIN home.order :
         /\ Claimable(home.order[i])
         /\ home' = [home EXCEPT !.asked[home.order[i]] = "finalizing"]
         /\ worker' = [worker EXCEPT ![w] = [user |-> home.order[i], step |-> "claimed"]]
  BY DEF Claim
<1>3. home.order[i] \in Member
  BY <1>1
<1>4. Pending(home.order[i]) /\ "finalizing" \in Deletions
  BY <1>2 DEF Claimable, Pending, Deletions
<1>5. HomeKept /\ home' \in Home
  BY <1>1, <1>2, <1>3, <1>4, GoesOn
<1>6. worker' \in [Workers -> Deletion]
  BY <1>1, <1>2, <1>3 DEF Deletion
<1> QED BY <1>1, <1>5, <1>6, QuietDeletion

LEMMA FiveMinutesPassStep ==
    ASSUME LifecycleInv, NEW u \in Member, FiveMinutesPass(u)
    PROVE  LifecycleInv' /\ SessionsStay
<1>1. /\ TypeOK /\ worker \in [Workers -> Deletion] /\ provider \in Provider
      /\ bounds \in [crashes : Nat, losses : Nat, restarts : Nat]
      /\ UNCHANGED <<world, link, provider, api, worker, client, bounds>>
      /\ home' = [home EXCEPT !.asked[u] = "overdue"]
  BY DEF LifecycleInv, TypeOK, FiveMinutesPass
<1>2. Pending(u) /\ "overdue" \in Deletions
  BY DEF FiveMinutesPass, Pending, Deletions
<1>3. HomeKept /\ home' \in Home
  BY <1>1, <1>2, GoesOn
<1> QED BY <1>1, <1>3, QuietDeletion

\* A member asks, is asked for by Clerk, or asks again: a step that grants
\* nothing and takes no right from anyone.
LEMMA AskedStep ==
    ASSUME LifecycleInv, NEW u \in Member, home.here[u],
           UNCHANGED <<world, provider, api, worker, client, bounds>>,
           home' \in Home, home'.here = home.here,
           home'.lifecycle # "deleted",
           \A v \in Member \ {u} : home'.asked[v] = home.asked[v],
           \A v \in Member : home.role[v] = "owner" => home'.role[v] = "owner",
           \/ Others(u) = {} /\ home'.role = home.role
           \/ home.role[u] # "owner" /\ home'.role = home.role
           \/ home.role[u] = "owner" /\ \E v \in Others(u) : home'.role[v] = "owner",
           link' \in {link, RevokeAll(link, InUse), RevokeAll(link, Linked)}
    PROVE  LifecycleInv' /\ SessionsStay
<1>1. TypeOK /\ link \in Link
  BY DEF LifecycleInv, TypeOK
<1>2. /\ link' \in Link /\ link'.session = link.session
      /\ \A i \in Item : \/ link'.connection[i] = link.connection[i]
                         \/ link.connection[i] \in Linked /\ link'.connection[i] = "pending"
  BY <1>1, RevokeAllFacts
<1>3. TypeOK'
  BY <1>1, <1>2 DEF TypeOK
<1>4. Withdrawn
  BY <1>2 DEF Withdrawn
<1>5. CompletedStay /\ SessionsStay
  BY <1>2 DEF CompletedStay, SessionsStay
<1>6. ItemsKept /\ HandsKept
  BY SameProvider, SameApi
<1>7. ItemsHaveOneHolder' /\ ConnectionsHaveOneSession'
  BY <1>1, <1>4, <1>5, <1>6, ItemsStand, SessionsStand DEF LifecycleInv
<1>8. \A v \in Member \ {u} : Pending(v)' <=> Pending(v)
  BY DEF Pending
<1>9. DeletionsGoOn'
  BY <1>8 DEF LifecycleInv, DeletionsGoOn
<1>10. \A v \in Member : Others(v)' = Others(v)
  BY DEF Others
<1>11. OwnersHandOver'
  <2>1. CASE \E v, w \in Member : v # w /\ home.role[v] = "owner" /\ home.role[w] = "owner"
    BY <2>1 DEF OwnersHandOver
  <2>2. CASE home.role[u] = "owner" /\ \E v \in Others(u) : home'.role[v] = "owner"
    BY <2>2 DEF OwnersHandOver, Others
  <2>3. ASSUME home'.role = home.role, Others(u) = {} \/ home.role[u] # "owner",
               NEW o \in Member, home.role[o] = "owner",
               \A v \in Member \ {o} : home.role[v] # "owner" /\ (home.here[v] => home.here[o]),
               Pending(o) => Others(o) = {}
        PROVE  OwnersHandOver'
    <3>1. Pending(o)' => Others(o)' = {}
      <4>1. CASE o = u
        BY <1>10, <2>3, <4>1
      <4>2. CASE o # u
        BY <1>8, <1>10, <2>3, <4>2
      <4> QED BY <4>1, <4>2
    <3> QED BY <2>3, <3>1 DEF OwnersHandOver
  <2> QED BY <2>1, <2>2, <2>3 DEF LifecycleInv, OwnersHandOver
<1> QED BY <1>3, <1>5, <1>7, <1>9, <1>11 DEF LifecycleInv

LEMMA RequestDeletionStep ==
    ASSUME LifecycleInv, NEW u \in Member, RequestDeletion(u)
    PROVE  LifecycleInv' /\ SessionsStay
<1>1. /\ TypeOK /\ home \in Home /\ home.here[u] /\ home.role[u] = "owner"
      /\ UNCHANGED <<world, provider, api, worker, client, bounds>>
  BY DEF LifecycleInv, TypeOK, RequestDeletion
<1>2. home.lifecycle # "deleted" /\ {"ready", "revoking"} \subseteq Deletions
         /\ "deleting" \in Lifecycles /\ home.asked \in [Member -> Deletions]
  BY <1>1, HomeFields DEF LifecycleInv, DeletionsGoOn, Deletions, Lifecycles
<1> DEFINE h == HandOver(home, u)
<1>3. /\ h \in Home /\ h.lifecycle = home.lifecycle /\ h.here = home.here /\ h.asked = home.asked
      /\ \A v \in Member : home.role[v] = "owner" => h.role[v] = "owner"
      /\ Others(u) = {} => h.role = home.role
      /\ Others(u) # {} => \E v \in Others(u) : h.role[v] = "owner"
  BY <1>1, HandOverFacts
<1> HIDE DEF h
<1>4. CASE home' = h /\ link' = link
  <2>1. /\ home' \in Home /\ home'.here = home.here /\ home'.lifecycle # "deleted"
        /\ \A v \in Member \ {u} : home'.asked[v] = home.asked[v]
        /\ \A v \in Member : home.role[v] = "owner" => home'.role[v] = "owner"
    BY <1>2, <1>3, <1>4
  <2>2. \/ Others(u) = {} /\ home'.role = home.role
        \/ home.role[u] # "owner" /\ home'.role = home.role
        \/ home.role[u] = "owner" /\ \E v \in Others(u) : home'.role[v] = "owner"
    BY <1>1, <1>3, <1>4
  <2> QED BY <1>1, <1>4, <2>1, <2>2, AskedStep
<1>5. CASE Others(u) # {} /\ home' = Asked(h, u, "ready") /\ link' = link
  <2>1. /\ home' \in Home /\ home'.lifecycle = h.lifecycle /\ home'.here = h.here
        /\ home'.role = h.role /\ home'.asked = [h.asked EXCEPT ![u] = "ready"]
    BY <1>2, <1>3, <1>5, AskedFacts
  <2>2. /\ home' \in Home /\ home'.here = home.here /\ home'.lifecycle # "deleted"
        /\ \A v \in Member \ {u} : home'.asked[v] = home.asked[v]
        /\ \A v \in Member : home.role[v] = "owner" => home'.role[v] = "owner"
    BY <1>2, <1>3, <2>1
  <2>3. home.role[u] = "owner" /\ \E v \in Others(u) : home'.role[v] = "owner"
    BY <1>1, <1>3, <1>5, <2>1
  <2> QED BY <1>1, <1>5, <2>2, <2>3, AskedStep
<1>6. ASSUME Others(u) = {}, link' = RevokeAll(link, InUse),
             NEW x \in {"ready", "revoking"},
             home' = Asked([home EXCEPT !.lifecycle = "deleting"], u, x)
      PROVE  LifecycleInv' /\ SessionsStay
  <2> DEFINE d == [home EXCEPT !.lifecycle = "deleting"]
  <2>1. /\ d \in Home /\ d.lifecycle = "deleting" /\ d.role = home.role /\ d.here = home.here
        /\ d.asked = home.asked
    BY <1>1, <1>2, SetLifecycle
  <2>2. home' = Asked(d, u, x)
    BY <1>6
  <2> HIDE DEF d
  <2>3. /\ home' \in Home /\ home'.lifecycle = d.lifecycle /\ home'.here = d.here
        /\ home'.role = d.role /\ home'.asked = [d.asked EXCEPT ![u] = x]
    BY <1>2, <2>1, <2>2, AskedFacts
  <2>4. /\ home' \in Home /\ home'.here = home.here /\ home'.lifecycle # "deleted"
        /\ \A v \in Member \ {u} : home'.asked[v] = home.asked[v]
        /\ \A v \in Member : home.role[v] = "owner" => home'.role[v] = "owner"
        /\ home'.role = home.role
    BY <1>2, <2>1, <2>3
  <2> QED BY <1>1, <1>6, <2>4, AskedStep
<1>7. CASE /\ Others(u) = {} /\ link' = RevokeAll(link, InUse)
           /\ home' = Asked([home EXCEPT !.lifecycle = "deleting"], u,
                            IF Granted = {} THEN "ready" ELSE "revoking")
  BY <1>6, <1>7
<1> QED BY <1>4, <1>5, <1>7 DEF RequestDeletion, h

LEMMA ReceiveUserDeletedStep ==
    ASSUME LifecycleInv, NEW u \in Member, ReceiveUserDeleted(u)
    PROVE  LifecycleInv' /\ SessionsStay
<1>1. /\ TypeOK /\ home \in Home
      /\ UNCHANGED <<world, provider, api, worker, client, bounds>>
      /\ provider \in Provider /\ worker \in [Workers -> Deletion]
      /\ bounds \in [crashes : Nat, losses : Nat, restarts : Nat]
  BY DEF LifecycleInv, TypeOK, ReceiveUserDeleted
<1>2. /\ {"ready", "revoking"} \subseteq Deletions /\ "deleting" \in Lifecycles
      /\ home.asked \in [Member -> Deletions] /\ "ignored" \in Receipts
      /\ home.here[u] => home.lifecycle # "deleted"
  BY <1>1, HomeFields DEF LifecycleInv, DeletionsGoOn, Deletions, Lifecycles, Receipts
<1>3. CASE home' = [home EXCEPT !.receipt[u] = "ignored"] /\ link' = link
  <2>1. /\ home' \in Home /\ home'.lifecycle = home.lifecycle /\ home'.role = home.role
        /\ home'.here = home.here /\ home'.asked = home.asked
    BY <1>1, <1>2, <1>3, SetReceipt
  <2>2. HomeKept
    BY <2>1 DEF HomeKept, Pending
  <2> QED BY <1>1, <1>3, <2>1, <2>2, QuietDeletion
<1>4. ASSUME home.here[u], NEW h \in Home, NEW x \in {"ready", "revoking"},
             home' = Queued(h, u, x), h.here = home.here, h.asked = home.asked,
             h.lifecycle # "deleted",
             \A v \in Member : home.role[v] = "owner" => h.role[v] = "owner",
             \/ Others(u) = {} /\ h.role = home.role
             \/ home.role[u] # "owner" /\ h.role = home.role
             \/ home.role[u] = "owner" /\ \E v \in Others(u) : h.role[v] = "owner",
             link' \in {link, RevokeAll(link, InUse), RevokeAll(link, Linked)}
      PROVE  LifecycleInv' /\ SessionsStay
  <2>1. /\ home' \in Home /\ home'.lifecycle = h.lifecycle /\ home'.here = h.here
        /\ home'.role = h.role
        /\ \A v \in Member \ {u} : home'.asked[v] = h.asked[v]
    <3> DEFINE n == Queued(h, u, x)
    <3>1. x \in Deletions
      BY <1>2
    <3>2. /\ n \in Home /\ n.lifecycle = h.lifecycle /\ n.here = h.here /\ n.role = h.role
          /\ \A v \in Member \ {u} : n.asked[v] = h.asked[v]
      BY <1>1, <3>1, QueuedFacts
    <3>3. home' = n
      BY <1>4
    <3> HIDE DEF n
    <3> QED BY <3>2, <3>3
  <2>2. /\ home'.here = home.here /\ home'.lifecycle # "deleted"
        /\ \A v \in Member \ {u} : home'.asked[v] = home.asked[v]
        /\ \A v \in Member : home.role[v] = "owner" => home'.role[v] = "owner"
    BY <1>4, <2>1
  <2>3. \/ Others(u) = {} /\ home'.role = home.role
        \/ home.role[u] # "owner" /\ home'.role = home.role
        \/ home.role[u] = "owner" /\ \E v \in Others(u) : home'.role[v] = "owner"
    BY <1>4, <2>1
  <2> QED BY <1>1, <1>4, <2>1, <2>2, <2>3, AskedStep
<1>5. CASE /\ home.here[u] /\ Others(u) = {}
           /\ home' = Queued([home EXCEPT !.lifecycle = "deleting"], u,
                             IF Unrevoked = {} THEN "ready" ELSE "revoking")
           /\ link' = RevokeAll(link, Linked)
  <2> DEFINE d == [home EXCEPT !.lifecycle = "deleting"]
             x == IF Unrevoked = {} THEN "ready" ELSE "revoking"
  <2>1. /\ d \in Home /\ d.lifecycle = "deleting" /\ d.role = home.role /\ d.here = home.here
        /\ d.asked = home.asked
    BY <1>1, <1>2, SetLifecycle
  <2>2. x \in {"ready", "revoking"} /\ home' = Queued(d, u, x)
    BY <1>5
  <2> HIDE DEF d, x
  <2> QED BY <1>4, <1>5, <2>1, <2>2
<1>6. CASE /\ home.here[u] /\ home.role[u] = "owner" /\ Others(u) # {}
           /\ home' = Queued(HandOver(home, u), u, "ready") /\ link' = link
  <2> DEFINE h == HandOver(home, u)
  <2>1. /\ h \in Home /\ h.lifecycle = home.lifecycle /\ h.here = home.here /\ h.asked = home.asked
        /\ \A v \in Member : home.role[v] = "owner" => h.role[v] = "owner"
        /\ Others(u) # {} => \E v \in Others(u) : h.role[v] = "owner"
    BY <1>1, HandOverFacts
  <2>2. home' = Queued(h, u, "ready")
    BY <1>6
  <2> HIDE DEF h
  <2> QED BY <1>2, <1>4, <1>6, <2>1, <2>2
<1>7. CASE home.here[u] /\ home.role[u] # "owner" /\ home' = Queued(home, u, "ready") /\ link' = link
  BY <1>1, <1>2, <1>4, <1>7
<1> QED BY <1>3, <1>5, <1>6, <1>7 DEF ReceiveUserDeleted

\* A member leaves, and the last one takes the household's data along.
LEMMA LeftStep ==
    ASSUME LifecycleInv, NEW u \in Member, Pending(u), Unrevoked = {},
           home' = Left(home, u),
           link' = IF Others(u) = {} THEN Erased(link) ELSE link,
           worker' \in [Workers -> Deletion],
           UNCHANGED <<world, provider, api, client, bounds>>
    PROVE  LifecycleInv' /\ SessionsStay
<1>1. /\ TypeOK /\ home \in Home /\ link \in Link
      /\ home.here \in [Member -> BOOLEAN] /\ home.asked \in [Member -> Deletions]
      /\ link.connection \in [Item -> Connections] /\ home.here[u]
  BY HomeFields, LinkFields DEF LifecycleInv, TypeOK, DeletionsGoOn
<1>2. /\ home' \in Home /\ home'.role = home.role /\ home'.here = [home.here EXCEPT ![u] = FALSE]
      /\ home'.asked = [home.asked EXCEPT ![u] = "completed"]
      /\ home'.lifecycle = IF Others(u) = {} THEN "deleted" ELSE "active"
  BY <1>1, LeftFacts
<1>3. /\ link' \in Link
      /\ Others(u) # {} => link' = link
      /\ \A s \in Session : link'.session[s].status \in {link.session[s].status, "erased"}
      /\ \A i \in Item : link'.connection[i] \in {link.connection[i], "erased"}
      /\ \A i \in Item : link.connection[i] = "none" => link'.connection[i] = "none"
      /\ Others(u) = {} =>
            /\ \A i \in Item : link'.connection[i] \in {"none", "erased"}
            /\ \A s \in Session : link'.session[s].status \in {"none", "erased"}
  BY <1>1, ErasedFacts
<1>4. TypeOK'
  BY <1>1, <1>2, <1>3 DEF TypeOK
<1>5. \A v \in Member : ~Pending(u)' /\ (v # u => (Pending(v)' <=> Pending(v)))
  BY <1>1, <1>2 DEF Pending
<1>6. \A v \in Member : home'.here[v] <=> home.here[v] /\ v # u
  BY <1>1, <1>2
<1>7. DeletionsGoOn'
  <2>1. \A v \in Member : Pending(v)' => home'.here[v]
    BY <1>5, <1>6 DEF LifecycleInv, DeletionsGoOn
  <2>2. home'.lifecycle = "deleted" => Others(u) = {}
    BY <1>2
  <2>3. Others(u) = {} => \A v \in Member : ~home'.here[v]
    BY <1>6 DEF Others
  <2> QED BY <1>3, <2>1, <2>2, <2>3 DEF DeletionsGoOn
<1>8. OwnersHandOver'
  <2>1. CASE \E v, w \in Member : v # w /\ home.role[v] = "owner" /\ home.role[w] = "owner"
    BY <1>2, <2>1 DEF OwnersHandOver
  <2>2. ASSUME NEW o \in Member, home.role[o] = "owner",
               \A v \in Member \ {o} : home.role[v] # "owner" /\ (home.here[v] => home.here[o]),
               Pending(o) => Others(o) = {}
        PROVE  OwnersHandOver'
    <3>1. CASE o = u
      <4>1. \A v \in Member \ {o} : ~home.here[v]
        BY <2>2, <3>1 DEF Others
      <4>2. \A v \in Member \ {o} : home'.role[v] # "owner" /\ ~home'.here[v]
        BY <1>2, <1>6, <2>2, <4>1
      <4> QED BY <1>2, <1>5, <2>2, <3>1, <4>2 DEF OwnersHandOver
    <3>2. CASE o # u
      <4>1. \A v \in Member \ {o} : home'.role[v] # "owner" /\ (home'.here[v] => home'.here[o])
        BY <1>2, <1>6, <2>2, <3>2
      <4>2. Others(o)' \subseteq Others(o)
        BY <1>6 DEF Others
      <4>3. Pending(o)' => Others(o)' = {}
        BY <1>5, <2>2, <3>2, <4>2
      <4> QED BY <1>2, <2>2, <4>1, <4>3 DEF OwnersHandOver
    <3> QED BY <3>1, <3>2
  <2> QED BY <2>1, <2>2 DEF LifecycleInv, OwnersHandOver
<1>9. ItemsHaveOneHolder'
  <2>1. \A a \in Attempt : (Exchanged(a)' <=> Exchanged(a)) /\ api[a].token \in Item
    BY <1>1, AttemptFields DEF Exchanged
  <2>2. \A i \in Item : Unaccounted(i)' <=> Unaccounted(i)
    BY DEF Unaccounted
  <2>3. ASSUME NEW a \in Attempt, Exchanged(a)'
        PROVE  /\ provider'.item[api'[a].token] = "present" /\ link'.connection[api'[a].token] = "none"
               /\ \A b \in Attempt : Exchanged(b)' /\ api'[b].token = api'[a].token => b = a
    <3>1. /\ provider.item[api[a].token] = "present" /\ link.connection[api[a].token] = "none"
          /\ \A b \in Attempt : Exchanged(b) /\ api[b].token = api[a].token => b = a
      BY <2>1, <2>3 DEF LifecycleInv, ItemsHaveOneHolder
    <3> QED BY <1>3, <2>1, <3>1
  <2>4. ASSUME NEW i \in Item
        PROVE  /\ link'.connection[i] \in InUse => provider'.item[i] = "present"
               /\ link'.connection[i] \in {"pending", "failed"} =>
                     provider'.item[i] \in {"present", "removed"}
               /\ link'.connection[i] \in {"revoked", "erased"} => provider'.item[i] = "removed"
               /\ provider'.item[i] = "present" =>
                     link'.connection[i] \in Linked \/ Unaccounted(i)'
    <3>1. link.connection[i] \in {"none", "revoked", "erased"}
      BY <1>1 DEF Unrevoked, Connections
    <3>2. /\ link.connection[i] \in {"revoked", "erased"} => provider.item[i] = "removed"
          /\ provider.item[i] = "present" => Unaccounted(i)
      BY <3>1 DEF LifecycleInv, ItemsHaveOneHolder
    <3>3. \/ link'.connection[i] = link.connection[i]
          \/ link.connection[i] # "none" /\ link'.connection[i] = "erased"
      BY <1>3
    <3> QED BY <2>2, <3>1, <3>2, <3>3
  <2> QED BY <2>3, <2>4 DEF ItemsHaveOneHolder
<1>10. ConnectionsHaveOneSession'
  <2>1. CASE Others(u) = {}
    <3>1. \A i \in Token : Completed(i)' = {}
      BY <1>3, <2>1 DEF Completed
    <3> QED BY <1>3, <2>1, <3>1, Numbers DEF ConnectionsHaveOneSession
  <2>2. CASE Others(u) # {}
    <3>1. link' = link
      BY <1>3, <2>2
    <3>2. Withdrawn /\ CompletedStay
      BY <3>1, SameLink
    <3> QED BY <3>2, SessionsStand DEF LifecycleInv
  <2> QED BY <2>1, <2>2
<1>11. SessionsStay
  BY <1>3 DEF SessionsStay
<1> QED BY <1>4, <1>7, <1>8, <1>9, <1>10, <1>11 DEF LifecycleInv

LEMMA FinalizeStep ==
    ASSUME LifecycleInv, NEW w \in Workers, Finalize(w)
    PROVE  LifecycleInv' /\ SessionsStay
<1> DEFINE u == worker[w].user
<1>1. /\ TypeOK /\ home \in Home /\ link \in Link /\ worker[w].step = "identity deleted"
      /\ UNCHANGED <<world, provider, api, client, bounds>>
      /\ worker' = [worker EXCEPT ![w] = NoDeletion]
      /\ provider \in Provider /\ bounds \in [crashes : Nat, losses : Nat, restarts : Nat]
  BY DEF LifecycleInv, TypeOK, Finalize
<1>2. worker' \in [Workers -> Deletion] /\ u \in Member
  BY <1>1, WorkerFields
<1>3. CASE UNCHANGED <<home, link>>
  <2>1. HomeKept
    BY <1>3, SameHome
  <2> QED BY <1>1, <1>2, <1>3, <2>1, QuietDeletion
<1>4. CASE home.asked[u] \in {"finalizing", "overdue"} /\ FinalizeAccountDeletion(u)
  <2>1. Pending(u) /\ "revoking" \in Deletions
    BY <1>4 DEF Pending, Deletions
  <2>2. CASE home' = [home EXCEPT !.asked[u] = "revoking"] /\ link' = RevokeAll(link, Linked)
    <3>1. HomeKept /\ home' \in Home
      BY <1>1, <1>2, <2>1, <2>2, GoesOn
    <3>2. /\ link' \in Link /\ link'.session = link.session
          /\ \A i \in Item : \/ link'.connection[i] = link.connection[i]
                             \/ link.connection[i] \in Linked /\ link'.connection[i] = "pending"
      <4> DEFINE n == RevokeAll(link, Linked)
      <4>1. /\ n \in Link /\ n.session = link.session
            /\ \A i \in Item : n.connection[i] =
                  IF link.connection[i] \in Linked THEN "pending" ELSE link.connection[i]
        <5> HIDE DEF Linked
        <5>1. link \in Link /\ Linked \in SUBSET Linked
          BY <1>1
        <5> QED BY <5>1, RevokeAllFacts
      <4>2. link' = n
        BY <2>2
      <4> HIDE DEF n
      <4> QED BY <4>1, <4>2
    <3>3. Withdrawn
      BY <3>2 DEF Withdrawn
    <3>4. CompletedStay /\ SessionsStay
      BY <3>2 DEF CompletedStay, SessionsStay
    <3>5. ItemsKept /\ HandsKept
      BY <1>1, SameProvider, SameApi
    <3>6. TypeOK'
      BY <1>1, <1>2, <3>1, <3>2 DEF TypeOK
    <3>7. LifecycleInv'
      BY <3>1, <3>3, <3>4, <3>5, <3>6, QuietStep
    <3> QED BY <3>4, <3>7
  <2>3. CASE /\ Unrevoked = {} /\ home' = Left(home, u)
             /\ link' = IF Others(u) = {} THEN Erased(link) ELSE link
    BY <1>1, <1>2, <2>1, <2>3, LeftStep
  <2> QED BY <1>4, <2>2, <2>3 DEF FinalizeAccountDeletion
<1> QED BY <1>3, <1>4 DEF Finalize

------------------------------------------------------------------------------
(* The invariant.                                                          *)

LEMMA InitInv == Init => LifecycleInv
<1> SUFFICES ASSUME Init PROVE LifecycleInv
  OBVIOUS
<1>1. /\ world \in Worlds /\ world.members \in Member /\ 1 \in Member /\ world.members \in Nat
      /\ 1 <= world.members
  BY LifecycleAssumption, Numbers DEF Init, Member
<1>2. /\ home.lifecycle = "active" /\ home.role = [u \in Member |-> IF u = 1 THEN "owner" ELSE "member"]
      /\ home.here = [u \in Member |-> u <= world.members]
      /\ home.asked = [u \in Member |-> "none"]
  BY DEF Init
<1>3. home \in Home
  BY DEF Init, Home
<1>4. /\ link.session = [s \in Session |-> [status |-> "none", token |-> 0, recent |-> FALSE, expired |-> FALSE]]
      /\ link.connection = [i \in Item |-> IF i = 0 /\ world.linked THEN "live" ELSE "none"]
  BY DEF Init
<1>5. link \in Link
  BY Numbers DEF Init, Link, LinkSession
<1>6. provider \in Provider
           /\ provider.item = [i \in Item |-> IF i = 0 /\ world.linked THEN "present" ELSE "none"]
  BY Numbers DEF Init, Provider
<1>7. /\ api \in [Attempt -> Exchanges] /\ worker \in [Workers -> Deletion]
      /\ \A a \in Attempt : ~Exchanged(a)
  BY DEF Init, Exchanges, Deletion, Exchanged, NoAttempt
<1>8. client \in Client /\ client.phase = "idle"
  <2>1. 0 \in 0 .. MaxSessions
    BY Numbers
  <2> QED BY <2>1, RestIsClient DEF Init
<1>9. bounds \in [crashes : Nat, losses : Nat, restarts : Nat]
  BY DEF Init
<1>10. TypeOK
  BY <1>1, <1>3, <1>5, <1>6, <1>7, <1>8, <1>9 DEF TypeOK
<1>11. DeletionsGoOn
  BY <1>2 DEF DeletionsGoOn, Pending
<1>12. OwnersHandOver
  <2>1. home.role[1] = "owner" /\ home.here[1] /\ ~Pending(1)
    BY <1>1, <1>2 DEF Pending
  <2>2. \A v \in Member \ {1} : home.role[v] # "owner"
    BY <1>2
  <2> QED BY <1>1, <2>1, <2>2 DEF OwnersHandOver
<1>13. ItemsHaveOneHolder
  <2>1. \A i \in Item : \/ link.connection[i] = "live" /\ provider.item[i] = "present"
                        \/ link.connection[i] = "none" /\ provider.item[i] = "none"
    BY <1>4, <1>6
  <2> QED BY <1>7, <2>1 DEF ItemsHaveOneHolder
<1>14. ConnectionsHaveOneSession
  <2>1. \A i \in Token : Completed(i) = {} /\ link.connection[i] = "none"
    BY <1>4, Numbers DEF Completed
  <2> QED BY <2>1 DEF ConnectionsHaveOneSession
<1> QED BY <1>10, <1>11, <1>12, <1>13, <1>14 DEF LifecycleInv

LEMMA NextInv ==
    ASSUME LifecycleInv, [Next]_vars
    PROVE  LifecycleInv' /\ SessionsStay
<1>1. CASE UNCHANGED vars
  <2>1. /\ UNCHANGED <<world, home, link, provider, api, worker>> /\ client' = client
        /\ bounds' = bounds
    BY <1>1 DEF vars
  <2>2. TypeOK
    BY DEF LifecycleInv
  <2>3. /\ client' \in Client
        /\ client'.phase \in {"opening", "exchanging"} => client'.session # 0
        /\ client'.phase = "exchanging" => client'.token # 0
        /\ bounds' \in [crashes : Nat, losses : Nat, restarts : Nat]
    BY <2>1, <2>2 DEF TypeOK
  <2> QED BY <2>1, <2>3, ClientStep
<1>2. ASSUME NEW u \in Member,
             \/ RequestDeletion(u) \/ RemoveIdentity(u) \/ ReceiveUserDeleted(u) \/ FiveMinutesPass(u)
             \/ \E i \in Item : Disconnect(u, i)
      PROVE  LifecycleInv' /\ SessionsStay
  BY <1>2, RequestDeletionStep, IdentityStep, ReceiveUserDeletedStep, FiveMinutesPassStep, DisconnectStep
<1>3. CASE \E i \in Item : Revoke(i) \/ RevocationFails(i)
  BY <1>3, RevokeStep
<1>4. ASSUME NEW w \in Workers,
             Claim(w) \/ DeleteIdentity(w) \/ DeleteIdentityFails(w) \/ Finalize(w) \/ WorkerStops(w)
      PROVE  LifecycleInv' /\ SessionsStay
  BY <1>4, ClaimStep, IdentityStep, FinalizeStep
<1>5. CASE Start \/ Redirect \/ ReadPending \/ LinkExits \/ StartAgain \/ ReturnToNative
             \/ ReceiveAnswer \/ LoseAnswer
  BY <1>5, OneClientStep
<1>6. CASE CreateLinkToken \/ LinkSucceeds \/ Exchange
  BY <1>6, CreateLinkTokenStep, LinkSucceedsStep, ExchangeStep
<1>7. ASSUME NEW a \in Attempt,
             ExchangePublicToken(a) \/ Store(a) \/ Compensate(a) \/ MarkSessionFailed(a) \/ ApiStops(a)
      PROVE  LifecycleInv' /\ SessionsStay
  BY <1>7, ExchangePublicTokenStep, StoreStep, CompensateStep, MarkSessionFailedStep, ApiStopsStep
<1>8. CASE \E s \in Session : TwoMinutesPass(s) \/ Expire(s)
  BY <1>8, TimePassesStep
<1> QED BY <1>1, <1>2, <1>3, <1>4, <1>5, <1>6, <1>7, <1>8 DEF Next

\* In every reachable state the household, its links and its deletions are as
\* LifecycleInv says (operations.service.ts, plaid.service.ts, 019, 023, 027).
THEOREM Invariant == Spec => []LifecycleInv
<1>1. LifecycleInv /\ [Next]_vars => LifecycleInv'
  BY NextInv
<1> QED BY InitInv, <1>1, PTL DEF Spec

LEMMA InvIsClean == LifecycleInv => DepartureIsClean
<1> SUFFICES ASSUME LifecycleInv PROVE DepartureIsClean
  OBVIOUS
<1>1. ErasedHasNoAccess
  BY DEF LifecycleInv, DeletionsGoOn, ItemsHaveOneHolder, ErasedHasNoAccess
<1>2. OneDepartureKeepsOwner
  <2> DEFINE owners == {u \in Member : home.role[u] = "owner"}
  <2>1. ASSUME NEW u \in Member, NEW v \in Member, u # v,
               home.role[u] = "owner", home.role[v] = "owner"
        PROVE  Cardinality(owners) > 1
    <3>1. IsFiniteSet(Member)
      BY Numbers, FS_Interval DEF Member
    <3>2. IsFiniteSet(owners) /\ {u, v} \subseteq owners
      BY <2>1, <3>1, FS_Subset
    <3>3. Cardinality({u, v}) <= Cardinality(owners)
      BY <3>2, FS_Subset
    <3>4. Cardinality({u}) = 1 /\ IsFiniteSet({u})
      BY FS_Singleton
    <3>5. Cardinality({u} \cup {v}) = 2
      <4>1. v \notin {u}
        BY <2>1
      <4>2. Cardinality({u} \cup {v}) = Cardinality({u}) + 1
        BY <3>4, <4>1, FS_AddElement
      <4> QED BY <3>4, <4>2
    <3>6. {u, v} = {u} \cup {v}
      OBVIOUS
    <3>7. Cardinality(owners) \in Nat
      BY <3>2, FS_CardinalityType
    <3> QED BY <3>3, <3>5, <3>6, <3>7
  <2>2. ASSUME NEW u \in Member, home.role[u] = "owner",
               \A v \in Member \ {u} : home.here[v] => home.here[u],
               \E v \in Member : home.here[v]
        PROVE  \E v \in owners : home.here[v]
    BY <2>2
  <2>3. (\E v \in Member : home.here[v]) =>
           (\E v \in owners : home.here[v]) \/ Cardinality(owners) > 1
    BY <2>1, <2>2 DEF LifecycleInv, OwnersHandOver
  <2> QED BY <2>3 DEF OneDepartureKeepsOwner
<1> QED BY <1>1, <1>2 DEF LifecycleInv, DepartureIsClean

\* Erased data grants no access, and one member who goes leaves an owner to
\* those who stay (020:139-150, 023:90-110, 027:393-404).
THEOREM DeparturesAreClean == Spec => []DepartureIsClean
BY Invariant, InvIsClean, PTL

LEMMA InvIsUsable == LifecycleInv => LinkedIsUsable
<1> SUFFICES ASSUME LifecycleInv, NEW i \in Item
             PROVE  /\ link.connection[i] \in InUse => provider.item[i] = "present"
                    /\ provider.item[i] = "present" =>
                          link.connection[i] \in Linked \/ Unaccounted(i)
                    /\ link.connection[i] \in Linked \cup {"revoked"} /\ i # 0 =>
                          Cardinality(Completed(i)) = 1
  BY DEF LinkedIsUsable, Completed
<1>1. /\ link.connection[i] \in InUse => provider.item[i] = "present"
      /\ provider.item[i] = "present" =>
            link.connection[i] \in Linked \/ Unaccounted(i)
  BY DEF LifecycleInv, ItemsHaveOneHolder
<1>2. ASSUME link.connection[i] \in Linked \cup {"revoked"}, i # 0
      PROVE  Cardinality(Completed(i)) = 1
  <2>1. PICK s \in Session : Completed(i) = {s}
    BY <1>2, Numbers DEF LifecycleInv, ConnectionsHaveOneSession
  <2> QED BY <2>1, FS_Singleton
<1> QED BY <1>1, <1>2

\* No attempt, late or repeated, removes the Item another one has stored, nor
\* ends a session a second time (plaid 352-370, 416-440, 499-511, 1377-1400).
THEOREM AttemptsDoAgree == Spec => AttemptsAgree
<1>1. LifecycleInv /\ [Next]_vars => SessionsStay
  BY NextInv
<1>2. LifecycleInv /\ [Next]_vars => LinkedIsUsable'
  <2>1. LifecycleInv' => LinkedIsUsable'
    BY InvIsUsable, PTL
  <2> QED BY <2>1, NextInv
<1>3. LifecycleInv /\ [Next]_vars => [LinkedIsUsable']_vars
  BY <1>2
<1>4. LifecycleInv /\ [Next]_vars =>
        [\A s \in Session :
           link.session[s].status \in {"completed", "failed"} =>
             link'.session[s].status \in {link.session[s].status, "erased"}]_vars
  BY <1>1 DEF SessionsStay
<1>5. Spec => [][LinkedIsUsable']_vars
  BY Invariant, <1>3, PTL DEF Spec
<1>6. Spec => SessionEndsOnce
  BY Invariant, <1>4, PTL DEF Spec, SessionEndsOnce
<1> QED BY <1>5, <1>6 DEF AttemptsAgree
===============================================================================
