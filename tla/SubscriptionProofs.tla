-------------------------- MODULE SubscriptionProofs --------------------------
(***************************************************************************)
(* Proofs about Subscription for any number of subscriptions and changes   *)
(* and any order of delivery: type correctness; that a row is soft-deleted *)
(* only when Stripe has canceled the subscription; and that the mirror     *)
(* agrees with Stripe once every event has been answered, unless an event  *)
(* overtook an older one.                                                  *)
(***************************************************************************)
EXTENDS Subscription, TLAPS

----------------------------------------------------------------------------
(* What holds in every order of delivery. *)

\* A checkout in progress holds an event of its own that is not recorded yet.
ReadsAreDistinct ==
  \A p \in read :
    /\ p.event.type = "checkout" /\ p.event.tag = "full"
    /\ \A q \in read : q.event = p.event => q = p

\* Cancellation is final at Stripe, and only it emits the event that deletes.
DeletedEventsAreTrue ==
  \A e \in sent : e.type = "deleted" => stripe[e.sub].status = "canceled"

MirrorInv ==
  /\ MirrorTypeOK
  /\ ReadsAreDistinct
  /\ DeletedEventsAreTrue
  /\ DeletedOnlyIfCanceled

LEMMA InitInv == MirrorInit => MirrorInv
<1> SUFFICES ASSUME MirrorInit PROVE MirrorInv
  OBVIOUS
<1>1. stripe \in [Sub -> [status : StripeStatus, v : 0..MaxVersion]]
  BY MaxVersionPositive DEF MirrorInit, StripeStatus
<1>2. NoRow \in [status : StripeStatus, deleted : BOOLEAN]
  BY DEF NoRow, StripeStatus
<1>3. mirror \in [Sub -> [status : StripeStatus, deleted : BOOLEAN]]
  BY <1>2 DEF MirrorInit
<1>4. DeletedOnlyIfCanceled
  BY DEF MirrorInit, NoRow, DeletedOnlyIfCanceled
<1> QED
  BY <1>1, <1>3, <1>4
     DEF MirrorInit, MirrorInv, MirrorTypeOK, ReadsAreDistinct, DeletedEventsAreTrue

----------------------------------------------------------------------------
(* Stripe's own steps. *)

LEMMA ChangeKeeps ==
  ASSUME MirrorInv, NEW s \in Sub, NEW type \in EventType,
         NEW status \in StripeStatus, NEW tag \in Tag,
         stripe[s].status # "canceled",
         type = "deleted" => status = "canceled",
         Change(s, type, status, tag)
  PROVE  MirrorInv'
<1> DEFINE v == stripe[s].v + 1
           e == [type |-> type, sub |-> s, v |-> v, status |-> status,
                 tag |-> tag]
<1>1. v \in 1..MaxVersion
  BY MaxVersionPositive DEF MirrorInv, MirrorTypeOK, Change
<1>2. e \in Event
  BY <1>1 DEF Event
<1>3. stripe' = [stripe EXCEPT ![s] = [status |-> status, v |-> v]]
      /\ sent' = sent \cup {e} /\ UNCHANGED <<seen, mirror, read, reordered>>
  BY DEF Change
<1> HIDE DEF v, e
<1>4. stripe' \in [Sub -> [status : StripeStatus, v : 0..MaxVersion]]
  BY <1>1, <1>3 DEF MirrorInv, MirrorTypeOK
<1>5. MirrorTypeOK'
  BY <1>2, <1>3, <1>4 DEF MirrorInv, MirrorTypeOK
<1>6. \A r \in Sub : r # s => stripe'[r] = stripe[r]
  BY <1>3 DEF MirrorInv, MirrorTypeOK
<1>7. stripe'[s].status = status
  BY <1>3 DEF MirrorInv, MirrorTypeOK
<1>8. DeletedEventsAreTrue'
  <2> SUFFICES ASSUME NEW f \in sent', f.type = "deleted"
               PROVE  stripe'[f.sub].status = "canceled"
    BY DEF DeletedEventsAreTrue
  <2>1. CASE f = e
    BY <2>1, <1>7 DEF e
  <2>2. CASE f \in sent
    <3>1. stripe[f.sub].status = "canceled" /\ f.sub \in Sub
      BY <2>2 DEF MirrorInv, MirrorTypeOK, DeletedEventsAreTrue, Event
    <3> QED BY <3>1, <1>6
  <2> QED BY <1>3, <2>1, <2>2
<1>9. DeletedOnlyIfCanceled'
  <2> SUFFICES ASSUME NEW r \in Sub, mirror'[r].deleted
               PROVE  stripe'[r].status = "canceled"
    BY Zenon DEF DeletedOnlyIfCanceled
  <2>1. stripe[r].status = "canceled"
    BY <1>3, Zenon DEF MirrorInv, DeletedOnlyIfCanceled
  <2> QED BY <2>1, <1>6
<1>10. ReadsAreDistinct'
  BY <1>3 DEF MirrorInv, ReadsAreDistinct
<1> QED
  BY <1>5, <1>8, <1>9, <1>10 DEF MirrorInv

LEMMA StripeKeeps ==
  ASSUME MirrorInv, NEW s \in Sub,
         Create(s) \/ Update(s) \/ Checkout(s) \/ Cancel(s)
  PROVE  MirrorInv'
<1> USE DEF EventType, StripeStatus, Tag
<1>1. CASE Create(s)
  BY <1>1, ChangeKeeps DEF Create
<1>2. CASE Update(s)
  BY <1>2, ChangeKeeps DEF Update
<1>3. CASE Checkout(s)
  BY <1>3, ChangeKeeps DEF Checkout
<1>4. CASE Cancel(s)
  BY <1>4, ChangeKeeps DEF Cancel
<1> QED
  BY <1>1, <1>2, <1>3, <1>4

----------------------------------------------------------------------------
(* The webhook's steps. *)

LEMMA UpsertKeeps ==
  ASSUME MirrorInv, NEW s \in Sub, NEW status \in StripeStatus,
         NEW tag \in Tag, Upsert(s, status, tag)
  PROVE  /\ mirror' \in [Sub -> [status : StripeStatus, deleted : BOOLEAN]]
         /\ \A r \in Sub : mirror'[r].deleted => mirror[r].deleted
<1>1. [status |-> status, deleted |-> FALSE]
        \in [status : StripeStatus, deleted : BOOLEAN]
  OBVIOUS
<1>2. mirror \in [Sub -> [status : StripeStatus, deleted : BOOLEAN]]
  BY DEF MirrorInv, MirrorTypeOK
<1>3. mirror' = mirror
      \/ mirror' = [mirror EXCEPT ![s] = [status |-> status, deleted |-> FALSE]]
  BY DEF Upsert
<1>4. CASE mirror' = mirror
  BY <1>2, <1>4
<1>5. CASE mirror' = [mirror EXCEPT ![s] =
                        [status |-> status, deleted |-> FALSE]]
  <2>1. mirror' \in [Sub -> [status : StripeStatus, deleted : BOOLEAN]]
    BY <1>1, <1>2, <1>5
  <2>2. mirror'[s].deleted = FALSE
    BY <1>2, <1>5
  <2>3. \A r \in Sub : r # s => mirror'[r] = mirror[r]
    BY <1>2, <1>5
  <2> QED BY <2>1, <2>2, <2>3
<1> QED
  BY <1>3, <1>4, <1>5

LEMMA HandleKeeps ==
  ASSUME MirrorInv, NEW e \in sent, Handle(e) PROVE MirrorInv'
<1>1. /\ e \in sent \ seen
      /\ seen' = seen \cup {e}
      /\ UNCHANGED <<stripe, sent, read>>
      /\ e.type = "checkout" => e.tag # "full"
      /\ reordered' \subseteq reordered \cup {e.sub}
  BY DEF Handle, Deliver, stripeVars, HandleSubscriptionUpsert,
         HandleSubscriptionDeleted, SkipCheckout
<1>2. e.sub \in Sub /\ e.status \in StripeStatus /\ e.tag \in Tag
  BY DEF MirrorInv, MirrorTypeOK, Event
<1>3. /\ mirror' \in [Sub -> [status : StripeStatus, deleted : BOOLEAN]]
      /\ DeletedOnlyIfCanceled'
  <2>1. CASE HandleSubscriptionUpsert(e)
    <3>1. Upsert(e.sub, e.status, e.tag)
      BY <2>1 DEF HandleSubscriptionUpsert
    <3>2. /\ mirror' \in [Sub -> [status : StripeStatus, deleted : BOOLEAN]]
          /\ \A r \in Sub : mirror'[r].deleted => mirror[r].deleted
      BY <1>2, <3>1, UpsertKeeps
    <3>3. DeletedOnlyIfCanceled'
      BY <1>1, <3>2, Zenon DEF MirrorInv, DeletedOnlyIfCanceled
    <3> QED BY <3>2, <3>3
  <2>2. CASE HandleSubscriptionDeleted(e)
    <3>1. stripe[e.sub].status = "canceled"
      BY <2>2 DEF HandleSubscriptionDeleted, MirrorInv, DeletedEventsAreTrue
    <3>2. [status |-> "canceled", deleted |-> TRUE]
            \in [status : StripeStatus, deleted : BOOLEAN]
      BY DEF StripeStatus
    <3>3. mirror' \in [Sub -> [status : StripeStatus, deleted : BOOLEAN]]
      BY <2>2, <3>2 DEF HandleSubscriptionDeleted, MirrorInv, MirrorTypeOK
    <3>4. \A r \in Sub : r # e.sub => mirror'[r] = mirror[r]
      BY <2>2 DEF HandleSubscriptionDeleted, MirrorInv, MirrorTypeOK
    <3>5. DeletedOnlyIfCanceled'
      <4> SUFFICES ASSUME NEW r \in Sub, mirror'[r].deleted
                   PROVE  stripe'[r].status = "canceled"
        BY Zenon DEF DeletedOnlyIfCanceled
      <4>1. CASE r = e.sub
        BY <1>1, <3>1, <4>1
      <4>2. CASE r # e.sub
        <5>1. mirror[r].deleted
          BY <3>4, <4>2, Zenon
        <5> QED
          BY <1>1, <5>1, Zenon DEF MirrorInv, DeletedOnlyIfCanceled
      <4> QED BY <4>1, <4>2
    <3> QED BY <3>3, <3>5
  <2>3. CASE SkipCheckout(e)
    BY <1>1, <2>3, Zenon DEF SkipCheckout, MirrorInv, MirrorTypeOK, DeletedOnlyIfCanceled
  <2> QED
    BY <2>1, <2>2, <2>3 DEF Handle
<1>4. \A p \in read : p.event # e
  BY <1>1 DEF MirrorInv, ReadsAreDistinct
<1>5. MirrorTypeOK'
  BY <1>1, <1>2, <1>3, <1>4 DEF MirrorInv, MirrorTypeOK
<1> QED
  BY <1>1, <1>3, <1>5 DEF MirrorInv, ReadsAreDistinct, DeletedEventsAreTrue

LEMMA RetrieveKeeps ==
  ASSUME MirrorInv, NEW e \in sent, RetrieveLive(e) PROVE MirrorInv'
<1> DEFINE p == [event |-> e, status |-> stripe[e.sub].status]
<1>1. /\ e \in sent \ seen /\ e.type = "checkout" /\ e.tag = "full"
      /\ \A q \in read : q.event # e
      /\ read' = read \cup {p}
      /\ UNCHANGED <<stripe, sent, seen, mirror>>
      /\ reordered' \subseteq reordered \cup {e.sub}
  BY DEF RetrieveLive, Deliver, stripeVars
<1>2. p.event = e /\ p.status \in StripeStatus /\ e.sub \in Sub
  BY DEF MirrorInv, MirrorTypeOK, Event
<1> HIDE DEF p
<1>3. MirrorTypeOK'
  BY <1>1, <1>2 DEF MirrorInv, MirrorTypeOK
<1>4. ReadsAreDistinct'
  BY <1>1, <1>2 DEF MirrorInv, ReadsAreDistinct
<1>5. DeletedEventsAreTrue' /\ DeletedOnlyIfCanceled'
  BY <1>1, Zenon DEF MirrorInv, DeletedEventsAreTrue, DeletedOnlyIfCanceled
<1> QED
  BY <1>3, <1>4, <1>5 DEF MirrorInv

LEMMA CompleteKeeps ==
  ASSUME MirrorInv, NEW p \in read, HandleCheckoutCompleted(p) PROVE MirrorInv'
<1>1. /\ seen' = seen \cup {p.event}
      /\ read' = read \ {p}
      /\ UNCHANGED <<stripe, sent, reordered>>
      /\ Upsert(p.event.sub, p.status, "full")
  BY DEF HandleCheckoutCompleted, stripeVars
<1>2. p.event \in sent /\ p.event.sub \in Sub /\ p.status \in StripeStatus
  BY DEF MirrorInv, MirrorTypeOK, Event
<1>3. /\ mirror' \in [Sub -> [status : StripeStatus, deleted : BOOLEAN]]
      /\ \A r \in Sub : mirror'[r].deleted => mirror[r].deleted
  BY <1>1, <1>2, UpsertKeeps DEF Tag
<1>4. DeletedOnlyIfCanceled'
  BY <1>1, <1>3, Zenon DEF MirrorInv, DeletedOnlyIfCanceled
<1>5. \A q \in read' : q.event # p.event
  BY <1>1 DEF MirrorInv, ReadsAreDistinct
<1>6. MirrorTypeOK'
  BY <1>1, <1>2, <1>3, <1>5 DEF MirrorInv, MirrorTypeOK
<1>7. ReadsAreDistinct'
  BY <1>1 DEF MirrorInv, ReadsAreDistinct
<1> QED
  BY <1>1, <1>4, <1>6, <1>7 DEF MirrorInv, DeletedEventsAreTrue

LEMMA RollbackKeeps ==
  ASSUME MirrorInv, NEW p \in read, Rollback(p) PROVE MirrorInv'
<1>1. read' = read \ {p} /\ UNCHANGED <<stripe, sent, seen, mirror, reordered>>
  BY DEF Rollback, stripeVars
<1>2. MirrorTypeOK' /\ ReadsAreDistinct'
  BY <1>1 DEF MirrorInv, MirrorTypeOK, ReadsAreDistinct
<1>3. DeletedEventsAreTrue' /\ DeletedOnlyIfCanceled'
  BY <1>1, Zenon DEF MirrorInv, DeletedEventsAreTrue, DeletedOnlyIfCanceled
<1> QED
  BY <1>2, <1>3 DEF MirrorInv

LEMMA StutterKeeps == ASSUME MirrorInv, UNCHANGED mirrorVars PROVE MirrorInv'
  BY Zenon DEF MirrorInv, MirrorTypeOK, ReadsAreDistinct, DeletedEventsAreTrue,
               DeletedOnlyIfCanceled, mirrorVars

----------------------------------------------------------------------------
(* The invariant holds for every order of delivery. *)
THEOREM Inductive == MirrorSpec => []MirrorInv
<1>1. MirrorInv /\ [MirrorNext]_mirrorVars => MirrorInv'
  BY StripeKeeps, HandleKeeps, RetrieveKeeps, CompleteKeeps, RollbackKeeps,
     StutterKeeps DEF MirrorNext
<1> QED
  BY InitInv, <1>1, PTL DEF MirrorSpec

(* The mirror and the deliveries in progress keep their shape; a checkout in *)
(* progress belongs to an event that is not yet recorded.                    *)
THEOREM TypeCorrect == MirrorSpec => []MirrorTypeOK
<1>1. MirrorInv => MirrorTypeOK
  BY DEF MirrorInv
<1> QED
  BY Inductive, <1>1, PTL

(* A row is soft-deleted only when Stripe has canceled the subscription, for *)
(* any number of subscriptions and changes, duplicated and reordered events, *)
(* and handlers that die.                                                    *)
THEOREM DeletedOnlyIfCanceledHolds == MirrorSpec => []DeletedOnlyIfCanceled
<1>1. MirrorInv => DeletedOnlyIfCanceled
  BY DEF MirrorInv
<1> QED
  BY Inductive, <1>1, PTL

----------------------------------------------------------------------------
(* What holds of the events and of the reads in progress. *)

\* The events of a subscription are numbered; the first one is full; the last one, but for
\* the Checkout Session, carries its status, and there is one; a read taken after it is of
\* that status.
History ==
  /\ \A e \in sent :
       /\ e.v <= stripe[e.sub].v
       /\ \A f \in sent : f.sub = e.sub /\ f.v = e.v => f = e
       /\ Latest(e) => e.status = stripe[e.sub].status
       /\ e.v = 1 <=> e.type = "created"
       /\ e.v = 1 => e.tag = "full"
       /\ \E f \in sent : f.sub = e.sub /\ f.v = 1
       /\ e.type = "deleted" => e.status = "canceled"
       /\ e.type # "deleted" => e.status \notin {"none", "canceled"}
  /\ \A s \in Sub :
       /\ stripe[s].v = 0 <=> stripe[s].status = "none"
       /\ stripe[s].v > 0 =>
            \E e \in sent : e.sub = s /\ e.type # "checkout" /\ Latest(e)
  /\ \A p \in read :
       /\ p.status # "none"
       /\ Latest(p.event) => p.status = stripe[p.event.sub].status

LEMMA InitHistory == MirrorInit => History
<1> SUFFICES ASSUME MirrorInit PROVE History
  OBVIOUS
<1>1. sent = {} /\ read = {}
      /\ \A s \in Sub : stripe[s] = [status |-> "none", v |-> 0]
  BY DEF MirrorInit
<1> QED
  BY <1>1 DEF History

LEMMA ChangeHistory ==
  ASSUME MirrorInv, History, NEW s \in Sub, NEW type \in EventType,
         NEW status \in StripeStatus \ {"none"}, NEW tag \in Tag,
         type = "deleted" <=> status = "canceled",
         stripe[s].status = "none" <=> type = "created",
         type = "created" => tag = "full",
         type = "checkout" => status = stripe[s].status,
         Change(s, type, status, tag)
  PROVE  History'
<1> PICK v : v = stripe[s].v + 1
  OBVIOUS
<1> PICK e : e = [type |-> type, sub |-> s, v |-> v, status |-> status, tag |-> tag]
  OBVIOUS
<1>1. /\ v \in 1..MaxVersion /\ v = stripe[s].v + 1 /\ stripe[s].v \in Nat
      /\ stripe' = [stripe EXCEPT ![s] = [status |-> status, v |-> v]]
      /\ sent' = sent \cup {e} /\ read' = read
  BY MaxVersionPositive DEF MirrorInv, MirrorTypeOK, Change
<1>2. /\ e.type = type /\ e.sub = s /\ e.v = v /\ e.status = status
      /\ e.tag = tag
  OBVIOUS
<1>3. /\ stripe'[s].status = status /\ stripe'[s].v = v
      /\ \A r \in Sub : r # s => stripe'[r] = stripe[r]
  BY <1>1 DEF MirrorInv, MirrorTypeOK
<1>4. \A f \in sent : /\ f \in Event /\ f.sub \in Sub /\ f.v \in 1..MaxVersion
                      /\ f.v <= stripe[f.sub].v
  BY DEF MirrorInv, MirrorTypeOK, Event, History
\* What is the latest event of a subscription stays it, but for a change that is no checkout.
<1>5. \A f \in sent : Latest(f)' <=> Latest(f) /\ (f.sub = s => type = "checkout")
  BY <1>1, <1>2, <1>4 DEF Latest
<1>6. Latest(e)'
  BY <1>1, <1>2, <1>4 DEF Latest
<1>7. ASSUME NEW f \in sent'
      PROVE  /\ f.v <= stripe'[f.sub].v
             /\ \A g \in sent' : g.sub = f.sub /\ g.v = f.v => g = f
             /\ Latest(f)' => f.status = stripe'[f.sub].status
  <2>1. CASE f = e
    <3>1. \A g \in sent : g.sub = s => g.v # v
      BY <1>1, <1>4
    <3> QED BY <1>1, <1>2, <1>3, <2>1, <3>1
  <2>2. CASE f \in sent /\ f.sub = s
    <3>1. f.v <= stripe[s].v /\ f.v \in Nat
      BY <1>4, <2>2
    <3>2. \A g \in sent' : g.sub = f.sub /\ g.v = f.v => g = f
      BY <1>1, <1>2, <2>2, <3>1 DEF History
    <3>3. Latest(f)' => f.status = stripe'[f.sub].status
      BY <1>3, <1>5, <2>2 DEF History
    <3> QED BY <1>1, <1>3, <2>2, <3>1, <3>2, <3>3
  <2>3. CASE f \in sent /\ f.sub # s
    <3>1. \A g \in sent' : g.sub = f.sub /\ g.v = f.v => g = f
      BY <1>1, <1>2, <2>3 DEF History
    <3> QED BY <1>3, <1>4, <1>5, <2>3, <3>1 DEF History
  <2> QED BY <1>1, <2>1, <2>2, <2>3
<1>8. ASSUME NEW f \in sent'
      PROVE  /\ f.v = 1 <=> f.type = "created"
             /\ f.v = 1 => f.tag = "full"
             /\ \E g \in sent' : g.sub = f.sub /\ g.v = 1
  <2>1. CASE f \in sent
    BY <1>1, <2>1 DEF History
  <2>2. CASE f = e /\ stripe[s].v = 0
    <3>1. stripe[s].status = "none"
      BY <2>2 DEF History
    <3> QED BY <1>1, <1>2, <2>2, <3>1
  <2>3. CASE f = e /\ stripe[s].v > 0
    <3>1. PICK g \in sent : g.sub = s
      BY <2>3 DEF History
    <3>2. \E h \in sent : h.sub = s /\ h.v = 1
      BY <3>1 DEF History
    <3>3. stripe[s].status # "none"
      BY <1>1, <2>3 DEF History
    <3> QED BY <1>1, <1>2, <2>3, <3>2, <3>3
  <2> QED BY <1>1, <2>1, <2>2, <2>3
<1>9. ASSUME NEW f \in sent'
      PROVE  /\ f.type = "deleted" => f.status = "canceled"
             /\ f.type # "deleted" => f.status \notin {"none", "canceled"}
  <2>1. CASE f \in sent
    BY <2>1 DEF History
  <2>2. CASE f = e
    BY <1>2, <2>2
  <2> QED BY <1>1, <2>1, <2>2
<1>10. ASSUME NEW r \in Sub
       PROVE  /\ stripe'[r].v = 0 <=> stripe'[r].status = "none"
              /\ stripe'[r].v > 0 =>
                   \E f \in sent' : f.sub = r /\ f.type # "checkout" /\ Latest(f)'
  <2>1. CASE r = s /\ type # "checkout"
    BY <1>1, <1>2, <1>3, <1>6, <2>1
  <2>2. CASE r = s /\ type = "checkout"
    <3>1. stripe[s].v > 0
      BY <1>1, <2>2 DEF History
    <3>2. PICK f \in sent : f.sub = s /\ f.type # "checkout" /\ Latest(f)
      BY <3>1 DEF History
    <3> QED BY <1>1, <1>3, <1>5, <2>2, <3>2
  <2>3. CASE r # s
    BY <1>1, <1>3, <1>5, <2>3 DEF History
  <2> QED BY <2>1, <2>2, <2>3
<1>11. ASSUME NEW p \in read'
       PROVE  /\ p.status # "none"
              /\ Latest(p.event)' => p.status = stripe'[p.event.sub].status
  <2>1. p \in read /\ p.event \in sent
    BY <1>1 DEF MirrorInv, MirrorTypeOK
  <2>2. Latest(p.event)' => p.status = stripe[p.event.sub].status
    BY <1>5, <2>1 DEF History
  <2>3. CASE p.event.sub = s
    BY <1>3, <1>5, <2>1, <2>2, <2>3 DEF History
  <2>4. CASE p.event.sub # s
    BY <1>3, <1>4, <2>1, <2>2, <2>4 DEF History
  <2> QED BY <2>3, <2>4
<1> QED
  BY <1>7, <1>8, <1>9, <1>10, <1>11 DEF History

LEMMA StripeHistory ==
  ASSUME MirrorInv, History, NEW s \in Sub,
         Create(s) \/ Update(s) \/ Checkout(s) \/ Cancel(s)
  PROVE  History'
<1> USE DEF EventType, StripeStatus, Tag
<1>1. CASE Create(s)
  BY <1>1, ChangeHistory DEF Create
<1>2. CASE Update(s)
  BY <1>2, ChangeHistory DEF Update
<1>3. CASE Checkout(s)
  BY <1>3, ChangeHistory DEF Checkout
<1>4. CASE Cancel(s)
  BY <1>4, ChangeHistory DEF Cancel
<1> QED
  BY <1>1, <1>2, <1>3, <1>4

LEMMA RetrieveHistory ==
  ASSUME MirrorInv, History, NEW e \in sent, RetrieveLive(e) PROVE History'
<1> DEFINE p == [event |-> e, status |-> stripe[e.sub].status]
<1>1. read' = read \cup {p} /\ UNCHANGED <<stripe, sent>>
  BY DEF RetrieveLive, stripeVars
<1>2. p.event = e /\ p.status = stripe[e.sub].status
  OBVIOUS
<1> HIDE DEF p
<1>3. e.sub \in Sub /\ e.v \in 1..MaxVersion /\ stripe[e.sub].v \in Nat
  BY MaxVersionPositive DEF MirrorInv, MirrorTypeOK, Event
<1>4. stripe[e.sub].status # "none"
  <2>1. e.v <= stripe[e.sub].v
    BY DEF History
  <2>2. stripe[e.sub].v # 0
    BY <1>3, <2>1
  <2> QED BY <1>3, <2>2 DEF History
<1> QED
  BY <1>1, <1>2, <1>4 DEF History, Latest

LEMMA StepHistory ==
  ASSUME MirrorInv, History, [MirrorNext]_mirrorVars PROVE History'
<1>1. CASE \E s \in Sub : Create(s) \/ Update(s) \/ Checkout(s) \/ Cancel(s)
  BY <1>1, StripeHistory
<1>2. CASE \E e \in sent : RetrieveLive(e)
  BY <1>2, RetrieveHistory
<1>3. CASE \/ \E e \in sent : Handle(e)
           \/ \E p \in read : HandleCheckoutCompleted(p) \/ Rollback(p)
           \/ UNCHANGED mirrorVars
  <2>1. UNCHANGED <<stripe, sent>> /\ read' \subseteq read
    BY <1>3 DEF Handle, HandleCheckoutCompleted, Rollback, stripeVars, mirrorVars
  <2> QED BY <2>1 DEF History, Latest
<1> QED
  BY <1>1, <1>2, <1>3 DEF MirrorNext

----------------------------------------------------------------------------
(* What holds of a subscription no event of which overtook an older one. *)

SeenInOrder(s) ==
  \A e \in seen, f \in sent :
    e.sub = s /\ f.sub = s /\ f.v < e.v => f \in seen
ReadsInOrder(s) ==
  \A p \in read, f \in sent :
    p.event.sub = s /\ f.sub = s /\ f.v < p.event.v => f \in seen
SeenIsMirrored(s) == \A e \in seen : e.sub = s => Mirrored(s)
LastIsMirrored(s) ==
  \A e \in seen : e.sub = s /\ Latest(e) => Mirrors(s)

Ordered ==
  /\ \A s \in Sub : stripe[s].v = 0 => mirror[s] = NoRow
  /\ \A s \in Sub \ reordered :
       SeenInOrder(s) /\ ReadsInOrder(s) /\ SeenIsMirrored(s)
       /\ LastIsMirrored(s)

LEMMA InitOrdered == MirrorInit => Ordered
  BY DEF MirrorInit, Ordered, SeenInOrder, ReadsInOrder, SeenIsMirrored,
         LastIsMirrored

LEMMA ChangeOrdered ==
  ASSUME MirrorInv, History, Ordered, NEW s \in Sub, NEW type, NEW status,
         NEW tag, Change(s, type, status, tag),
         type = "checkout" => status = stripe[s].status
  PROVE  Ordered'
<1> DEFINE e == [type |-> type, sub |-> s, v |-> stripe[s].v + 1,
                 status |-> status, tag |-> tag]
<1>1. /\ stripe' = [stripe EXCEPT ![s] =
                      [status |-> status, v |-> stripe[s].v + 1]]
      /\ sent' = sent \cup {e}
      /\ UNCHANGED <<seen, mirror, read, reordered>>
  BY DEF Change
<1>2. e.sub = s /\ e.v = stripe[s].v + 1 /\ e.type = type
  OBVIOUS
<1> HIDE DEF e
<1>3. /\ stripe'[s].v = stripe[s].v + 1 /\ stripe[s].v \in Nat
      /\ stripe'[s].status = status
      /\ \A r \in Sub : r # s => stripe'[r] = stripe[r]
  BY <1>1, MaxVersionPositive DEF MirrorInv, MirrorTypeOK
<1>4. \A f \in sent : f.sub \in Sub /\ f.v \in Nat /\ f.v <= stripe[f.sub].v
  BY DEF MirrorInv, MirrorTypeOK, Event, History
<1>5. seen \subseteq sent /\ \A p \in read : p.event \in sent
  BY DEF MirrorInv, MirrorTypeOK
<1>6. ASSUME NEW r \in Sub, stripe'[r].v = 0
      PROVE  mirror'[r] = NoRow
  BY <1>1, <1>3, <1>6 DEF Ordered
<1>7. ASSUME NEW r \in Sub \ reordered
      PROVE  SeenInOrder(r)' /\ ReadsInOrder(r)'
  \* The new event is newer than all that are seen or being handled.
  <2>1. SeenInOrder(r) /\ ReadsInOrder(r)
    BY DEF Ordered
  <2>2. \A f \in sent : f.sub = e.sub => ~ (e.v < f.v)
    BY <1>2, <1>3, <1>4
  <2> QED BY <1>1, <1>5, <2>1, <2>2 DEF SeenInOrder, ReadsInOrder
<1>8. \A f \in sent : Latest(f)' <=> Latest(f) /\ (f.sub = s => type = "checkout")
  BY <1>1, <1>2, <1>3, <1>4 DEF Latest
\* A checkout moves nothing at Stripe; any other change is the latest, which nobody has seen.
<1>9. ASSUME NEW r \in Sub, r = s => type = "checkout", Mirrors(r)
      PROVE  Mirrors(r)'
  <2>1. stripe'[r].status = stripe[r].status /\ mirror' = mirror
    BY <1>1, <1>3, <1>9
  <2>2. TierUnknown(r) => TierUnknown(r)'
    BY <1>1, <1>8, <1>9 DEF TierUnknown
  <2> QED BY <1>9, <2>1, <2>2, Zenon DEF Mirrors
<1>10. ASSUME NEW r \in Sub \ reordered
       PROVE  SeenIsMirrored(r)' /\ LastIsMirrored(r)'
  <2>1. SeenIsMirrored(r)'
    BY <1>1 DEF Ordered, SeenIsMirrored, Mirrored
  <2>2. ASSUME NEW f \in seen, f.sub = r, Latest(f)' PROVE Mirrors(r)'
    <3>1. Latest(f) /\ (r = s => type = "checkout")
      BY <1>5, <1>8, <2>2
    <3>2. Mirrors(r)
      BY <2>2, <3>1 DEF Ordered, LastIsMirrored
    <3> QED BY <1>9, <3>1, <3>2
  <2> QED BY <1>1, <2>1, <2>2 DEF LastIsMirrored
<1> QED
  BY <1>1, <1>6, <1>7, <1>10 DEF Ordered

\* An answered event of s leaves every other mirrored row alone.  If s is in
\* order then everything older was answered before, so only the last event
\* must leave the row as Stripe has it.
LEMMA AnsweredOrdered ==
  ASSUME MirrorInv, History, Ordered, NEW e \in sent \ seen,
         seen' = seen \cup {e},
         UNCHANGED <<stripe, sent>>,
         read' \subseteq read,
         reordered \subseteq reordered',
         \A r \in Sub : r # e.sub => mirror'[r] = mirror[r],
         e.sub \notin reordered' =>
           /\ \A f \in sent : f.sub = e.sub /\ f.v < e.v => f \in seen
           /\ Mirrored(e.sub)'
           /\ Latest(e) => Mirrors(e.sub)'
  PROVE  Ordered'
<1>1. /\ e.sub \in Sub /\ e.v \in Nat /\ e.v # 0 /\ e.v <= stripe[e.sub].v
      /\ stripe[e.sub].v \in Nat
  BY MaxVersionPositive DEF MirrorInv, MirrorTypeOK, Event, History
<1>2. ASSUME NEW r \in Sub, stripe'[r].v = 0
      PROVE  mirror'[r] = NoRow
  <2>1. r # e.sub
    BY <1>1, <1>2
  <2> QED BY <1>2, <2>1 DEF Ordered
<1>3. ASSUME NEW r \in Sub \ reordered'
      PROVE  SeenInOrder(r)' /\ ReadsInOrder(r)'
  <2>1. SeenInOrder(r) /\ ReadsInOrder(r)
    BY DEF Ordered
  <2> QED BY <2>1 DEF SeenInOrder, ReadsInOrder
<1>4. ASSUME NEW r \in Sub \ reordered'
      PROVE  SeenIsMirrored(r)' /\ LastIsMirrored(r)'
  <2>1. SeenInOrder(r) /\ SeenIsMirrored(r) /\ LastIsMirrored(r)
    BY DEF Ordered
  <2>2. \A f \in sent : Latest(f)' <=> Latest(f)
    BY DEF Latest
  <2>3. CASE r # e.sub
    <3>1. mirror'[r] = mirror[r] /\ stripe'[r] = stripe[r]
      BY <2>3
    <3>2. TierUnknown(r)' <=> TierUnknown(r)
      BY <2>2 DEF TierUnknown
    <3>3. (Mirrors(r) => Mirrors(r)') /\ (Mirrored(r) => Mirrored(r)')
      BY <3>1, <3>2, Zenon DEF Mirrors, Mirrored
    <3>4. seen \subseteq sent
      BY DEF MirrorInv, MirrorTypeOK
    <3> QED
      BY <2>1, <2>2, <2>3, <3>3, <3>4 DEF SeenIsMirrored, LastIsMirrored
  <2>4. CASE r = e.sub
    <3>1. SeenIsMirrored(r)'
      BY <2>4 DEF SeenIsMirrored
    <3>2. CASE Latest(e)
      BY <2>4, <3>1, <3>2 DEF LastIsMirrored
    <3>3. CASE ~ Latest(e)
      \* An event that is not the latest cannot be answered after the latest.
      <4>1. PICK h \in sent : h.sub = r /\ h.v > e.v /\ h.type # "checkout"
        BY <2>4, <3>3 DEF Latest
      <4>2. \A f \in seen : f.sub = r => ~ (e.v < f.v) /\ f.v \in Nat /\ f \in sent
        BY <2>1, <2>4 DEF SeenInOrder, MirrorInv, MirrorTypeOK, Event
      <4>3. h.v \in Nat
        BY DEF MirrorInv, MirrorTypeOK, Event
      <4>4. \A f \in seen : f.sub = r => ~ Latest(f)
        BY <1>1, <4>1, <4>2, <4>3 DEF Latest
      <4> QED BY <2>2, <2>4, <3>1, <3>3, <4>2, <4>4 DEF LastIsMirrored
    <3> QED BY <3>2, <3>3
  <2> QED BY <2>3, <2>4
<1> QED
  BY <1>2, <1>3, <1>4 DEF Ordered

\* What an upsert leaves in the table.
LEMMA UpsertWrites ==
  ASSUME MirrorInv, NEW s \in Sub, NEW status \in StripeStatus, NEW tag \in Tag,
         Upsert(s, status, tag)
  PROVE  /\ \A r \in Sub : r # s => mirror'[r] = mirror[r]
         /\ tag = "full" \/ (tag = "none" /\ Mirrored(s)) =>
              mirror'[s].status = status /\ ~ mirror'[s].deleted
         /\ tag = "unknown" => mirror' = mirror
<1>1. mirror \in [Sub -> [status : StripeStatus, deleted : BOOLEAN]]
  BY DEF MirrorInv, MirrorTypeOK
<1>2. CASE tag = "full" \/ (tag = "none" /\ Mirrored(s))
  <2>1. mirror' = [mirror EXCEPT ![s] = [status |-> status, deleted |-> FALSE]]
    BY <1>2 DEF Upsert
  <2>2. mirror'[s] = [status |-> status, deleted |-> FALSE]
    BY <1>1, <2>1
  <2> QED BY <1>1, <1>2, <2>1, <2>2
<1>3. CASE ~ (tag = "full" \/ (tag = "none" /\ Mirrored(s)))
  BY <1>3 DEF Upsert
<1> QED
  BY <1>2, <1>3

LEMMA HandleOrdered ==
  ASSUME MirrorInv, History, Ordered, NEW e \in sent, Handle(e)
  PROVE  Ordered'
<1>1. /\ e \in sent \ seen /\ seen' = seen \cup {e}
      /\ UNCHANGED <<stripe, sent, read>>
      /\ reordered \subseteq reordered'
      /\ e.sub \notin reordered' =>
           \A f \in sent : f.sub = e.sub /\ f.v < e.v => f \in seen
  BY DEF Handle, Deliver, stripeVars
<1>2. /\ e.sub \in Sub /\ e.v \in 1..MaxVersion /\ e.status \in StripeStatus
      /\ e.tag \in Tag
      /\ Latest(e) => e.status = stripe[e.sub].status
      /\ e.v = 1 <=> e.type = "created"
      /\ e.v = 1 => e.tag = "full"
  BY DEF MirrorInv, MirrorTypeOK, Event, History
\* The first event of the subscription was answered, and carried metadata.
<1>3. e.sub \notin reordered' /\ e.v # 1 => Mirrored(e.sub)
  <2> SUFFICES ASSUME e.sub \notin reordered', e.v # 1
               PROVE  Mirrored(e.sub)
    OBVIOUS
  <2>1. PICK f \in sent : f.sub = e.sub /\ f.v = 1
    BY DEF History
  <2>2. f.v < e.v
    BY <1>2, <2>1, MaxVersionPositive
  <2>3. f \in seen /\ e.sub \notin reordered
    BY <1>1, <2>1, <2>2
  <2> QED BY <1>2, <2>1, <2>3 DEF Ordered, SeenIsMirrored
<1>4. TierUnknown(e.sub)' <=> TierUnknown(e.sub)
  BY <1>1 DEF TierUnknown, Latest
<1>5. /\ \A r \in Sub : r # e.sub => mirror'[r] = mirror[r]
      /\ e.sub \notin reordered' =>
           Mirrored(e.sub)' /\ (Latest(e) => Mirrors(e.sub)')
  <2>1. CASE HandleSubscriptionUpsert(e) /\ e.tag # "unknown"
    <3>1. Upsert(e.sub, e.status, e.tag) /\ e.type # "deleted"
      BY <2>1 DEF HandleSubscriptionUpsert
    <3>2. e.status \notin {"none", "canceled"}
      BY <3>1 DEF History
    <3>3. /\ \A r \in Sub : r # e.sub => mirror'[r] = mirror[r]
          /\ e.tag = "full" \/ (e.tag = "none" /\ Mirrored(e.sub)) =>
               mirror'[e.sub].status = e.status /\ ~ mirror'[e.sub].deleted
      BY <1>2, <3>1, UpsertWrites
    <3>4. e.sub \notin reordered' =>
            mirror'[e.sub].status = e.status /\ ~ mirror'[e.sub].deleted
      BY <1>2, <1>3, <2>1, <3>3 DEF Tag
    <3> QED
      BY <1>1, <1>2, <3>2, <3>3, <3>4 DEF Mirrors, Mirrored
  \* An update that names an unknown tier changes nothing, and only the status may be behind.
  <2>2. CASE HandleSubscriptionUpsert(e) /\ e.tag = "unknown"
    <3>1. Upsert(e.sub, e.status, e.tag) /\ e.type \in {"created", "updated"}
      BY <2>2 DEF HandleSubscriptionUpsert
    <3>2. mirror' = mirror
      BY <1>2, <2>2, <3>1, UpsertWrites
    <3>3. e.v # 1
      BY <1>2, <2>2
    <3>4. e.sub \notin reordered' => Mirrored(e.sub)'
      BY <1>3, <3>2, <3>3 DEF Mirrored
    <3>5. ASSUME Latest(e), e.sub \notin reordered' PROVE Mirrors(e.sub)'
      <4>1. stripe[e.sub].status # "canceled"
        BY <1>2, <3>1, <3>5 DEF History
      <4>2. ~ mirror'[e.sub].deleted /\ stripe'[e.sub].status # "canceled"
        BY <1>1, <1>2, <3>2, <4>1 DEF MirrorInv, DeletedOnlyIfCanceled
      <4>3. TierUnknown(e.sub)
        BY <1>2, <2>2, <3>1, <3>3, <3>5 DEF TierUnknown
      <4> QED BY <1>1, <1>4, <4>2, <4>3 DEF Mirrors
    <3> QED BY <3>2, <3>4, <3>5
  <2>3. CASE HandleSubscriptionDeleted(e)
    <3>1. e.type = "deleted" /\ e.v # 1 /\ e.status = "canceled"
      BY <1>2, <2>3 DEF HandleSubscriptionDeleted, History
    <3>2. \A r \in Sub : r # e.sub => mirror'[r] = mirror[r]
      BY <2>3 DEF HandleSubscriptionDeleted, MirrorInv, MirrorTypeOK
    <3>3. e.sub \notin reordered' =>
            mirror'[e.sub].status = "canceled" /\ mirror'[e.sub].deleted
      <4> SUFFICES ASSUME e.sub \notin reordered'
                   PROVE  mirror'[e.sub].status = "canceled"
                          /\ mirror'[e.sub].deleted
        OBVIOUS
      <4>1. mirror' = [mirror EXCEPT ![e.sub] =
                         [status |-> "canceled", deleted |-> TRUE]]
        BY <1>3, <2>3, <3>1 DEF HandleSubscriptionDeleted
      <4>2. mirror'[e.sub] = [status |-> "canceled", deleted |-> TRUE]
        BY <1>2, <4>1 DEF MirrorInv, MirrorTypeOK
      <4> QED BY <4>2
    <3> QED
      BY <1>1, <1>2, <3>1, <3>2, <3>3 DEF Mirrors, Mirrored
  \* A checkout that is passed by came after the update whose status Stripe still has.
  <2>4. CASE SkipCheckout(e)
    <3>1. mirror' = mirror /\ e.type = "checkout" /\ e.v # 1
      BY <1>2, <2>4 DEF SkipCheckout
    <3>2. e.sub \notin reordered' => Mirrored(e.sub)'
      BY <1>3, <3>1 DEF Mirrored
    <3>3. ASSUME Latest(e), e.sub \notin reordered' PROVE Mirrors(e.sub)'
      <4>1. stripe[e.sub].v > 0
        BY <1>2, MaxVersionPositive DEF History, MirrorInv, MirrorTypeOK
      <4>2. PICK g \in sent : g.sub = e.sub /\ g.type # "checkout" /\ Latest(g)
        BY <1>2, <4>1 DEF History
      <4>3. ~ (g.v > e.v)
        BY <3>3, <4>2 DEF Latest
      <4>4. g.v # e.v
        BY <3>1, <4>2 DEF History
      <4>5. g.v < e.v
        <5>1. g.v \in Int /\ e.v \in Int
          BY MaxVersionPositive DEF MirrorInv, MirrorTypeOK, Event
        <5> QED BY <4>3, <4>4, <5>1
      <4>6. g \in seen /\ e.sub \notin reordered
        BY <1>1, <3>3, <4>2, <4>5
      <4>7. Mirrors(e.sub)
        BY <1>2, <4>2, <4>6 DEF Ordered, LastIsMirrored
      <4>8. stripe' = stripe
        BY <1>1
      <4> QED BY <1>4, <3>1, <4>7, <4>8, Zenon DEF Mirrors
    <3> QED BY <3>1, <3>2, <3>3
  <2> QED BY <2>1, <2>2, <2>3, <2>4 DEF Handle
<1> QED
  BY <1>1, <1>5, AnsweredOrdered

LEMMA CompleteOrdered ==
  ASSUME MirrorInv, History, Ordered, NEW p \in read, HandleCheckoutCompleted(p)
  PROVE  Ordered'
<1> DEFINE e == p.event
<1>1. /\ e \in sent \ seen /\ seen' = seen \cup {e}
      /\ read' \subseteq read
      /\ UNCHANGED <<stripe, sent, reordered>>
      /\ Upsert(e.sub, p.status, "full")
  BY DEF HandleCheckoutCompleted, stripeVars, MirrorInv, MirrorTypeOK
<1>2. e.sub \in Sub /\ p.status \in StripeStatus
  BY DEF MirrorInv, MirrorTypeOK, Event
<1>3. e.sub \notin reordered' =>
        \A f \in sent : f.sub = e.sub /\ f.v < e.v => f \in seen
  BY <1>1, <1>2 DEF Ordered, ReadsInOrder
<1>4. /\ \A r \in Sub : r # e.sub => mirror'[r] = mirror[r]
      /\ mirror'[e.sub].status = p.status /\ ~ mirror'[e.sub].deleted
  BY <1>1, <1>2, UpsertWrites DEF Tag
<1>5. p.status # "none"
      /\ (Latest(e) => p.status = stripe[e.sub].status)
  BY DEF History
\* The read is of the current status, which is that of a checkout event.
<1>6. Latest(e) => stripe[e.sub].status # "canceled"
  BY <1>1 DEF MirrorInv, ReadsAreDistinct, History
<1>7. Mirrored(e.sub)' /\ (Latest(e) => Mirrors(e.sub)')
  BY <1>1, <1>4, <1>5, <1>6 DEF Mirrored, Mirrors
<1> HIDE DEF e
<1> QED
  BY <1>1, <1>3, <1>4, <1>7, AnsweredOrdered

LEMMA RetrieveOrdered ==
  ASSUME MirrorInv, History, Ordered, NEW e \in sent, RetrieveLive(e)
  PROVE  Ordered'
<1> DEFINE p == [event |-> e, status |-> stripe[e.sub].status]
<1>1. /\ read' = read \cup {p}
      /\ UNCHANGED <<stripe, sent, seen, mirror>>
      /\ reordered \subseteq reordered'
      /\ e.sub \notin reordered' =>
           \A f \in sent : f.sub = e.sub /\ f.v < e.v => f \in seen
  BY DEF RetrieveLive, Deliver, stripeVars
<1>2. p.event = e
  OBVIOUS
<1> HIDE DEF p
<1>3. ASSUME NEW r \in Sub \ reordered'
      PROVE  SeenInOrder(r)' /\ ReadsInOrder(r)'
  <2>1. SeenInOrder(r) /\ ReadsInOrder(r)
    BY <1>1 DEF Ordered
  <2> QED BY <1>1, <1>2, <2>1 DEF SeenInOrder, ReadsInOrder
<1>4. ASSUME NEW r \in Sub \ reordered'
      PROVE  SeenIsMirrored(r)' /\ LastIsMirrored(r)'
  <2>1. \A f : Latest(f)' <=> Latest(f)
    BY <1>1 DEF Latest
  <2>2. (TierUnknown(r)' <=> TierUnknown(r)) /\ r \in Sub \ reordered
    BY <1>1, <2>1 DEF TierUnknown
  <2> QED
    BY <1>1, <2>1, <2>2, Zenon
       DEF Ordered, SeenIsMirrored, LastIsMirrored, Mirrored, Mirrors
<1> QED
  BY <1>1, <1>3, <1>4 DEF Ordered

LEMMA StepOrdered ==
  ASSUME MirrorInv, History, Ordered, [MirrorNext]_mirrorVars PROVE Ordered'
<1>1. ASSUME NEW s \in Sub, Create(s) \/ Update(s) \/ Checkout(s) \/ Cancel(s)
      PROVE  Ordered'
  BY <1>1, ChangeOrdered DEF Create, Update, Checkout, Cancel
<1>2. CASE (\E p \in read : Rollback(p)) \/ UNCHANGED mirrorVars
  <2>1. read' \subseteq read
        /\ UNCHANGED <<stripe, sent, seen, mirror, reordered>>
    BY <1>2 DEF Rollback, stripeVars, mirrorVars
  <2>2. ASSUME NEW r \in Sub \ reordered
        PROVE  SeenInOrder(r)' /\ ReadsInOrder(r)'
    BY <2>1 DEF Ordered, SeenInOrder, ReadsInOrder
  <2>3. ASSUME NEW r \in Sub \ reordered
        PROVE  SeenIsMirrored(r)' /\ LastIsMirrored(r)'
    <3>1. \A f : Latest(f)' <=> Latest(f)
      BY <2>1 DEF Latest
    <3>2. TierUnknown(r)' <=> TierUnknown(r)
      BY <2>1, <3>1 DEF TierUnknown
    <3> QED
      BY <2>1, <3>1, <3>2, Zenon
         DEF Ordered, SeenIsMirrored, LastIsMirrored, Mirrored, Mirrors
  <2> QED BY <2>1, <2>2, <2>3 DEF Ordered
<1> QED
  BY <1>1, <1>2, HandleOrdered, RetrieveOrdered, CompleteOrdered
     DEF MirrorNext

(* Once every event of a subscription has been answered, the mirror agrees  *)
(* with Stripe, unless an event overtook an older one: for any number of    *)
(* subscriptions and changes, with duplicates, handlers that die and a live *)
(* read that is overtaken by a cancellation.                                *)
THEOREM OrderedMirrorTracksStripeHolds == MirrorSpec => []OrderedMirrorTracksStripe
<1>1. MirrorInit => History /\ Ordered
  BY InitHistory, InitOrdered
<1>2. MirrorInv /\ History /\ Ordered /\ [MirrorNext]_mirrorVars => (History /\ Ordered)'
  BY StepHistory, StepOrdered
<1>3. MirrorInv /\ History /\ Ordered => OrderedMirrorTracksStripe
  <2> SUFFICES ASSUME MirrorInv, History, Ordered, NEW s \in Sub \ reordered,
                      Quiet(s)
               PROVE  Mirrors(s)
    BY DEF OrderedMirrorTracksStripe
  <2>1. stripe[s].v \in Nat
    BY MaxVersionPositive DEF MirrorInv, MirrorTypeOK
  <2>2. CASE stripe[s].v = 0
    <3>1. mirror[s] = NoRow /\ stripe[s].status = "none"
      BY <2>2 DEF Ordered, History
    <3> QED BY <3>1 DEF Mirrors, NoRow
  <2>3. CASE stripe[s].v > 0
    <3>1. PICK e \in sent : e.sub = s /\ Latest(e)
      BY <2>3 DEF History
    <3>2. e \in seen
      BY <3>1 DEF Quiet
    <3> QED BY <3>1, <3>2 DEF Ordered, LastIsMirrored
  <2> QED BY <2>1, <2>2, <2>3
<1> QED
  BY Inductive, <1>1, <1>2, <1>3, PTL DEF MirrorSpec
=============================================================================
