------------------------- MODULE WebhookDelivery_proofs -------------------------
(***************************************************************************)
(* WebhookDelivery implements DeliveryLedger for any number of requests,   *)
(* orders and deliveries.  The invariant says what a request in the middle *)
(* of a delivery may rely on: the row is its own, pending, and unsent      *)
(* until it has sent it.                                                   *)
(***************************************************************************)
EXTENDS WebhookProperties, TLAPS

Places == {"free", "create", "send", "finalize"}
WebhookTypes ==
    /\ deliveryLog \in [Deliveries -> {"absent", "pending", "success", "failed"}]
    /\ receiver \in [Deliveries -> {"unsent"} \cup Ledger!Verdicts]
    /\ \A r \in Requests : dispatch[r].at \in Places
    /\ \A r \in Requests : Delivering(r) => dispatch[r].delivery \in Deliveries
    /\ DOMAIN dispatch = Requests

\* Nothing is sent before it is written down, and a request's delivery is its own.
OwnDelivery(r) ==
    Delivering(r) =>
        /\ deliveryLog[dispatch[r].delivery] = "pending"
        /\ At(r, "send") => receiver[dispatch[r].delivery] = "unsent"
        /\ At(r, "finalize") =>
             /\ receiver[dispatch[r].delivery] # "unsent"
             /\ \/ dispatch[r].result = "failed"
                \/ dispatch[r].result = "success" /\ receiver[dispatch[r].delivery] = "accepted"
        /\ \A q \in Requests \ {r} : Delivering(q) => dispatch[q].delivery # dispatch[r].delivery

WebhookInv ==
    /\ WebhookTypes
    /\ \A d \in Deliveries : deliveryLog[d] = "absent" => receiver[d] = "unsent"
    /\ \A r \in Requests : OwnDelivery(r)

\* After the response, or the next order of the batch, a request delivers nothing.
LEMMA AfterFinalize ==
    ASSUME NEW s
    PROVE AfterThis(s).at \in {"free", "create"}
BY DEF AfterThis, Free, Doing

\* The invariant holds initially.
LEMMA InitInv == WebhookInit => WebhookInv
BY DEF WebhookInit, WebhookInv, WebhookTypes, OwnDelivery, Delivering, At, Free, Places, Doing

\* Writing the row down: nobody else delivers it, it was absent.
LEMMA CreateKeeps ==
    ASSUME WebhookInv, NEW r \in Requests, NEW d \in Deliveries, CreateLog(r, d)
    PROVE WebhookInv'
<1> DEFINE s == dispatch[r]  n == Doing("send", s.todo, s.dispatched, d, None)
<1>1. /\ dispatch' = [dispatch EXCEPT ![r] = n]
      /\ deliveryLog' = [deliveryLog EXCEPT ![d] = "pending"] /\ receiver' = receiver
      /\ deliveryLog[d] = "absent"
  BY DEF CreateLog, Go
<1>3. n.at = "send" /\ n.delivery = d
  BY DEF Doing
<1> HIDE DEF n
<1>4. WebhookTypes'
  BY <1>1, <1>3 DEF WebhookInv, WebhookTypes, Delivering, Places
<1>5. \A q \in Requests : OwnDelivery(q)'
  BY <1>1, <1>3 DEF WebhookInv, WebhookTypes, OwnDelivery, Delivering, At
<1> QED
  BY <1>1, <1>4, <1>5 DEF WebhookInv, WebhookTypes

\* Sending: the event was unsent, and the result fits what the receiver did.
LEMMA SendKeeps ==
    ASSUME WebhookInv, NEW r \in Requests, Send(r)
    PROVE WebhookInv'
<1> DEFINE s == dispatch[r]
<1>1. PICK x \in Exchanges :
          /\ receiver' = [receiver EXCEPT ![s.delivery] = x.did]
          /\ dispatch' = [dispatch EXCEPT ![r] = Sent(s, x)]
  BY DEF Send, Go
<1> DEFINE n == Sent(s, x)
<1>2. s.at = "send" /\ s.delivery \in Deliveries /\ deliveryLog' = deliveryLog
  BY DEF WebhookInv, WebhookTypes, Send, At, Delivering
<1>3. n.at = "finalize" /\ n.delivery = s.delivery /\ n.result = Evaluate(x)
  BY DEF Sent, Doing
<1>4. /\ x.did \in Ledger!Verdicts
      /\ Evaluate(x) = "failed" \/ (Evaluate(x) = "success" /\ x.did = "accepted")
  BY DEF Exchanges, Evaluate, Ledger!Verdicts
<1> HIDE DEF n
<1>5. WebhookTypes'
  BY <1>1, <1>2, <1>3, <1>4 DEF n, WebhookInv, WebhookTypes, Delivering, Places
<1>6. \A q \in Requests : OwnDelivery(q)'
  BY <1>1, <1>2, <1>3, <1>4 DEF n, WebhookInv, WebhookTypes, OwnDelivery, Delivering, At, Ledger!Verdicts
<1>7. deliveryLog[s.delivery] = "pending"
  BY <1>2 DEF WebhookInv, OwnDelivery, Delivering
<1> QED
  BY <1>1, <1>2, <1>5, <1>6, <1>7 DEF WebhookInv, WebhookTypes

\* Finalizing: the request lets go of its delivery.
LEMMA FinalizeKeeps ==
    ASSUME WebhookInv, NEW r \in Requests, Finalize(r)
    PROVE WebhookInv'
<1> DEFINE s == dispatch[r]  n == AfterThis(s)
<1>1. /\ deliveryLog' = [deliveryLog EXCEPT ![s.delivery] = s.result]
      /\ dispatch' = [dispatch EXCEPT ![r] = n] /\ receiver' = receiver
      /\ s.at = "finalize"
  BY DEF Finalize, Go, At
<1>2. /\ s.delivery \in Deliveries /\ s.result \in {"success", "failed"}
      /\ \A q \in Requests \ {r} : Delivering(q) => dispatch[q].delivery # s.delivery
  BY <1>1 DEF WebhookInv, WebhookTypes, OwnDelivery, Delivering, At
<1>3. n.at \in {"free", "create"}
  BY AfterFinalize
<1> HIDE DEF n
<1>4. WebhookTypes'
  BY <1>1, <1>2, <1>3 DEF WebhookInv, WebhookTypes, Delivering, Places
<1>5. \A q \in Requests : OwnDelivery(q)'
  BY <1>1, <1>2, <1>3 DEF WebhookInv, WebhookTypes, OwnDelivery, Delivering, At
<1> QED
  BY <1>1, <1>2, <1>4, <1>5 DEF WebhookInv, WebhookTypes

\* Losing a request: at most its own unsent event reached the receiver.
LEMMA LoseKeeps ==
    ASSUME WebhookInv, NEW r \in Requests, LoseDispatch(r)
    PROVE WebhookInv'
<1>1. /\ dispatch' = [dispatch EXCEPT ![r] = Free] /\ deliveryLog' = deliveryLog
      /\ \/ receiver' = receiver
         \/ /\ At(r, "send")
            /\ \E v \in Ledger!Verdicts : receiver' = [receiver EXCEPT ![dispatch[r].delivery] = v]
  BY DEF LoseDispatch, Go, Ledger!Verdicts
<1>2. Free.at = "free"
  BY DEF Free, Doing
<1>3. At(r, "send") =>
          /\ dispatch[r].delivery \in Deliveries /\ deliveryLog[dispatch[r].delivery] = "pending"
          /\ \A q \in Requests \ {r} : Delivering(q) => dispatch[q].delivery # dispatch[r].delivery
  BY DEF WebhookInv, WebhookTypes, OwnDelivery, Delivering, At
<1>4. WebhookTypes'
  BY <1>1, <1>2, <1>3 DEF WebhookInv, WebhookTypes, Delivering, Places
<1>5. \A q \in Requests : OwnDelivery(q)'
  BY <1>1, <1>2, <1>3 DEF WebhookInv, WebhookTypes, OwnDelivery, Delivering, At
<1> QED
  BY <1>1, <1>3, <1>4, <1>5 DEF WebhookInv, WebhookTypes

\* Starting a request: it holds no delivery yet.
LEMMA BeginKeeps ==
    ASSUME WebhookInv, NEW r \in Requests, BeginDispatch(r)
    PROVE WebhookInv'
<1>1. PICK batch : dispatch' = [dispatch EXCEPT ![r] = Doing("create", batch, <<>>, None, None)]
  BY DEF BeginDispatch, Go
<1> DEFINE n == Doing("create", batch, <<>>, None, None)
<1>2. n.at = "create"
  BY DEF Doing
<1>3. deliveryLog' = deliveryLog /\ receiver' = receiver
  BY DEF BeginDispatch
<1> HIDE DEF n
<1>4. WebhookTypes'
  BY <1>1, <1>2, <1>3 DEF n, WebhookInv, WebhookTypes, Delivering, Places
<1>5. \A q \in Requests : OwnDelivery(q)'
  BY <1>1, <1>2, <1>3 DEF n, WebhookInv, WebhookTypes, OwnDelivery, Delivering, At
<1> QED
  BY <1>3, <1>4, <1>5 DEF WebhookInv

\* Every step keeps the invariant.
LEMMA StepInv == WebhookInv /\ [WebhookNext]_webhookVars => WebhookInv'
<1> SUFFICES ASSUME WebhookInv, [WebhookNext]_webhookVars PROVE WebhookInv'
  OBVIOUS
<1>1. ASSUME NEW o \in Orders, OrderMoves(o) PROVE WebhookInv'
  BY <1>1 DEF OrderMoves, WebhookInv, WebhookTypes, OwnDelivery, Delivering, At
<1>2. CASE UNCHANGED webhookVars
  BY <1>2 DEF webhookVars, WebhookInv, WebhookTypes, OwnDelivery, Delivering, At
<1> QED
  BY <1>1, <1>2, BeginKeeps, CreateKeeps, SendKeeps, FinalizeKeeps, LoseKeeps
  DEF WebhookNext, Work

\* Every step is a step of the ledger or changes nothing in it.
LEMMA StepImplements ==
    WebhookInv /\ [WebhookNext]_webhookVars => [Ledger!LedgerNext]_(Ledger!ledgerVars)
<1> SUFFICES ASSUME WebhookInv, [WebhookNext]_webhookVars
             PROVE Ledger!LedgerNext \/ UNCHANGED <<deliveryLog, receiver>>
  BY DEF Ledger!ledgerVars
<1>1. ASSUME NEW r \in Requests, NEW d \in Deliveries, CreateLog(r, d)
      PROVE Ledger!WriteDown(d)
  BY <1>1 DEF CreateLog, Ledger!WriteDown
<1>2. ASSUME NEW r \in Requests, Send(r)
      PROVE Ledger!SendOnce(dispatch[r].delivery) /\ dispatch[r].delivery \in Deliveries
  <2>1. /\ dispatch[r].delivery \in Deliveries /\ deliveryLog' = deliveryLog
        /\ deliveryLog[dispatch[r].delivery] = "pending"
        /\ receiver[dispatch[r].delivery] = "unsent"
    BY <1>2 DEF Send, WebhookInv, WebhookTypes, OwnDelivery, Delivering, At
  <2>2. PICK x \in Exchanges : receiver' = [receiver EXCEPT ![dispatch[r].delivery] = x.did]
    BY <1>2 DEF Send
  <2>3. x.did \in Ledger!Verdicts
    BY DEF Exchanges, Ledger!Verdicts
  <2> QED
    BY <2>1, <2>2, <2>3 DEF Ledger!SendOnce
<1>3. ASSUME NEW r \in Requests, Finalize(r)
      PROVE Ledger!Settle(dispatch[r].delivery) /\ dispatch[r].delivery \in Deliveries
  BY <1>3 DEF Finalize, WebhookInv, WebhookTypes, OwnDelivery, Delivering, At, Ledger!Settle
<1>4. ASSUME NEW r \in Requests, LoseDispatch(r)
      PROVE \/ UNCHANGED <<deliveryLog, receiver>>
            \/ Ledger!SendOnce(dispatch[r].delivery) /\ dispatch[r].delivery \in Deliveries
  BY <1>4 DEF LoseDispatch, WebhookInv, WebhookTypes, OwnDelivery, Delivering, At,
     Ledger!SendOnce, Ledger!Verdicts
<1>5. ASSUME NEW r \in Requests, BeginDispatch(r) PROVE UNCHANGED <<deliveryLog, receiver>>
  BY <1>5 DEF BeginDispatch
<1>6. ASSUME NEW o \in Orders, OrderMoves(o) PROVE UNCHANGED <<deliveryLog, receiver>>
  BY <1>6 DEF OrderMoves
<1> QED
  BY <1>1, <1>2, <1>3, <1>4, <1>5, <1>6 DEF WebhookNext, Work, Ledger!LedgerNext, webhookVars

\* The invariant of the delivery log holds in every reachable state.
THEOREM WebhookAlways == WebhookSpec => []WebhookInv
<1> QED
  BY InitInv, StepInv, PTL DEF WebhookSpec

\* Whatever times out, is lost or overlaps: an event is written down before it is
\* sent, sent at most once, settled at most once, and "success" means received.
THEOREM DeliveryImplementsLedger == WebhookSpec => KeepsLedger
<1>1. WebhookInit => Ledger!LedgerInit
  BY DEF WebhookInit, Ledger!LedgerInit
<1> QED
  BY <1>1, InitInv, StepInv, StepImplements, PTL DEF WebhookSpec, KeepsLedger, Ledger!LedgerSpec
-----------------------------------------------------------------------------
\* Who is behind a pending row, and that a batch leaves only settled rows behind.
Behind(d) == d \in abandoned \/ \E r \in Requests : Delivering(r) /\ dispatch[r].delivery = d
SettledBatch(r) ==
    ~ At(r, "free") =>
        /\ dispatch[r].dispatched \in Seq(Deliveries)
        /\ \A i \in DOMAIN dispatch[r].dispatched :
              deliveryLog[dispatch[r].dispatched[i]] \in {"success", "failed"}
PendingInv ==
    /\ \A d \in Deliveries : deliveryLog[d] = "pending" => Behind(d)
    /\ \A r \in Requests : SettledBatch(r)

\* A row once settled is not touched any more: who changes a row owns it, pending.
LEMMA SettledStays ==
    ASSUME WebhookInv, NEW r \in Requests, BeginDispatch(r) \/ Work(r) \/ LoseDispatch(r),
           NEW d \in Deliveries, deliveryLog[d] \in {"success", "failed"}
    PROVE deliveryLog'[d] = deliveryLog[d]
<1>1. ASSUME NEW e \in Deliveries, CreateLog(r, e) PROVE deliveryLog'[d] = deliveryLog[d]
  BY <1>1 DEF CreateLog, WebhookInv, WebhookTypes
<1>2. ASSUME Finalize(r) PROVE deliveryLog'[d] = deliveryLog[d]
  BY <1>2 DEF Finalize, WebhookInv, WebhookTypes, OwnDelivery, Delivering, At
<1> QED
  BY <1>1, <1>2 DEF Work, BeginDispatch, Send, LoseDispatch

\* A batch that goes on has settled one more delivery, or starts with none.
LEMMA BatchKeeps ==
    ASSUME WebhookInv, PendingInv, NEW r \in Requests,
           BeginDispatch(r) \/ Work(r) \/ LoseDispatch(r)
    PROVE \A q \in Requests : SettledBatch(q)'
<1> SUFFICES ASSUME NEW q \in Requests, ~ At(q, "free")' PROVE SettledBatch(q)'
  BY DEF SettledBatch
<1>1. ASSUME dispatch'[q].dispatched = dispatch[q].dispatched, ~ At(q, "free")
      PROVE SettledBatch(q)'
  <2>1. /\ dispatch[q].dispatched \in Seq(Deliveries)
        /\ \A i \in DOMAIN dispatch[q].dispatched :
              deliveryLog[dispatch[q].dispatched[i]] \in {"success", "failed"}
    BY <1>1 DEF PendingInv, SettledBatch
  <2>2. \A i \in DOMAIN dispatch[q].dispatched : dispatch[q].dispatched[i] \in Deliveries
    BY <2>1
  <2> QED
    BY <1>1, <2>1, <2>2, SettledStays DEF SettledBatch
<1>2. CASE q # r
  BY <1>1, <1>2 DEF BeginDispatch, Work, CreateLog, Send, Finalize, LoseDispatch, Go, At,
     WebhookInv, WebhookTypes
<1>3. ASSUME q = r, BeginDispatch(r) PROVE SettledBatch(q)'
  <2>1. dispatch'[r].dispatched = <<>>
    BY <1>3 DEF BeginDispatch, Go, Doing, WebhookInv, WebhookTypes
  <2> QED
    BY <1>3, <2>1 DEF SettledBatch
<1>4. ASSUME q = r, NEW d \in Deliveries, CreateLog(r, d) PROVE SettledBatch(q)'
  <2>1. dispatch'[r].dispatched = dispatch[r].dispatched /\ ~ At(r, "free")
    BY <1>4 DEF CreateLog, Go, At, Doing, WebhookInv, WebhookTypes
  <2> QED
    BY <1>1, <1>4, <2>1
<1>5. ASSUME q = r, Send(r) PROVE SettledBatch(q)'
  <2>1. dispatch'[r].dispatched = dispatch[r].dispatched /\ ~ At(r, "free")
    BY <1>5 DEF Send, Sent, Go, At, Doing, WebhookInv, WebhookTypes
  <2> QED
    BY <1>1, <1>5, <2>1
<1>6. ASSUME q = r, Finalize(r) PROVE SettledBatch(q)'
  <2> DEFINE s == dispatch[r]
  <2>1. /\ s.at = "finalize" /\ s.delivery \in Deliveries
        /\ s.result \in {"success", "failed"}
        /\ deliveryLog' = [deliveryLog EXCEPT ![s.delivery] = s.result]
    BY <1>6 DEF Finalize, WebhookInv, WebhookTypes, OwnDelivery, Delivering, At
  <2>2. dispatch'[r] = AfterThis(s)
    BY <1>6 DEF Finalize, Go, WebhookInv, WebhookTypes
  <2>3. dispatch'[r].dispatched = Append(s.dispatched, s.delivery)
    BY <1>6, <2>2 DEF AfterThis, Free, Doing, At
  <2>4. /\ s.dispatched \in Seq(Deliveries)
        /\ \A i \in DOMAIN s.dispatched : deliveryLog[s.dispatched[i]] \in {"success", "failed"}
    BY <2>1 DEF PendingInv, SettledBatch, At
  <2> DEFINE t == Append(s.dispatched, s.delivery)
  <2>5. t \in Seq(Deliveries)
    BY <2>1, <2>4
  <2>6. \A i \in DOMAIN t : (i \in DOMAIN s.dispatched /\ t[i] = s.dispatched[i]) \/ t[i] = s.delivery
    BY <2>1, <2>4
  <2>7. \A i \in DOMAIN s.dispatched : s.dispatched[i] \in Deliveries
    BY <2>4
  <2>8. \A i \in DOMAIN s.dispatched : deliveryLog'[s.dispatched[i]] = deliveryLog[s.dispatched[i]]
    BY <1>6, <2>4, <2>7, SettledStays DEF Work
  <2>9. deliveryLog'[s.delivery] = s.result
    BY <2>1 DEF WebhookInv, WebhookTypes
  <2> HIDE DEF t
  <2>10. \A i \in DOMAIN t : deliveryLog'[t[i]] \in {"success", "failed"}
    BY <2>1, <2>4, <2>6, <2>8, <2>9
  <2> QED
    BY <1>6, <2>3, <2>5, <2>10 DEF SettledBatch, t
<1>7. ASSUME q = r, LoseDispatch(r) PROVE FALSE
  BY <1>7 DEF LoseDispatch, Go, At, Free, Doing, WebhookInv, WebhookTypes
<1> QED
  BY <1>2, <1>3, <1>4, <1>5, <1>6, <1>7 DEF Work

\* A pending row keeps somebody behind it until it is settled.
LEMMA PendingKeeps ==
    ASSUME WebhookInv, PendingInv, NEW r \in Requests,
           BeginDispatch(r) \/ Work(r) \/ LoseDispatch(r)
    PROVE \A d \in Deliveries : deliveryLog'[d] = "pending" => Behind(d)'
<1> SUFFICES ASSUME NEW d \in Deliveries, deliveryLog'[d] = "pending" PROVE Behind(d)'
  OBVIOUS
<1>1. ASSUME NEW q \in Requests, q # r, Delivering(q), dispatch[q].delivery = d PROVE Behind(d)'
  BY <1>1 DEF Behind, Delivering, BeginDispatch, Work, CreateLog, Send, Finalize, LoseDispatch,
     Go, WebhookInv, WebhookTypes
<1>2. ASSUME d \in abandoned PROVE Behind(d)'
  BY <1>2 DEF Behind, BeginDispatch, Work, CreateLog, Send, Finalize, LoseDispatch
<1>3. ASSUME BeginDispatch(r) PROVE Behind(d)'
  <2>1. deliveryLog[d] = "pending" /\ ~ Delivering(r)
    BY <1>3 DEF BeginDispatch, At, Delivering
  <2> QED
    BY <1>1, <1>2, <2>1 DEF PendingInv, Behind
<1>4. ASSUME NEW e \in Deliveries, CreateLog(r, e) PROVE Behind(d)'
  <2>1. CASE d = e
    BY <1>4, <2>1 DEF CreateLog, Go, Behind, Delivering, Doing, WebhookInv, WebhookTypes
  <2>2. CASE d # e
    <3>1. deliveryLog[d] = "pending" /\ ~ Delivering(r)
      BY <1>4, <2>2 DEF CreateLog, At, Delivering, WebhookInv, WebhookTypes
    <3> QED
      BY <1>1, <1>2, <3>1 DEF PendingInv, Behind
  <2> QED
    BY <2>1, <2>2
<1>5. ASSUME Send(r) PROVE Behind(d)'
  <2>1. /\ deliveryLog[d] = "pending"
        /\ dispatch'[r].at = "finalize" /\ dispatch'[r].delivery = dispatch[r].delivery
    BY <1>5 DEF Send, Sent, Go, Doing, WebhookInv, WebhookTypes
  <2> QED
    BY <1>1, <1>2, <2>1 DEF PendingInv, Behind, Delivering
<1>6. ASSUME Finalize(r) PROVE Behind(d)'
  <2>1. deliveryLog[d] = "pending" /\ dispatch[r].delivery # d
    BY <1>6 DEF Finalize, WebhookInv, WebhookTypes, OwnDelivery, Delivering, At
  <2> QED
    BY <1>1, <1>2, <2>1 DEF PendingInv, Behind
<1>7. ASSUME LoseDispatch(r) PROVE Behind(d)'
  <2>1. deliveryLog[d] = "pending" /\ (Delivering(r) => dispatch[r].delivery \in abandoned')
    BY <1>7 DEF LoseDispatch, At, Delivering
  <2> QED
    BY <1>1, <1>2, <2>1 DEF PendingInv, Behind
<1> QED
  BY <1>3, <1>4, <1>5, <1>6, <1>7 DEF Work

\* Every step keeps both.
LEMMA StepPending == WebhookInv /\ PendingInv /\ [WebhookNext]_webhookVars => PendingInv'
<1> SUFFICES ASSUME WebhookInv, PendingInv, [WebhookNext]_webhookVars PROVE PendingInv'
  OBVIOUS
<1>1. CASE UNCHANGED <<deliveryLog, dispatch, abandoned>>
  BY <1>1 DEF PendingInv, Behind, SettledBatch, Delivering, At
<1>2. ASSUME NEW o \in Orders, OrderMoves(o) PROVE PendingInv'
  BY <1>1, <1>2 DEF OrderMoves
<1> QED
  BY <1>1, <1>2, BatchKeeps, PendingKeeps DEF WebhookNext, PendingInv, webhookVars

\* A pending row is being delivered by one request or was abandoned by a lost one, and
\* what a batch has gone past is settled, for any number of requests and deliveries.
THEOREM PendingAlwaysExplained == WebhookSpec => []PendingExplained
<1>1. WebhookInit => PendingInv
  BY DEF WebhookInit, PendingInv, SettledBatch, At, Free, Doing
<1>2. WebhookInv /\ PendingInv => PendingExplained
  BY DEF WebhookInv, OwnDelivery, PendingInv, Behind, SettledBatch, PendingExplained, Delivering, ToSet
<1> QED
  BY <1>1, <1>2, InitInv, StepInv, StepPending, PTL DEF WebhookSpec
=============================================================================
