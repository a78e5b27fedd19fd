----------------------------- MODULE WebhookDelivery -----------------------------
(***************************************************************************)
(* Webhook dispatch (services/webhooks): a row is committed as pending,    *)
(* the event is posted, the row is finalized in a second transaction.  A   *)
(* notice about overdue work orders does this order by order and stops at  *)
(* the first exception.  Nothing resumes or retries a delivery.            *)
(***************************************************************************)
EXTENDS Backend, SequencesExt

CONSTANTS
    Orders,         \* work orders an overdue notice can be about
    Triggers,       \* rows of rule_trigger_log
    MaxDeliveries,  \* rows of webhook_delivery_log (bound)
    Scopes,         \* the sets of orders and triggers a caller may see
    Enabled,        \* settings.webhook_enabled
    Configured      \* whether settings.webhook_wecom_bot_url is set

ASSUME WebhookAssumption ==
    /\ Enabled \in BOOLEAN /\ Configured \in BOOLEAN
    /\ MaxDeliveries \in Nat /\ None \notin Nat
    /\ None \notin {"success", "failed"}

VARIABLES
    due,            \* what the overdue checks tell apart of a work order
    deliveryLog,    \* webhook_delivery_log: delivery_status by primary key
    receiver,       \* what the receiver of an event did with it
    dispatch,       \* the local state of each open request
    abandoned       \* history: deliveries whose request ended before finalizing

webhookVars == <<due, deliveryLog, receiver, dispatch, abandoned>>

Deliveries == 1..MaxDeliveries     \* primary keys, given out in order

\* Where a request is, the orders (or other subject) still to do, the deliveries
\* done, and the current delivery with the result of sending it.
Doing(at, todo, dispatched, delivery, result) ==
    [at |-> at, todo |-> todo, dispatched |-> dispatched, delivery |-> delivery, result |-> result]
Free == Doing("free", <<>>, <<>>, None, None)

WebhookInit ==
    /\ due = [o \in Orders |-> "on_time"]
    /\ deliveryLog = [d \in Deliveries |-> "absent"]
    /\ receiver = [d \in Deliveries |-> "unsent"]
    /\ dispatch = [r \in Requests |-> Free]
    /\ abandoned = {}

At(r, place) == dispatch[r].at = place
Go(r, s) == dispatch' = [dispatch EXCEPT ![r] = s]
-----------------------------------------------------------------------------
\* due_time passes; the work-order endpoints close an order.  (An escalated one
\* stays late for good.)
OrderMoves(o) ==
    /\ due' = [due EXCEPT ![o] = IF @ = "on_time" THEN "late" ELSE "closed_late"]
    /\ due' # due
    /\ UNCHANGED <<deliveryLog, receiver, dispatch, abandoned>>

\* ensure_webhook_dispatch_allowed and resolve_target_url.
MayDispatch(explicitUrl) == explicitUrl \/ (Enabled /\ Configured)

\* What the caller asks a notice about: the test message, one rule trigger, one
\* work order that _is_order_overdue_for_webhook (which looks at due_time only), or
\* a scan, whose query asks for an open status too.  Loops over what it found.
Batches(visible) ==
    {<<"test">>}
    \cup {<<t>> : t \in Triggers \cap visible}
    \cup {<<o>> : o \in {q \in Orders \cap visible : due[q] # "on_time"}}
    \cup SetToSeqs({o \in Orders \cap visible : due[o] = "late"})

BeginDispatch(r) ==
    /\ At(r, "free")
    /\ \E visible \in Scopes, explicitUrl \in BOOLEAN :
          /\ MayDispatch(explicitUrl)
          /\ \E batch \in Batches(visible) \ {<<>>} :
                Go(r, Doing("create", batch, <<>>, None, None))
    /\ UNCHANGED <<due, deliveryLog, receiver, abandoned>>

\* create_delivery_log: the row is committed before anything is sent.
CreateLog(r, d) ==
    /\ At(r, "create")
    /\ deliveryLog[d] = "absent" /\ \A e \in 1..(d - 1) : deliveryLog[e] # "absent"
    /\ deliveryLog' = [deliveryLog EXCEPT ![d] = "pending"]
    /\ Go(r, Doing("send", dispatch[r].todo, dispatch[r].dispatched, d, None))
    /\ UNCHANGED <<due, receiver, abandoned>>

\* What the receiver does with an event, and whether its answer arrives in time.
Exchanges == {[did |-> "lost", answered |-> FALSE],         \* no connection
              [did |-> "refused", answered |-> TRUE],       \* non-2xx, errcode, no JSON
              [did |-> "refused", answered |-> FALSE],
              [did |-> "accepted", answered |-> TRUE],      \* 2xx with errcode 0
              [did |-> "accepted", answered |-> FALSE]}     \* served, then timed out

EvaluateMutTimeout(x) == IF x.answered => x.did = "accepted" THEN "success" ELSE "failed"

\* _evaluate_wecom_response and the handlers of TimeoutException and HTTPError.
Evaluate(x) == IF x.answered /\ x.did = "accepted" THEN "success" ELSE "failed"
Sent(s, x) == Doing("finalize", s.todo, s.dispatched, s.delivery, Evaluate(x))

SendMutRetry(r) ==                    \* an event without an answer is sent again
    /\ At(r, "send")
    /\ \E x \in Exchanges :
          /\ receiver' = [receiver EXCEPT ![dispatch[r].delivery] = x.did]
          /\ IF x.answered
             THEN Go(r, Sent(dispatch[r], x))
             ELSE UNCHANGED dispatch
    /\ UNCHANGED <<due, deliveryLog, abandoned>>

\* send_wecom_bot_message.
Send(r) ==
    /\ At(r, "send")
    /\ \E x \in Exchanges :
          /\ receiver' = [receiver EXCEPT ![dispatch[r].delivery] = x.did]
          /\ Go(r, Sent(dispatch[r], x))
    /\ UNCHANGED <<due, deliveryLog, abandoned>>

\* The loop goes on with the next order, or the response is returned.
AfterThis(s) ==
    IF Len(s.todo) = 1 THEN Free
    ELSE Doing("create", Tail(s.todo), Append(s.dispatched, s.delivery), None, None)

FinalizeMutBatch(r) ==                \* the rows of a batch are finalized together
    /\ At(r, "finalize")
    /\ deliveryLog' = IF Len(dispatch[r].todo) > 1 THEN deliveryLog
                      ELSE [d \in Deliveries |->
                              IF d = dispatch[r].delivery \/ d \in ToSet(dispatch[r].dispatched)
                              THEN dispatch[r].result ELSE deliveryLog[d]]
    /\ Go(r, AfterThis(dispatch[r]))
    /\ UNCHANGED <<due, receiver, abandoned>>

\* finalize_delivery_log, the second transaction.
Finalize(r) ==
    /\ At(r, "finalize")
    /\ deliveryLog' = [deliveryLog EXCEPT ![dispatch[r].delivery] = dispatch[r].result]
    /\ Go(r, AfterThis(dispatch[r]))
    /\ UNCHANGED <<due, receiver, abandoned>>

\* The worker is lost, or an exception no handler expects ends the request: an
\* invalid URL, an answer that is JSON but no object (the event was delivered
\* then), a database error.  A row already committed stays pending.
LoseDispatch(r) ==
    /\ ~ At(r, "free")
    /\ \/ UNCHANGED receiver
       \/ /\ At(r, "send")
          /\ \E did \in {"lost", "refused", "accepted"} :
                receiver' = [receiver EXCEPT ![dispatch[r].delivery] = did]
    /\ abandoned' = IF At(r, "create") THEN abandoned ELSE abandoned \cup {dispatch[r].delivery}
    /\ Go(r, Free)
    /\ UNCHANGED <<due, deliveryLog>>
-----------------------------------------------------------------------------
\* What the worker of request r does by itself; the HTTP client has a timeout.
Work(r) == (\E d \in Deliveries : CreateLog(r, d)) \/ Send(r) \/ Finalize(r)

WebhookNext ==
    \/ \E o \in Orders : OrderMoves(o)
    \/ \E r \in Requests : BeginDispatch(r) \/ Work(r) \/ LoseDispatch(r)

WebhookSpec == WebhookInit /\ [][WebhookNext]_webhookVars
FairWebhookSpec == WebhookSpec /\ \A r \in Requests : WF_webhookVars(Work(r))
=============================================================================
