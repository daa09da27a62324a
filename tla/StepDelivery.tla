---------------------------- MODULE StepDelivery ----------------------------
(***************************************************************************)
(* How the in-process backend of kairyu/engine/kairyu_backend.py delivers   *)
(* what the engine loop presents: the output lane posts each batch to the   *)
(* event loop with call_soon_threadsafe, and _publish_step later hands every *)
(* update to the queue that is registered under its request id by then.     *)
(***************************************************************************)
EXTENDS EngineLoop

CONSTANT MaxPosted      \* bound: batches the event loop lags behind

VARIABLE posted         \* batches posted to the event loop, oldest first

Post(inputs) == posted' = IF inputs = {} THEN posted ELSE Append(posted, inputs)

\* A barrier batch is posted once its feedback is applied, any other batch
\* when the output lane has presented it.
Advance ==
    /\ Len(posted) < MaxPosted
    /\ StepThread
    /\ IF pc = "output" THEN Post(batch)
       ELSE IF pc = "commit" /\ pc' = "idle"
       THEN Post({[req |-> r, life |-> life[r]] : r \in
                     {x \in Requests : tracked[x] # None /\ tracked'[x] # tracked[x]}})
       ELSE UNCHANGED posted

\* _publish_step
PublishStep ==
    /\ posted # <<>>
    /\ posted' = Tail(posted)
    /\ UNCHANGED vars

Undelivered(r) == \E i \in DOMAIN posted : \E u \in posted[i] : u.req = r

\* The backend's _active_request_ids: an id is reserved until its client has
\* received the end of its stream or has left.
SubmitAgain(r) ==
    /\ stream[r] = "ended" => ~Undelivered(r)
    /\ Submit(r)

\* The client leaves while the end of its stream is on its way.
LeaveUndelivered(r) ==
    /\ stream[r] = "ended" /\ Undelivered(r)
    /\ Abandon(r)

DeliveryInit == Init /\ posted = <<>>

DeliveryNext ==
    \/ Advance
    \/ PublishStep
    \/ \E r \in Requests :
           (SubmitAgain(r) \/ Leave(r) \/ LeaveUndelivered(r)) /\ UNCHANGED posted
    \/ Close /\ UNCHANGED posted

DeliverySpec == DeliveryInit /\ [][DeliveryNext]_<<vars, posted>>

\* An update that is about to be published belongs to the stream that will
\* receive it: reusing a request id is not poisoned by its previous stream.
UpdatesReachTheirStream ==
    \A i \in DOMAIN posted : \A u \in posted[i] :
        stream[u.req] = "open" => u.life = life[u.req]
=============================================================================
