----------------------------- MODULE PortalBinding -----------------------------
(***************************************************************************)
(* A shortcut session of the desktop portal: bind_portal_session,          *)
(* await_monitored_response and PortalSession of                           *)
(* overcrow-core/src/shortcut.rs.  A request to the portal has two         *)
(* answers, the reply of the method (which names the request) and a        *)
(* Response signal; they arrive on streams of their own, which select!     *)
(* reads in any order, next to the changes of the portal's owner.  The     *)
(* portal and the bus are external.                                        *)
(***************************************************************************)
EXTENDS Naturals, Sequences

CONSTANTS BufferMax, \* MAX_BUFFERED_REQUEST_RESPONSES
          Budgets    \* records [binds, owners, closes, presses, noise]

VARIABLES pc,       \* where bind_portal_session is, or "bound", or "idle"
          returned, \* the method's reply has been taken
          buffered, \* responses read before it: [source, path, code]
          watching, \* the streams that are subscribed to
          predicted, any, owners, activations, closed, \* their unread messages
          reply,    \* the unread reply: "none", "ok" or "error"
          owner,    \* the portal's unique name, 0 for none
          names,    \* unique names used so far
          legacy,   \* the portal names requests in its own way
          asked,    \* the request it works on: "create" or "bind"
          request,  \* the answers it still owes: a subset of {"reply", "response"}
          session,  \* at the portal: "none", "made" or "bound"
          missed,   \* an activation found no stream
          budget

client == <<pc, returned, buffered>>
streams == <<watching, predicted, any, owners, activations, closed, reply>>
portal == <<owner, names, legacy, asked, request, session>>
vars == <<client, streams, portal, missed, budget>>

Init ==
    /\ pc = "idle" /\ returned = FALSE /\ buffered = <<>>
    /\ watching = {} /\ predicted = <<>> /\ any = <<>> /\ owners = <<>>
    /\ activations = 0 /\ closed = 0 /\ reply = "none"
    /\ owner \in {0, 1} /\ names = 1 /\ legacy \in BOOLEAN
    /\ asked = "create" /\ request = {} /\ session = "none"
    /\ missed = FALSE /\ budget \in Budgets

Spend(kind) == budget[kind] > 0 /\ budget' = [budget EXCEPT ![kind] = @ - 1]

\* The connection is dropped: the streams end, and the portal ends the session.
Dropped ==
    /\ pc' = "idle" /\ returned' = FALSE /\ buffered' = <<>>
    /\ watching' = {} /\ predicted' = <<>> /\ any' = <<>> /\ owners' = <<>>
    /\ activations' = 0 /\ closed' = 0 /\ reply' = "none"
    /\ request' = {} /\ session' = "none"
    /\ UNCHANGED <<owner, names, legacy, asked, missed, budget>>

------------------------------------------------------------------------------
(* bind_portal_session, one action for each await.                         *)

Connect ==
    /\ pc = "idle" /\ Spend("binds") /\ pc' = "watch"
    /\ UNCHANGED <<returned, buffered, streams, portal, missed>>

\* Subscribing to a signal; later ones are queued.
Subscribe(step, signal, next) ==
    /\ pc = step /\ pc' = next
    /\ watching' = watching \cup {signal}
    /\ UNCHANGED <<returned, buffered, predicted, any, owners, activations, closed, reply,
                   portal, missed, budget>>

PortalOwnerChangeStream == Subscribe("watch", "owner", "register")

\* register_host_portal_identity: the call starts a portal that is not running.  A
\* portal without a registry is as good; another error ends the attempt.
Register ==
    /\ pc = "register"
    /\ \/ /\ pc' = "create"
          /\ IF owner = 0
               THEN /\ owner' = names + 1 /\ names' = names + 1
                    /\ owners' = Append(owners, <<0, names + 1>>)
               ELSE UNCHANGED <<owner, names, owners>>
          /\ UNCHANGED <<returned, buffered, watching, predicted, any, activations, closed,
                         reply, legacy, asked, request, session, missed, budget>>
       \/ Dropped

\* await_request_response: both response streams, then the call.
AwaitRequestResponse(step, next) ==
    /\ pc = step /\ pc' = next /\ asked' = step
    /\ returned' = FALSE /\ buffered' = <<>> /\ predicted' = <<>> /\ any' = <<>>
    /\ reply' = IF owner = 0 THEN "error" ELSE "none"
    /\ request' = IF owner = 0 THEN {} ELSE {"reply", "response"}
    /\ UNCHANGED <<watching, owners, activations, closed, owner, names, legacy, session,
                   missed, budget>>

CreateSession == AwaitRequestResponse("create", "creating")

ReceiveActivated == Subscribe("activated", "activated", "closed")
ReceiveClosed == Subscribe("closed", "closed", "bind")

BindShortcuts == AwaitRequestResponse("bind", "binding")

\* What a successful response leads to.
After == [creating |-> "activated", binding |-> "bound"]

------------------------------------------------------------------------------
(* await_monitored_response.                                               *)

\* request_path_strategy: the reply named the path we predicted, or one of its own.
Returned == IF legacy THEN "legacy" ELSE "predicted"

\* Mutant: the response of any request is taken.
ResponseMatches_any(r) == TRUE

ResponseMatches(r) ==
    /\ r.source = (IF Returned = "predicted" THEN "predicted" ELSE "any")
    /\ r.path = Returned

\* parse_create_response, or parse_bind_results: all the shortcuts are bound.
Accept(r) ==
    IF r.code = "ok"
      THEN /\ pc' = After[pc] /\ returned' = FALSE /\ buffered' = <<>>
           /\ predicted' = <<>> /\ any' = <<>>
           /\ UNCHANGED <<watching, owners, activations, closed, reply, portal, missed, budget>>
      ELSE Dropped

CallReturns ==
    /\ pc \in DOMAIN After /\ ~returned /\ reply # "none"
    /\ LET hits == {k \in DOMAIN buffered : ResponseMatches(buffered[k])}
       IN  CASE reply = "error" -> Dropped
             [] reply = "ok" /\ hits # {} ->
                  \E k \in hits : (\A j \in hits : k <= j) /\ Accept(buffered[k])
             [] OTHER ->
                  /\ returned' = TRUE
                  /\ UNCHANGED <<pc, buffered, streams, portal, missed, budget>>

\* A response read by await_monitored_response, its message already taken.
Read(r) ==
    CASE returned /\ ResponseMatches(r) -> Accept(r)
      [] returned /\ ~ResponseMatches(r) ->
           UNCHANGED <<client, watching, owners, activations, closed, reply, portal, missed, budget>>
      [] ~returned /\ Len(buffered) < BufferMax ->
           /\ buffered' = Append(buffered, r)
           /\ UNCHANGED <<pc, returned, watching, owners, activations, closed, reply, portal,
                          missed, budget>>
      [] OTHER -> Dropped

\* The response ends the wait, or ends the attempt: the streams go with it.
Ends(r) == IF returned THEN ResponseMatches(r) ELSE Len(buffered) = BufferMax

ReadResponse ==
    /\ pc \in DOMAIN After
    /\ \/ /\ predicted # <<>>
          /\ LET r == [source |-> "predicted", path |-> Head(predicted).path, code |-> Head(predicted).code]
             IN  Read(r) /\ (~Ends(r) => predicted' = Tail(predicted) /\ any' = any)
       \/ /\ any # <<>>
          /\ LET r == [source |-> "any", path |-> Head(any).path, code |-> Head(any).code]
             IN  Read(r) /\ (~Ends(r) => any' = Tail(any) /\ predicted' = predicted)

\* portal_owner_change_event: a portal that starts is no loss.
OwnerLost(change) == change[1] # 0

\* The owner stream is read while a response is awaited and while the session is bound;
\* the broker then closes what it has.
ReadOwner ==
    /\ pc \in DOMAIN After \cup {"bound"} /\ owners # <<>>
    /\ IF OwnerLost(Head(owners)) THEN Dropped
       ELSE /\ owners' = Tail(owners)
            /\ UNCHANGED <<client, watching, predicted, any, activations, closed, reply,
                           portal, missed, budget>>

------------------------------------------------------------------------------
(* PortalSession.                                                          *)

NextActivated ==
    /\ pc = "bound" /\ activations > 0
    /\ activations' = activations - 1
    /\ UNCHANGED <<client, watching, predicted, any, owners, closed, reply, portal, missed, budget>>

\* The session has ended at the portal: the broker closes it here.
NextClosed == pc = "bound" /\ closed > 0 /\ Dropped

\* The broker closes the session or drops the future of bind; the call of Close may
\* fail or time out, the connection goes all the same.
Close == pc # "idle" /\ Dropped

------------------------------------------------------------------------------
(* The portal.                                                             *)

Send(path, code) ==
    /\ any' = Append(any, [path |-> path, code |-> code])
    /\ predicted' = IF path = "predicted"
                    THEN Append(predicted, [path |-> path, code |-> code]) ELSE predicted

\* A session that is gone cannot be bound.
PortalReplies ==
    /\ "reply" \in request
    /\ IF asked = "bind" /\ session = "none" /\ "response" \in request
         THEN reply' = "error" /\ request' = {}
         ELSE reply' = "ok" /\ request' = request \ {"reply"}
    /\ UNCHANGED <<client, watching, predicted, any, owners, activations, closed, owner,
                   names, legacy, asked, session, missed, budget>>

\* The user allows the request, part of it, or nothing.
PortalResponds(code) ==
    /\ "response" \in request
    /\ asked = "bind" /\ session = "none" => code = "denied"
    /\ asked = "create" => code # "partial"
    /\ Send(Returned, code)
    /\ request' = request \ {"response"}
    /\ session' = CASE code = "denied" -> session
                    [] code # "denied" /\ asked = "create" -> "made"
                    [] OTHER -> "bound"
    /\ UNCHANGED <<client, watching, owners, activations, closed, reply, owner, names,
                   legacy, asked, missed, budget>>

\* A Response of somebody else's request.
Noise ==
    /\ pc \in DOMAIN After /\ Spend("noise")
    /\ Send("foreign", "ok")
    /\ UNCHANGED <<client, watching, owners, activations, closed, reply, portal, missed>>

\* The portal stops, starts or is replaced; what it was doing is lost.
OwnerChanges(n) ==
    /\ n \in {0, names + 1} /\ n # owner /\ Spend("owners")
    /\ owner' = n /\ names' = IF n = 0 THEN names ELSE n
    /\ owners' = IF "owner" \in watching THEN Append(owners, <<owner, n>>) ELSE owners
    /\ session' = "none" /\ request' = {}
    /\ reply' = IF "reply" \in request THEN "error" ELSE reply
    /\ UNCHANGED <<client, watching, predicted, any, activations, closed, legacy, asked, missed>>

PortalCloses ==
    /\ session # "none" /\ Spend("closes")
    /\ session' = "none"
    /\ closed' = IF "closed" \in watching THEN closed + 1 ELSE closed
    /\ UNCHANGED <<client, watching, predicted, any, owners, activations, reply, owner, names,
                   legacy, asked, request, missed>>

Press ==
    /\ session = "bound" /\ Spend("presses")
    /\ IF "activated" \in watching
         THEN activations' = activations + 1 /\ UNCHANGED missed
         ELSE missed' = TRUE /\ UNCHANGED activations
    /\ UNCHANGED <<client, watching, predicted, any, owners, closed, reply, portal>>

Next ==
    \/ Connect \/ PortalOwnerChangeStream \/ Register
    \/ CreateSession \/ ReceiveActivated \/ ReceiveClosed \/ BindShortcuts
    \/ CallReturns \/ ReadResponse \/ ReadOwner
    \/ NextActivated \/ NextClosed \/ Close
    \/ PortalReplies \/ \E code \in {"ok", "partial", "denied"} : PortalResponds(code)
    \/ Noise \/ \E n \in {0, names + 1} : OwnerChanges(n)
    \/ PortalCloses \/ Press

Spec == Init /\ [][Next]_vars

------------------------------------------------------------------------------
(* Properties.                                                             *)

\* A session counted as bound is bound at the portal, for all its shortcuts, or the
\* news of its end is waiting on a stream that next_event reads: whatever order the
\* reply, the responses and the changes of owner are read in, and even if the portal
\* closed the session or restarted half-way.
BoundIsAlive ==
    pc = "bound" => \/ session = "bound" \/ closed > 0
                    \/ \E i \in DOMAIN owners : OwnerLost(owners[i])

\* No activation of a bound session is missed: the stream is there before the portal
\* can bind the shortcuts.
ActivationsAreHeard == ~missed

\* Both: what the broker is told of a portal session is so.
PortalBindingIsLive == BoundIsAlive /\ ActivationsAreHeard
==============================================================================
