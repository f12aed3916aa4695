-------------------------- MODULE DiscordProvider --------------------------
(***************************************************************************)
(* The Discord voice worker of the overlay (discord/client.rs, with        *)
(* discord/rpc.rs and discord/auth.rs), the part of DiscordClient that the  *)
(* egui thread drives, and the Discord desktop application behind its IPC   *)
(* socket.                                                                  *)
(*                                                                          *)
(* The worker is one task: between two awaits it runs undisturbed, so every *)
(* branch of a select! with the handler behind it is one action.  The       *)
(* desktop's answer is put in `rx` when the request is sent, because a      *)
(* change of the desktop between the two would be indistinguishable, for    *)
(* the worker, from one before the request.                                 *)
(* Durations are left out: a deadline that is armed may fire at any time.   *)
(***************************************************************************)
EXTENDS Naturals, SequencesExt, FiniteSets

CONSTANTS
    Channels,        \* voice channels
    Others,          \* users other than the local one
    Me,              \* the local user
    ChannelScoped,   \* CHANNEL_SCOPED: the events subscribed per channel, in order
    Gates,           \* the gate values the overlay sets
    NonceSpace,      \* values of the nonce counter
    CommandCap,      \* COMMAND_CAPACITY
    Budgets,         \* bounds on the steps of the egui thread (ui), of the users
                     \* in Discord (desktop), and on failures (faults)
    ParticipantMax,  \* DISCORD_PARTICIPANT_MAX
    None

VARIABLES
    gate,      \* value of the watch channel
    gateSeen,  \* the worker's receiver has seen it
    commands,  \* command channel
    dropped,   \* DiscordClient was dropped
    pc,        \* the await the worker is in
    outcome,   \* SocketOutcome, while the socket is being closed
    state,     \* WorkerState
    cred,      \* DiscordAuth and the keyring entry behind it
    rx,        \* frames on their way to the worker
    torn,      \* the reader lost its place in the byte stream
    subs,      \* the desktop's subscriptions of this connection
    late,      \* what it has put off: unsubscriptions, the channel whose leaving it has not
               \* announced, and whether it announced the last one out of turn
    voice,     \* the channel the local user is in
    where,     \* the channel each other user is in
    budget     \* steps of the environment that are left

workerVars == <<pc, outcome, state, cred>>
uiVars == <<gate, gateSeen, commands, dropped>>
socketVars == <<rx, torn, subs, late>>
desktopVars == <<voice, where>>
vars == <<workerVars, uiVars, socketVars, desktopVars, budget>>

-----------------------------------------------------------------------------
(* Gates *)

IsOpen(g) == g.lifecycle /\ g.game /\ g.widget

KeepsSocketOpen(g, connection) ==
    \/ IsOpen(g)
    \/ g.lifecycle /\ g.widget /\ connection \in {"Authorizing", "Authenticating"}

RetainsDisplayOnClose(g) == g.lifecycle /\ g.widget

-----------------------------------------------------------------------------
(* WorkerState *)

\* What reset_rpc_session clears: the fields of one RPC session.  `selected`
\* is None until the desktop has named the selected channel, then [id |-> _].
Session ==
    [localUser |-> None, authorization |-> None, authentication |-> None,
     subscribed |-> None, pending |-> {}, snapshotNonce |-> None,
     selected |-> None, received |-> FALSE, healthy |-> FALSE, deadline |-> FALSE]

NewState(configured) ==
    [configured |-> configured, connection |-> "Inert", channel |-> None, nonce |-> 0,
     authLoaded |-> FALSE, refreshAttempted |-> FALSE] @@ Session

ResetRpcSession(s) == Session @@ s

ClearPrivateState(s) == ResetRpcSession([s EXCEPT !.channel = None])

SuspendForGate(s, g) ==
    [ResetRpcSession(s) EXCEPT !.connection = "Inert",
                               !.channel = IF RetainsDisplayOnClose(g) THEN @ ELSE None]

MarkAuthorizationReady(s) == [s EXCEPT !.deadline = FALSE, !.healthy = TRUE]

\* Mutant: the subscriptions still unanswered are forgotten.
MarkSessionHealthyIfReady_early(s) ==
    IF s.received THEN [s EXCEPT !.deadline = FALSE, !.healthy = TRUE] ELSE s

MarkSessionHealthyIfReady(s) ==
    IF s.received /\ s.pending = {}
    THEN [s EXCEPT !.deadline = FALSE, !.healthy = TRUE]
    ELSE s

ChannelId(channel) == IF channel = None THEN None ELSE channel.id

\* active_channel_mut: events reach the channel only while it owns the
\* subscriptions.
Active(s) == s.channel # None /\ s.subscribed = s.channel.id

-----------------------------------------------------------------------------
(* Requests.  A run [s, out] is the state with the requests sent so far.    *)

Quiet(s) == [s |-> s, out |-> <<>>]

SendPayload(run, cmd, evt, channel) ==
    LET nonce == (run.s.nonce + 1) % NonceSpace
    IN  [s   |-> [run.s EXCEPT !.nonce = nonce],
         out |-> Append(run.out, [cmd |-> cmd, evt |-> evt, channel |-> channel, nonce |-> nonce])]

SendAuthenticate(run) ==
    LET sent == SendPayload([run EXCEPT !.s.connection = "Authenticating"],
                            "AUTHENTICATE", None, None)
    IN  [sent EXCEPT !.s.authentication = sent.s.nonce, !.s.deadline = TRUE]

RequestSelectedChannel(run) ==
    LET sent == SendPayload(run, "GET_SELECTED_VOICE_CHANNEL", None, None)
    IN  [sent EXCEPT !.s.snapshotNonce = sent.s.nonce, !.s.received = FALSE,
                     !.s.deadline = TRUE]

PendingSubscription(nonce, command, event, channel) ==
    [nonce |-> nonce, command |-> command, event |-> event, channel |-> channel]

SendSubscriptions(run, command, channel) ==
    LET Sent[i \in 0..Len(ChannelScoped)] ==
            IF i = 0
            THEN run
            ELSE LET sent == SendPayload(Sent[i - 1], command, ChannelScoped[i], channel)
                 IN  [sent EXCEPT
                        !.s.pending = @ \cup {PendingSubscription(sent.s.nonce, command,
                                                                  ChannelScoped[i], channel)},
                        !.s.deadline = TRUE]
    IN  Sent[Len(ChannelScoped)]

\* The five subscriptions have one owner: the old channel's are given up, and
\* their acknowledgements awaited, before the new channel's are requested.
ReconcileChannelSubscriptions(run) ==
    LET next == ChannelId(run.s.channel)
    IN  IF (\E p \in run.s.pending : p.command = "UNSUBSCRIBE") \/ run.s.subscribed = next
        THEN run
        ELSE IF run.s.subscribed # None
        THEN SendSubscriptions([run EXCEPT !.s.subscribed = None],
                               "UNSUBSCRIBE", run.s.subscribed)
        ELSE [SendSubscriptions(run, "SUBSCRIBE", next) EXCEPT !.s.subscribed = next]

-----------------------------------------------------------------------------
(* DiscordAuth: the token in memory and the keyring entry.  The broker and   *)
(* the keyring may fail in every way the code tells apart.                   *)

Installed(c) ==
    {[token |-> TRUE, stored |-> TRUE], [token |-> TRUE, stored |-> c.stored]}

Erased == [token |-> FALSE, stored |-> FALSE]

\* restore: the entry, no entry, or a keyring that cannot be read.
Restored(c) == {[c EXCEPT !.token = c.stored], c}

\* authorize, refresh and invalidate as [result, cred].
Authorize(c) ==
    {[result |-> "Ok", cred |-> d] : d \in Installed(c)}
        \cup {[result |-> "Failed", cred |-> c]}

Refresh(c) ==
    {[result |-> "Ok", cred |-> d] : d \in Installed(c)}
        \cup {[result |-> r, cred |-> c] : r \in {"Unauthorized", "Failed"}}

Invalidate(c) ==
    {[result |-> "Ok", cred |-> Erased], [result |-> "Failed", cred |-> c]}

\* refresh_if_needed: outside the margin before expiry the token is used as is.
RefreshIfNeeded(c) == Refresh(c) \cup {[result |-> "Ok", cred |-> c]}

\* refresh_after_rejection: Unauthorized invalidates the credentials.
RefreshAfterRejection(c) ==
    {r \in Refresh(c) : r.result # "Unauthorized"}
        \cup {[i EXCEPT !.result = IF i.result = "Ok" THEN "Expired" ELSE "Failed"] :
                  i \in Invalidate(c)}

-----------------------------------------------------------------------------
(* rpc.rs: what a frame of the desktop means to the worker.                  *)

ParseChannel(f) ==
    IF f.body # None /\ Cardinality(f.body.participants) > ParticipantMax
    THEN [type |-> "InvalidData"]
    ELSE [type |-> "ChannelSnapshot", nonce |-> f.nonce, channel |-> f.body]

ParseDispatch(f) ==
    CASE f.evt = "READY"                -> [type |-> "Ready"]
      [] f.evt = "VOICE_CHANNEL_SELECT" -> [type |-> "ChannelSelected", channel |-> f.body]
      [] f.evt = "VOICE_STATE_CREATE"   -> [type |-> "ParticipantCreated", of |-> f.body]
      [] f.evt = "VOICE_STATE_UPDATE"   -> [type |-> "ParticipantUpdated", of |-> f.body]
      [] f.evt = "VOICE_STATE_DELETE"   -> [type |-> "ParticipantDeleted", of |-> f.body]
      [] f.evt = "SPEAKING"             -> [type |-> "SpeakingChanged", of |-> f.body]

ParseEnvelope(f) ==
    IF ~f.valid THEN [type |-> "InvalidData"]
    ELSE IF f.evt = "ERROR"
    THEN [type |-> "ProviderError", command |-> f.cmd, code |-> f.body, nonce |-> f.nonce]
    ELSE IF f.cmd = "DISPATCH" THEN ParseDispatch(f)
    ELSE IF f.nonce = None THEN [type |-> "InvalidData"]
    ELSE CASE f.cmd = "AUTHORIZE"    -> [type |-> "AuthorizationGranted", nonce |-> f.nonce]
           [] f.cmd = "AUTHENTICATE" -> [type |-> "Authenticated", nonce |-> f.nonce]
           [] f.cmd = "GET_SELECTED_VOICE_CHANNEL" -> ParseChannel(f)
           [] f.cmd \in {"SUBSCRIBE", "UNSUBSCRIBE"} ->
                [type |-> "SubscriptionChanged", subscribed |-> f.cmd = "SUBSCRIBE",
                 event |-> f.evt, nonce |-> f.nonce]

-----------------------------------------------------------------------------
(* handle_event.  An outcome is the state after the handler, the requests it *)
(* sends, the credentials, and whether it returns Err, which ends the        *)
(* session.  No handler changes anything that outlives the session after its *)
(* first send, so a send that fails leaves the same state behind.            *)

Ok(run, c) == [s |-> run.s, out |-> run.out, cred |-> c, err |-> FALSE]

Err(s, c) == [s |-> s, out |-> <<>>, cred |-> c, err |-> TRUE]

Connection(s, connection) == [s EXCEPT !.connection = connection]

AuthorizationRequired(s) == MarkAuthorizationReady(Connection(s, "AuthorizationRequired"))

OnReady(s) ==
    IF ~cred.token
    THEN {Ok(Quiet(AuthorizationRequired(s)), cred)}
    ELSE UNION {CASE r.result = "Ok"     -> {Ok(SendAuthenticate(Quiet(s)), r.cred)}
                  [] r.result = "Failed" -> {Err(Connection(s, "Failed"), cred)}
                  [] r.result = "Unauthorized" ->
                        {Ok(Quiet(IF i.result = "Ok" THEN AuthorizationRequired(s)
                                                     ELSE Connection(s, "Failed")), i.cred) :
                            i \in Invalidate(cred)} :
                  r \in RefreshIfNeeded(cred)}

OnAuthorizationGranted(s, e) ==
    IF s.connection # "Authorizing" \/ s.authorization # e.nonce
    THEN {Ok(Quiet(s), cred)}
    ELSE LET taken == [s EXCEPT !.authorization = None]
         IN  {IF r.result = "Ok"
              THEN Ok(SendAuthenticate(Quiet(taken)), r.cred)
              ELSE Ok(Quiet([Connection(taken, "AuthorizationRequired") EXCEPT
                                 !.deadline = FALSE]), cred) :
              r \in Authorize(cred)}

OnAuthenticated(s, e) ==
    IF s.connection # "Authenticating" \/ s.authentication # e.nonce
    THEN {Ok(Quiet(s), cred)}
    ELSE LET taken == [Connection(s, "Ready") EXCEPT
                          !.authentication = None, !.localUser = Me,
                          !.refreshAttempted = FALSE]
             sent  == SendPayload(Quiet(taken), "SUBSCRIBE", "VOICE_CHANNEL_SELECT", None)
             noted == [sent EXCEPT
                          !.s.pending = @ \cup {PendingSubscription(
                              sent.s.nonce, "SUBSCRIBE", "VOICE_CHANNEL_SELECT", None)}]
         IN  {Ok(RequestSelectedChannel(noted), cred)}

\* Mutant: the channel that is selected is not asked for.
OnChannelSelected_unasked(s, e) ==
    {Ok(ReconcileChannelSubscriptions(Quiet(
            [s EXCEPT !.selected = [id |-> e.channel],
                      !.channel = IF ChannelId(@) = e.channel THEN @ ELSE None])), cred)}

OnChannelSelected(s, e) ==
    LET kept == IF s.selected = [id |-> e.channel]
                THEN s.pending
                ELSE {p \in s.pending : p.command = "UNSUBSCRIBE" \/ p.channel = None}
        moved == [s EXCEPT !.pending = kept,
                           !.selected = [id |-> e.channel],
                           !.channel = IF ChannelId(@) = e.channel THEN @ ELSE None]
    IN  {Ok(RequestSelectedChannel(ReconcileChannelSubscriptions(Quiet(moved))), cred)}

OnChannelSnapshot(s, e) ==
    IF s.snapshotNonce # e.nonce
    THEN {Ok(Quiet(s), cred)}
    ELSE LET taken == [s EXCEPT !.snapshotNonce = None]
             shown == [taken EXCEPT !.received = TRUE, !.channel = e.channel]
             run   == ReconcileChannelSubscriptions(Quiet(shown))
         IN  IF s.selected # None /\ s.selected # [id |-> ChannelId(e.channel)]
             THEN {Err(taken, cred)}
             ELSE {Ok([run EXCEPT !.s = MarkSessionHealthyIfReady(@)], cred)}

\* ParticipantCreated, ParticipantUpdated, ParticipantDeleted and
\* SpeakingChanged.  A participant carries the channel of the event it was
\* last described by, which the worker cannot see.
OnParticipant(s, e) ==
    LET user    == e.of.user
        known   == {q \in s.channel.participants : q.user = user}
        changed ==
            CASE e.type = "ParticipantCreated" ->
                    IF known = {} /\ Cardinality(s.channel.participants) < ParticipantMax
                    THEN s.channel.participants \cup {e.of}
                    ELSE s.channel.participants
              [] e.type \in {"ParticipantUpdated", "SpeakingChanged"} ->
                    IF known = {} THEN s.channel.participants
                    ELSE (s.channel.participants \ known) \cup {e.of}
              [] e.type = "ParticipantDeleted" -> s.channel.participants \ known
        applied == IF Active(s) THEN [s EXCEPT !.channel.participants = changed] ELSE s
    IN  {Ok(Quiet(IF e.type = "ParticipantDeleted" /\ s.localUser = user
                  THEN [applied EXCEPT !.channel = None]
                  ELSE applied), cred)}

OnSubscriptionChanged(s, e) ==
    LET matching == {p \in s.pending : p.nonce = e.nonce}
        rest     == [s EXCEPT !.pending = @ \ matching]
        Finish(run) == Ok([run EXCEPT !.s = MarkSessionHealthyIfReady(@)], cred)
    IN  {IF p.event # e.event \/ e.subscribed # (p.command = "SUBSCRIBE")
         THEN Err(rest, cred)
         ELSE IF p.command = "UNSUBSCRIBE"
         THEN Finish(ReconcileChannelSubscriptions(Quiet(rest)))
         ELSE Finish(Quiet(rest)) : p \in matching}
        \cup (IF matching = {} THEN {Ok(Quiet(s), cred)} ELSE {})

OnAuthenticateError(s, e) ==
    LET taken   == [s EXCEPT !.authentication = None]
        expired == AuthorizationRequired(ClearPrivateState(taken))
        again   == [taken EXCEPT !.refreshAttempted = TRUE]
    IN  IF s.connection # "Authenticating" THEN {Ok(Quiet(s), cred)}
        ELSE IF e.nonce = None THEN {Err(s, cred)}
        ELSE IF s.authentication # e.nonce THEN {Ok(Quiet(s), cred)}
        ELSE IF e.code # "InvalidToken" THEN {Err(Connection(taken, "Failed"), cred)}
        ELSE IF s.refreshAttempted
        THEN {Ok(Quiet(IF i.result = "Ok" THEN expired ELSE Connection(taken, "Failed")),
                 i.cred) : i \in Invalidate(cred)}
        ELSE {CASE r.result = "Ok"      -> Ok(SendAuthenticate(Quiet(again)), r.cred)
                [] r.result = "Expired" ->
                     Ok(Quiet([expired EXCEPT !.refreshAttempted = TRUE]), r.cred)
                [] r.result = "Failed"  -> Err(Connection(again, "Failed"), cred) :
                r \in RefreshAfterRejection(cred)}

OnAuthorizeError(s, e) ==
    IF s.connection # "Authorizing" THEN {Ok(Quiet(s), cred)}
    ELSE IF e.nonce = None THEN {Err(s, cred)}
    ELSE IF s.authorization # e.nonce THEN {Ok(Quiet(s), cred)}
    ELSE {Ok(Quiet([s EXCEPT !.authorization = None, !.deadline = FALSE,
                             !.connection = "AuthorizationRequired"]), cred)}

OnSubscriptionError(s, e) ==
    LET matching == {p \in s.pending : p.nonce = e.nonce}
    IN  IF e.nonce = None THEN {Err(s, cred)}
        ELSE IF matching = {} THEN {Ok(Quiet(s), cred)}
        ELSE {Err(IF p.command = e.command THEN Connection(s, "Failed") ELSE s, cred) :
                  p \in matching}

OnSelectedChannelError(s, e) ==
    IF e.nonce = None THEN {Err(s, cred)}
    ELSE IF s.snapshotNonce # e.nonce THEN {Ok(Quiet(s), cred)}
    ELSE {Err(Connection(s, "Failed"), cred)}

OnProviderError(s, e) ==
    CASE e.command = "AUTHENTICATE" -> OnAuthenticateError(s, e)
      [] e.command = "AUTHORIZE" -> OnAuthorizeError(s, e)
      [] e.command \in {"SUBSCRIBE", "UNSUBSCRIBE"} -> OnSubscriptionError(s, e)
      [] e.command = "GET_SELECTED_VOICE_CHANNEL" -> OnSelectedChannelError(s, e)

\* A frame that does not parse is reported and skipped.
HandleEvent(s, e) ==
    CASE e.type = "InvalidData" -> {Ok(Quiet(s), cred)}
      [] e.type = "Ready" -> OnReady(s)
      [] e.type = "AuthorizationGranted" -> OnAuthorizationGranted(s, e)
      [] e.type = "Authenticated" -> OnAuthenticated(s, e)
      [] e.type = "ChannelSelected" -> OnChannelSelected(s, e)
      [] e.type = "ChannelSnapshot" -> OnChannelSnapshot(s, e)
      [] e.type = "SubscriptionChanged" -> OnSubscriptionChanged(s, e)
      [] e.type = "ProviderError" -> OnProviderError(s, e)
      [] OTHER -> OnParticipant(s, e)

-----------------------------------------------------------------------------
(* The Discord desktop application, external.                                *)

Frame(cmd, evt, nonce, body) ==
    [cmd |-> cmd, evt |-> evt, nonce |-> nonce, body |-> body, valid |-> TRUE]

Members(channel) == {u \in Others : where[u] = channel} \cup {Me}

SelectedChannel ==
    IF voice = None
    THEN None
    ELSE [id |-> voice,
          participants |-> {[user |-> u, of |-> voice] : u \in Members(voice)}]

Reply(request) ==
    Frame(request.cmd, request.evt, request.nonce,
          IF request.cmd = "GET_SELECTED_VOICE_CHANNEL" THEN SelectedChannel ELSE None)

\* What the desktop may say instead: an error of either kind, with or without
\* its nonce, or a payload that does not parse.
Answers(f) ==
    {f} \cup IF f.cmd = "DISPATCH"
             THEN {}
             ELSE {[f EXCEPT !.valid = FALSE]}
                    \cup {[f EXCEPT !.evt = "ERROR", !.body = code, !.nonce = n] :
                             code \in {"InvalidToken", "Unknown"}, n \in {f.nonce, None}}

\* A failure of the socket or of the desktop.
Fault ==
    /\ budget.faults > 0
    /\ budget' = [budget EXCEPT !.faults = @ - 1]

Answered(f) == IF f = Head(rx) THEN UNCHANGED budget ELSE Fault

Named(out, cmd) == {<<q.evt, q.channel>> : q \in {r \in ToSet(out) : r.cmd = cmd}}

\* The requests of a handler reach the desktop, which works on `now` and puts
\* the others off.
Received(now, others) ==
    /\ rx' = Tail(rx) \o [i \in DOMAIN now |-> Reply(now[i])]
    /\ subs' = (subs \ Named(now, "UNSUBSCRIBE")) \cup Named(now, "SUBSCRIBE")
    /\ late' = [late EXCEPT !.requests = @ \o others]

\* It answers in order, but may be slow to unsubscribe.
Sent(out) == Received(out, <<>>)

SentSlowly(out) ==
    LET slow(q) == q.cmd = "UNSUBSCRIBE"
    IN  /\ \E q \in ToSet(out) : slow(q)
        /\ Received(SelectSeq(out, LAMBDA q : ~slow(q)), SelectSeq(out, slow))
        /\ Fault

VoiceState(evt, user, channel) ==
    IF <<"VOICE_STATE", channel>> \in subs
    THEN <<Frame("DISPATCH", evt, None, [user |-> user, of |-> channel])>>
    ELSE <<>>

DesktopStep(frames) ==
    /\ budget.desktop > 0
    /\ budget' = [budget EXCEPT !.desktop = @ - 1]
    /\ rx' = rx \o frames
    /\ UNCHANGED <<torn, subs, workerVars, uiVars>>

NothingLate == [requests |-> <<>>, left |-> None, astray |-> FALSE]

\* The local user moves to another channel or leaves: the selection and the
\* departure are announced in either order, or the departure is put off.
Move(channel) ==
    /\ channel # voice
    /\ LET select == IF <<"VOICE_CHANNEL_SELECT", None>> \in subs
                     THEN <<Frame("DISPATCH", "VOICE_CHANNEL_SELECT", None, channel)>>
                     ELSE <<>>
           left   == VoiceState("VOICE_STATE_DELETE", Me, voice)
       IN  \/ /\ DesktopStep(select \o left) \/ DesktopStep(left \o select)
              /\ late' = [late EXCEPT !.astray = FALSE]
           \/ /\ left # <<>> /\ late.left = None
              /\ DesktopStep(select)
              /\ late' = [late EXCEPT !.left = voice, !.astray = FALSE]
    /\ voice' = channel
    /\ UNCHANGED where

OtherMoves(user, channel) ==
    /\ channel # where[user]
    /\ DesktopStep(VoiceState("VOICE_STATE_DELETE", user, where[user])
                     \o VoiceState("VOICE_STATE_CREATE", user, channel))
    /\ where' = [where EXCEPT ![user] = channel]
    /\ UNCHANGED <<voice, late>>

\* A user mutes or speaks in a channel.
Describe(user) ==
    /\ \/ /\ <<"VOICE_STATE", where[user]>> \in subs
          /\ DesktopStep(VoiceState("VOICE_STATE_UPDATE", user, where[user]))
       \/ /\ <<"SPEAKING", where[user]>> \in subs
          /\ DesktopStep(<<Frame("DISPATCH", "SPEAKING", None,
                                 [user |-> user, of |-> where[user]])>>)
    /\ UNCHANGED <<desktopVars, late>>

\* The desktop gets round to what it had put off; a departure is announced only to who
\* is still subscribed.
CatchUp ==
    /\ late.requests # <<>> \/ late.left # None
    /\ LET left == VoiceState("VOICE_STATE_DELETE", Me, late.left)
       IN  /\ rx' = rx \o left \o [i \in DOMAIN late.requests |-> Reply(late.requests[i])]
           /\ late' = [NothingLate EXCEPT !.astray = late.astray \/ left # <<>>]
    /\ subs' = subs \ Named(late.requests, "UNSUBSCRIBE")
    /\ UNCHANGED <<torn, workerVars, uiVars, desktopVars, budget>>

-----------------------------------------------------------------------------
(* run_provider *)

Proceed(s) ==
    /\ IF s.authLoaded THEN UNCHANGED cred ELSE cred' \in Restored(cred)
    /\ LET loaded == [s EXCEPT !.authLoaded = TRUE]
       IN  IF s.configured
           THEN pc' = "discovering" /\ state' = Connection(loaded, "Connecting")
           ELSE pc' = "unconfigured" /\ state' = Connection(loaded, "ClientNotConfigured")

\* The head of the loop, up to the next await.
LoopHead(s) ==
    IF dropped
    THEN pc' = "ended" /\ state' = s /\ UNCHANGED cred
    ELSE IF ~IsOpen(gate)
    THEN pc' = "gated" /\ state' = SuspendForGate(s, gate) /\ UNCHANGED cred
    ELSE Proceed(s)

End == pc' = "ended" /\ UNCHANGED <<outcome, state, cred, socketVars, uiVars, desktopVars, budget>>

\* process_sign_out as [deleted, s, cred].
ProcessSignOut(success) ==
    {IF i.result = "Ok"
     THEN [deleted |-> TRUE, cred |-> i.cred,
           s |-> [Connection(ClearPrivateState(state), success) EXCEPT !.authLoaded = TRUE]]
     ELSE [deleted |-> FALSE, cred |-> cred, s |-> [state EXCEPT !.authLoaded = TRUE]] :
     i \in Invalidate(cred)}

WaitForOpenGate ==
    /\ pc = "gated" /\ ~dropped /\ ~gateSeen
    /\ gateSeen' = TRUE
    /\ IF IsOpen(gate) THEN Proceed(state) ELSE UNCHANGED <<pc, state, cred>>
    /\ UNCHANGED <<outcome, gate, commands, dropped, socketVars, desktopVars, budget>>

\* A command while the gate is closed or the build has no client id.
WaitingCommand ==
    /\ pc \in {"gated", "unconfigured"} /\ commands # <<>>
    /\ commands' = Tail(commands)
    /\ IF Head(commands) = "SignOut"
       THEN \E r \in ProcessSignOut(IF pc = "gated" THEN "Inert" ELSE "ClientNotConfigured") :
                state' = r.s /\ cred' = r.cred
       ELSE UNCHANGED <<state, cred>>
    /\ UNCHANGED <<pc, outcome, gate, gateSeen, dropped, socketVars, desktopVars, budget>>

WaitWhileUnconfigured ==
    /\ pc = "unconfigured" /\ ~dropped /\ ~gateSeen
    /\ gateSeen' = TRUE
    /\ LoopHead(state)
    /\ UNCHANGED <<outcome, gate, commands, dropped, socketVars, desktopVars, budget>>

Discover ==
    /\ pc = "discovering"
    /\ \/ /\ pc' = "socket"
          /\ state' = [state EXCEPT !.deadline = TRUE]
          /\ rx' = <<Frame("DISPATCH", "READY", None, None)>>
       \/ pc' = "delay" /\ state' = Connection(state, "DiscordUnavailable") /\ UNCHANGED rx
    /\ UNCHANGED <<outcome, cred, torn, subs, late, uiVars, desktopVars, budget>>

InterruptibleDelay ==
    /\ pc = "delay" /\ ~dropped
    /\ gateSeen' \in {gateSeen, TRUE}
    /\ LoopHead(state)
    /\ UNCHANGED <<outcome, gate, commands, dropped, socketVars, desktopVars, budget>>

-----------------------------------------------------------------------------
(* run_socket *)

Close(result, s) ==
    /\ pc' = "closing" /\ outcome' = result /\ state' = s
    /\ rx' = <<>> /\ torn' = FALSE /\ subs' = {} /\ late' = NothingLate

SetupDeadline ==
    /\ pc = "socket" /\ state.deadline
    /\ Close("Reconnect", state)
    /\ IF rx = <<>> THEN UNCHANGED budget ELSE Fault
    /\ UNCHANGED <<cred, uiVars, desktopVars>>

\* socket.next() fails: the desktop is gone, or the reader finds bytes from the
\* middle of a frame where a header should be.
SocketFails ==
    /\ pc = "socket"
    /\ Close("Reconnect", state)
    /\ IF torn THEN UNCHANGED budget ELSE Fault
    /\ UNCHANGED <<cred, uiVars, desktopVars>>

\* After an event that was handled the gate is consulted again: the event may
\* have ended the authorization that kept the socket open.
MustSuspend(e, s) ==
    e.type # "InvalidData" /\ ~KeepsSocketOpen(gate, s.connection)

SocketMessage ==
    /\ pc = "socket" /\ ~torn /\ rx # <<>>
    /\ \E f \in Answers(Head(rx)) :
         LET e == ParseEnvelope(f)
         IN  \E h \in HandleEvent(state, e) :
               /\ cred' = h.cred
               /\ \/ h.err /\ Close("Reconnect", h.s) /\ Answered(f)
                  \/ h.out # <<>> /\ Close("Reconnect", h.s) /\ Fault    \* a send fails
                  \/ /\ ~h.err /\ MustSuspend(e, h.s)
                     /\ Close("Restart", SuspendForGate(h.s, gate)) /\ Answered(f)
                  \/ /\ ~h.err /\ ~MustSuspend(e, h.s)
                     /\ \/ Sent(h.out) /\ Answered(f)
                        \/ f = Head(rx) /\ SentSlowly(h.out)
                     /\ state' = h.s /\ UNCHANGED <<pc, outcome, torn>>
    /\ UNCHANGED <<uiVars, desktopVars>>

\* A branch other than socket.next() was taken: a frame that was being read is
\* lost half-way.
MayTear == torn' \in (IF rx = <<>> THEN {torn} ELSE {torn, TRUE})

SocketCommand ==
    /\ pc = "socket" /\ commands # <<>>
    /\ commands' = Tail(commands)
    /\ \/ /\ Head(commands) = "Connect" /\ state.connection = "AuthorizationRequired"
          /\ LET sent == SendPayload(Quiet(Connection(state, "Authorizing")),
                                     "AUTHORIZE", None, None)
             IN  \/ /\ state' = [sent.s EXCEPT !.authorization = sent.s.nonce,
                                               !.healthy = FALSE, !.deadline = TRUE]
                    /\ rx' = Append(rx, Reply(sent.out[1]))
                    /\ MayTear
                    /\ UNCHANGED <<pc, outcome, subs, late, budget>>
                 \/ Close("Reconnect", sent.s) /\ Fault
          /\ UNCHANGED cred
       \/ /\ Head(commands) = "Connect" /\ state.connection # "AuthorizationRequired"
          /\ MayTear
          /\ UNCHANGED <<workerVars, rx, subs, late, budget>>
       \/ /\ Head(commands) = "SignOut"
          /\ \E r \in ProcessSignOut("AuthorizationRequired") :
               /\ cred' = r.cred
               /\ IF r.deleted
                  THEN Close("Restart", r.s)
                  ELSE state' = r.s /\ MayTear /\ UNCHANGED <<pc, outcome, rx, subs, late>>
          /\ UNCHANGED budget
    /\ UNCHANGED <<gate, gateSeen, dropped, desktopVars>>

SocketGate ==
    /\ pc = "socket" /\ ~gateSeen
    /\ gateSeen' = TRUE
    /\ IF KeepsSocketOpen(gate, state.connection)
       THEN MayTear /\ UNCHANGED <<pc, outcome, state, rx, subs, late>>
       ELSE Close("Restart", SuspendForGate(state, gate))
    /\ UNCHANGED <<cred, gate, commands, dropped, desktopVars, budget>>

\* The client was dropped: the shutdown flag is set and the channels close.
WorkerShutdown ==
    /\ dropped
    /\ \/ pc \in {"gated", "unconfigured", "delay"} /\ End
       \/ /\ pc = "socket"
          /\ Close("Shutdown", state)
          /\ UNCHANGED <<cred, uiVars, desktopVars, budget>>

Closed ==
    /\ pc = "closing"
    /\ CASE outcome = "Shutdown" -> pc' = "ended" /\ UNCHANGED <<state, cred>>
         [] outcome = "Restart" -> LoopHead(state)
         [] outcome = "Reconnect" ->
              /\ pc' = "delay"
              /\ state' = Connection(IF state.connection = "Failed"
                                     THEN ClearPrivateState(state)
                                     ELSE ResetRpcSession(state), "Connecting")
              /\ UNCHANGED cred
    /\ outcome' = None
    /\ UNCHANGED <<socketVars, uiVars, desktopVars, budget>>

-----------------------------------------------------------------------------
(* DiscordClient, on the egui thread *)

UiStep ==
    /\ ~dropped /\ budget.ui > 0
    /\ budget' = [budget EXCEPT !.ui = @ - 1]
    /\ UNCHANGED <<workerVars, socketVars, desktopVars>>

SetGate(g) ==
    /\ UiStep /\ g # gate
    /\ gate' = g /\ gateSeen' = FALSE
    /\ UNCHANGED <<commands, dropped>>

TrySend(command) ==
    /\ UiStep /\ Len(commands) < CommandCap
    /\ commands' = Append(commands, command)
    /\ UNCHANGED <<gate, gateSeen, dropped>>

DropClient ==
    /\ UiStep
    /\ dropped' = TRUE
    /\ UNCHANGED <<gate, gateSeen, commands>>

Init ==
    /\ gate = [lifecycle |-> FALSE, game |-> FALSE, widget |-> FALSE]
    /\ gateSeen = TRUE /\ commands = <<>> /\ dropped = FALSE
    /\ pc = "gated" /\ outcome = None
    /\ \E configured \in BOOLEAN : state = NewState(configured)
    /\ \E stored \in BOOLEAN :
          cred = [token |-> FALSE, stored |-> stored]
    /\ rx = <<>> /\ torn = FALSE /\ subs = {} /\ late = NothingLate
    /\ voice = None /\ where = [u \in Others |-> None]
    /\ budget \in Budgets

Worker ==
    \/ WaitForOpenGate \/ WaitingCommand \/ WaitWhileUnconfigured \/ Discover
    \/ InterruptibleDelay \/ SetupDeadline \/ SocketFails \/ SocketMessage
    \/ SocketCommand \/ SocketGate \/ WorkerShutdown \/ Closed

Client ==
    \/ \E g \in Gates : SetGate(g)
    \/ \E command \in {"Connect", "SignOut"} : TrySend(command)
    \/ DropClient

Desktop ==
    \/ \E channel \in Channels \cup {None} : Move(channel)
    \/ \E user \in Others : Describe(user)
    \/ CatchUp
    \/ \E user \in Others, channel \in Channels \cup {None} : OtherMoves(user, channel)

Next == Worker \/ Client \/ Desktop

Spec == Init /\ [][Next]_vars

-----------------------------------------------------------------------------
(* Properties *)

\* client.rs:1339-1389 and docs/architecture.md: "queued old-channel events
\* cannot mutate the new snapshot".  Whatever the order of switches,
\* acknowledgements, snapshots and queued events, a participant shown in a
\* channel was last described by an event or a snapshot of that channel.
ChannelOwnsItsEvents ==
    state.channel # None =>
        \A q \in state.channel.participants : q.of = state.channel.id

\* client.rs:1062-1105: when the session is ready and nothing is on its way,
\* the channel shown is the one the local user is in; no late answer, lost
\* selection or departure of the local user leaves another one on screen.  One
\* case is excepted: a departure that the desktop announces only after the user
\* has moved on, to a worker that is still or again subscribed to the channel
\* left, clears the channel shown whichever it is (client.rs:1137), until the
\* next selection.
ShownIsCurrent ==
    (/\ pc = "socket" /\ state.connection = "Ready"
     /\ state.snapshotNonce = None /\ rx = <<>> /\ late.requests = <<>> /\ late.left = None
     /\ ~torn)
        => \/ ChannelId(state.channel) = voice
           \/ late.astray /\ state.channel = None

\* client.rs:854-870: a session that waits for an answer of the desktop, and is
\* not waiting for the user, has its setup deadline armed, so that an answer
\* that never comes cannot stall it.
SetupIsBounded ==
    (/\ pc = "socket"
     /\ \/ state.authorization # None \/ state.authentication # None
        \/ state.pending # {} \/ state.snapshotNonce # None
        \/ ~state.healthy /\ state.connection # "AuthorizationRequired")
        => state.deadline

\* client.rs:904-909 and 949-956: once the worker has seen the gate, a socket
\* is open only if that gate and the progress of the authorization allow it.
GateIsObeyed ==
    pc = "socket" /\ gateSeen => KeepsSocketOpen(gate, state.connection)

\* docs/architecture.md: "disabling the widget, losing lifecycle authority,
\* signing out, or stopping the renderer clears the retained channel".
DisablingClearsChannel ==
    pc = "gated" /\ gateSeen /\ ~RetainsDisplayOnClose(gate) => state.channel = None
=============================================================================
