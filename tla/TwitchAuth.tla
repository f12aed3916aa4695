------------------------------ MODULE TwitchAuth ------------------------------
(***************************************************************************)
(* The Device Code OAuth machine of the Twitch provider (twitch/auth.rs)   *)
(* with its Secret Service entry (twitch/credentials.rs), its HTTP calls   *)
(* (twitch/http.rs) and crashes of the renderer.  A token is the number of *)
(* its rotation: Twitch accepts a refresh token once and answers with its  *)
(* successor.  Instants are what the code compares them for: a poll, a     *)
(* retry, a validation or a refresh is due or not yet.                     *)
(***************************************************************************)
EXTENDS Naturals

CONSTANTS MaxTokens,    \* tokens Twitch issues in a behaviour
          Faults        \* failed requests, failed store calls and crashes

VARIABLES machine,      \* AuthMachine
          stored,       \* the token in Secret Service, 0 for none
          grant,        \* the token Twitch accepts, 0 for none
          issued,       \* tokens issued so far
          excused,      \* a save failed or an answer was lost since the last save
          faults,       \* failures left
          restored,     \* restore_attempted of the provider
          phase         \* "idle", or "refreshed": between the requests of refresh

vars == <<machine, stored, grant, issued, excused, faults, restored, phase>>

\* AuthMachine::new.
NewMachine ==
    [credentials |-> 0, pending |-> "none", presentation |-> "Disconnected",
     fresh |-> FALSE, expiring |-> FALSE, retry |-> "none",
     persisted |-> FALSE, needPersist |-> FALSE, mayContain |-> FALSE]

CredentialsAvailable(m) == m.credentials # 0 \/ m.mayContain
CanConnect(m) == m.credentials # 0 /\ m.presentation = "Connected"

\* An operation maps the state it finds to the set of states it may leave.
Now == [m |-> machine, stored |-> stored, grant |-> grant, issued |-> issued,
        excused |-> excused, faults |-> faults]

When(condition, outcomes) == IF condition THEN outcomes ELSE {}
Failing(w) == [w EXCEPT !.faults = @ - 1]

------------------------------------------------------------------------------
(* The credential store.                                                   *)

\* persist_current_if_needed.
PersistCurrentIfNeeded(w) ==
    IF ~w.m.needPersist
    THEN {w}
    ELSE {[w EXCEPT !.stored = w.m.credentials, !.excused = FALSE, !.m.persisted = TRUE,
                    !.m.needPersist = FALSE, !.m.mayContain = TRUE]}
         \cup When(w.faults > 0, {[Failing(w) EXCEPT !.excused = TRUE, !.m.persisted = FALSE,
                                                     !.m.mayContain = TRUE]})

\* SecretServiceCredentialStore::delete, with whether it succeeded.
Delete(w) ==
    {[w |-> [w EXCEPT !.stored = 0], ok |-> TRUE]}
    \cup When(w.faults > 0, {[w |-> Failing(w), ok |-> FALSE]})

\* clear_invalid_credentials.
ClearInvalidCredentials(w) ==
    {[d.w EXCEPT !.m = [NewMachine EXCEPT !.presentation = "Failed",
                                          !.mayContain = ~d.ok]] : d \in Delete(w)}

\* disconnect_local: a failed deletion keeps the credentials.
DisconnectLocal(w) ==
    {IF d.ok
     THEN [d.w EXCEPT !.m = NewMachine]
     ELSE [d.w EXCEPT !.m.pending = "none", !.m.mayContain = TRUE,
                      !.m.presentation = "Failed", !.m.fresh = FALSE, !.m.retry = "none"]
     : d \in Delete(w)}

------------------------------------------------------------------------------
(* Requests.  A failure is conclusive (status 400 or 401, a wrong identity *)
(* or scope) or transient (everything else).                               *)

\* handle_credential_failure for a failure that says nothing of the token.
Transient(w) ==
    [w EXCEPT !.m.fresh = FALSE, !.m.retry = "waiting", !.m.presentation = "Failed"]

\* What any request of a token may be refused with.
Refused(w) ==
    When(w.m.credentials # w.grant, ClearInvalidCredentials(w))
    \cup When(w.faults > 0, {Transient(Failing(w))} \cup ClearInvalidCredentials(Failing(w)))

\* validate_current and the handling of its error.  An access token outlives
\* the rotation of its refresh token, not the end of the session.
ValidateCurrent(w) ==
    Refused(w)
    \cup When(w.grant # 0,
              PersistCurrentIfNeeded(
                  [w EXCEPT !.m.presentation = "Connected", !.m.fresh = TRUE,
                            !.m.expiring = FALSE, !.m.retry = "none"]))

\* A token Twitch has just issued, in memory only.
Accepted(w) ==
    [w EXCEPT !.issued = @ + 1, !.grant = w.issued + 1, !.m.credentials = w.issued + 1,
              !.m.persisted = FALSE, !.m.needPersist = TRUE]

\* Mutant: the saving is left to the validation.
RefreshToken_unsaved(w) == {Accepted(w)}

\* refresh up to its validation: the successor is stored before any other
\* request.
RefreshToken(w) == PersistCurrentIfNeeded(Accepted(w))

\* The other ends of that request; the answer may be lost after the rotation.
RefreshFails(w) ==
    Refused(w)
    \cup When(/\ w.faults > 0 /\ w.issued < MaxTokens /\ w.m.credentials = w.grant,
              {Transient(Failing([w EXCEPT !.issued = @ + 1, !.grant = w.issued + 1,
                                           !.excused = TRUE]))})

\* restore.
RestoreSession(w) ==
    (IF w.stored = 0
     THEN {[w EXCEPT !.m.mayContain = FALSE, !.m.retry = "none",
                     !.m.presentation = "Disconnected"]}
     ELSE ValidateCurrent([w EXCEPT !.m.credentials = w.stored, !.m.persisted = TRUE,
                                    !.m.needPersist = FALSE, !.m.mayContain = TRUE,
                                    !.m.retry = "none"]))
    \cup When(w.faults > 0,
              {[Failing(w) EXCEPT !.m.mayContain = TRUE, !.m.retry = "waiting",
                                  !.m.presentation = "Failed"]})

\* Mutant: the code that was redeemed is polled again.
TickPending_redeemed(w) ==
    When(w.m.pending = "due" /\ w.issued < MaxTokens, ValidateCurrent(Accepted(w)))

\* tick_pending; an authorized code goes through accept_token, whose checks of the token's
\* form and lifetime repeat those of parse_token_response and refuse nothing more.
TickPending(w) ==
    LET gone == [w EXCEPT !.m.pending = "none"]
        given_up == [gone EXCEPT !.m.presentation = "Failed"]
    IN  {given_up}
        \cup When(w.m.pending = "due", {[w EXCEPT !.m.pending = "waiting"]})
        \cup When(w.m.pending = "due" /\ w.issued < MaxTokens,
                  ClearInvalidCredentials(gone) \cup ValidateCurrent(Accepted(gone)))

------------------------------------------------------------------------------
(* The operations the provider calls.                                      *)

Becomes(outcomes) ==
    \E w \in outcomes :
        /\ machine' = w.m
        /\ stored' = w.stored
        /\ grant' = w.grant
        /\ issued' = w.issued
        /\ excused' = w.excused
        /\ faults' = w.faults

\* A command, which may also arrive before the restore (handle_closed_command).
Commanded == phase = "idle" /\ UNCHANGED <<restored, phase>>
Idle == restored /\ Commanded

Init ==
    /\ machine = NewMachine
    /\ stored \in {0, 1}
    /\ grant \in {0, stored}
    /\ issued = stored
    /\ excused = FALSE
    /\ faults \in Faults
    /\ restored = FALSE
    /\ phase = "idle"

\* The provider restores once, when its gate first allows control.
Restore ==
    /\ ~restored
    /\ restored' = TRUE
    /\ Becomes(RestoreSession(Now))
    /\ UNCHANGED phase

\* begin, called when chat cannot connect.
Begin ==
    /\ Idle
    /\ ~CanConnect(machine)
    /\ ~CredentialsAvailable(machine)
    /\ Becomes({[Now EXCEPT !.m = [NewMachine EXCEPT !.pending = "waiting",
                                                     !.presentation = "AwaitingUser"]]}
               \cup When(faults > 0, {[Failing(Now) EXCEPT !.m.presentation = "Failed"]}))

Cancel ==
    /\ Commanded
    /\ Becomes({[Now EXCEPT !.m.pending = "none", !.m.presentation = "Disconnected"]})

CancelPending ==
    /\ Idle
    /\ machine.pending # "none"
    /\ Becomes({[Now EXCEPT !.m.pending = "none", !.m.presentation = "Disconnected"]})

\* invalidate: EventSub or Helix refused the session.
Invalidate ==
    /\ Idle
    /\ CanConnect(machine)
    /\ Becomes(When(grant # machine.credentials, ClearInvalidCredentials(Now))
               \cup When(faults > 0, ClearInvalidCredentials(Failing(Now))))

\* disconnect: the token is revoked if Twitch can be reached, and the account
\* is forgotten locally either way.
SignOut ==
    /\ Commanded
    /\ Becomes(DisconnectLocal([Now EXCEPT !.grant = IF machine.credentials # 0 THEN 0 ELSE @])
               \cup When(faults > 0, DisconnectLocal(Failing(Now))))

\* next_deadline: the earliest of the deadlines that apply has passed; with
\* none of them the provider sleeps for a day.
DeadlinePassed ==
    CASE machine.pending # "none" -> machine.pending \in {"due", "expired"}
      [] machine.retry # "none" -> machine.retry = "due"
      [] machine.credentials # 0 -> machine.expiring \/ ~machine.fresh
      [] OTHER -> TRUE

\* tick.  A refresh stops between its two requests.
Tick ==
    /\ phase = "idle" /\ restored /\ DeadlinePassed
    /\ UNCHANGED restored
    /\ CASE machine.pending # "none" -> Becomes(TickPending(Now)) /\ UNCHANGED phase
         [] machine.pending = "none" /\ machine.credentials = 0 /\ machine.mayContain ->
                Becomes(RestoreSession(Now)) /\ UNCHANGED phase
         [] machine.pending = "none" /\ machine.credentials # 0 /\ machine.expiring ->
                \/ Becomes(RefreshFails(Now)) /\ UNCHANGED phase
                \/ /\ machine.credentials = grant /\ issued < MaxTokens
                   /\ Becomes(RefreshToken(Now))
                   /\ phase' = "refreshed"
         [] machine.pending = "none" /\ machine.credentials # 0 /\ ~machine.expiring ->
                Becomes(ValidateCurrent(Now)) /\ UNCHANGED phase
         [] OTHER -> FALSE

ValidateRefreshed ==
    /\ phase = "refreshed"
    /\ phase' = "idle"
    /\ Becomes(ValidateCurrent(Now))
    /\ UNCHANGED restored

\* Time passes for one deadline.
TimePasses ==
    /\ Idle
    /\ \/ machine.pending = "waiting" /\ machine' = [machine EXCEPT !.pending = "due"]
       \/ machine.pending \in {"waiting", "due"} /\ machine' = [machine EXCEPT !.pending = "expired"]
       \/ machine.retry = "waiting" /\ machine' = [machine EXCEPT !.retry = "due"]
       \/ machine.fresh /\ machine' = [machine EXCEPT !.fresh = FALSE]
       \/ /\ machine.credentials # 0 /\ ~machine.expiring
          /\ machine' = [machine EXCEPT !.expiring = TRUE]
    /\ UNCHANGED <<stored, grant, issued, excused, faults>>

\* The account is revoked at Twitch.
RevokedElsewhere ==
    /\ grant # 0 /\ faults > 0
    /\ grant' = 0
    /\ faults' = faults - 1
    /\ UNCHANGED <<machine, stored, issued, excused, restored, phase>>

\* The renderer dies and is started again.
Crash ==
    /\ faults > 0
    /\ faults' = faults - 1
    /\ machine' = NewMachine
    /\ restored' = FALSE
    /\ phase' = "idle"
    /\ UNCHANGED <<stored, grant, issued, excused>>

Next ==
    \/ Restore \/ Begin \/ Cancel \/ CancelPending \/ Invalidate \/ SignOut
    \/ Tick \/ ValidateRefreshed \/ TimePasses \/ RevokedElsewhere \/ Crash

Spec == Init /\ [][Next]_vars

------------------------------------------------------------------------------
(* Properties.                                                             *)

\* A crash cannot revive a consumed refresh token: the stored token is the one
\* Twitch accepts next, unless the store refused a save, an answer was lost or
\* the account is revoked.  (refresh saves before it validates.)
ConsumedTokenIsNotStored ==
    stored # 0 /\ grant # 0 /\ stored # grant => excused

\* What the widget says of the account is true of the store: nothing is offered
\* as "Connect Twitch" while a session is still stored, and a session shown as
\* persisted is the stored one.
StoreIsTold ==
    /\ restored /\ ~CredentialsAvailable(machine) => stored = 0
    /\ machine.persisted => stored = machine.credentials

\* Across refreshes, failed saves, lost answers and crashes, a token that Twitch has
\* replaced is never the one that stays stored, and what the worker believes of the store
\* is what the store holds.
TokensAreTrue == ConsumedTokenIsNotStored /\ StoreIsTold

\* "A failed restore never creates a 24-hour sleep": while an account may be
\* stored that is not loaded, a retry is armed.
NoDaySleep ==
    restored /\ machine.mayContain /\ machine.credentials = 0
        => machine.pending # "none" \/ machine.retry # "none"

\* The machine is what the provider relies on.
Promise == INSTANCE TwitchAuthPromise
           WITH auth <- [can |-> CanConnect(machine), awaiting |-> machine.pending # "none",
                         available |-> CredentialsAvailable(machine)]

PromiseKept == Promise!Spec
==============================================================================
