----------------------------- MODULE X11Shortcuts -----------------------------
(***************************************************************************)
(* The shortcuts of an X11 session: overcrow-core/src/x11_shortcut.rs.  An *)
(* attempt to bind connects, reads the authentication file on a thread of  *)
(* its own, and grabs its keys on a blocking worker; a timeout may abandon *)
(* it at any of these points.  A session turns the key events of its grabs *)
(* into activations.  The X server and the keyboard are external.          *)
(*                                                                         *)
(* A modifier mask is a set of modifier bits.  A keyboard is               *)
(* [keys |-> keycode -> keysyms, bits |-> modifier bit -> keycodes].       *)
(***************************************************************************)
EXTENDS Integers, Sequences, FiniteSets

CONSTANTS Definitions, \* sequence of [id, mods, key]: what the broker asks for
          Keyboards,   \* the keyboards that may be configured
          Foreign,     \* keys that another client may grab: [keycode, modifiers]
          States,      \* the modifiers and locks that may be on
          Attempts,    \* attempts to bind
          Budgets      \* records [keys, states, repeats, changes, rivals]

VARIABLES keyboard, \* the server's
          setup,    \* [pc, attempt]: the bind that is awaited
          permit,   \* AUTH_WORKER_ACTIVE
          auths,    \* attempts whose authentication thread runs
          workers,  \* attempt -> grabs still to install, for the blocking workers
          conns,    \* attempt -> "none", "open", "shut" (by us) or "gone" (for the server)
          grabs,    \* registration -> the attempt that holds it, or 0, or -1 (another client)
          session,  \* the attempt whose session is bound, or 0
          plan,     \* attempt -> the keyboard its bindings were planned for
          down, state, grabbed, \* physical keys, the modifiers, the key of the active grab
          repeating, \* the key that repeats: the one pressed last
          events,   \* sent to the session, not yet read
          pressed, pending, \* NativeKeyState
          clock,
          outcome,  \* [repeated, missed]: an activation by a repeat, a press without one
          told,     \* held keys whose press was sent to the session
          strays,   \* keys whose press was sent to it and whose release went elsewhere
          budget

setupVars == <<setup, permit, auths, workers, conns, grabs, session, plan>>
keyState == <<down, state, grabbed, repeating, pressed, pending, clock, outcome, told, strays>>
keyVars == <<keyState, events>>
vars == <<keyboard, setupVars, keyVars, budget>>

Bits == {"shift", "lock", "control", "mod1", "mod2", "mod3", "mod4", "mod5"}

------------------------------------------------------------------------------
(* Planning: KeyboardMap, ModifierMapping and plan_bindings.               *)

\* The bits that a key with one of these keysyms is mapped to.
Masks(b, syms) == {m \in Bits : \E k \in b.bits[m] : b.keys[k] \cap syms # {}}

Keycodes(b, key) == {k \in DOMAIN b.keys : key \in b.keys[k]}
KeycodeForAscii(b, key) == CHOOSE k \in Keycodes(b, key) : \A j \in Keycodes(b, key) : k <= j

Logo(b) == IF Masks(b, {"Super"}) = {} THEN Masks(b, {"Meta"}) ELSE Masks(b, {"Super"})
Alt(b) == Masks(b, {"Alt"})
Locks(b) == Masks(b, {"Caps_Lock", "Num_Lock", "Scroll_Lock"})

\* ModifierMapping::from_keycodes succeeds.
ModifiersUsable(b) ==
    /\ Masks(b, {"Shift"}) = {"shift"} /\ Masks(b, {"Control"}) = {"control"}
    /\ Locks(b) \cap Masks(b, {"Shift", "Control", "Alt", "Super", "Meta"}) = {}
    /\ Cardinality(Logo(b)) <= 1 /\ Cardinality(Alt(b)) <= 1

Required(b, d) ==
    UNION {CASE m = "logo" -> Logo(b) [] m = "alt" -> Alt(b)
             [] m = "control" -> {"control"} [] m = "shift" -> {"shift"} : m \in d.mods}

Plannable(b, d) ==
    /\ Keycodes(b, d.key) # {}
    /\ "logo" \in d.mods => Logo(b) # {} /\ ("alt" \in d.mods => Logo(b) # Alt(b))
    /\ "alt" \in d.mods => Alt(b) # {}
    /\ Required(b, d) \cap Locks(b) = {}

Binding(b, d) == [id |-> d.id, keycode |-> KeycodeForAscii(b, d.key), modifiers |-> Required(b, d)]
Bindings(b) == {Binding(b, Definitions[i]) : i \in DOMAIN Definitions}

PlanBindings(b) ==
    /\ ModifiersUsable(b)
    /\ \A i \in DOMAIN Definitions : Plannable(b, Definitions[i])
    /\ \A i, j \in DOMAIN Definitions :
         i # j => LET x == Binding(b, Definitions[i])
                      y == Binding(b, Definitions[j])
                  IN  <<x.keycode, x.modifiers>> # <<y.keycode, y.modifiers>>

LockVariants(b) == SUBSET Locks(b)

Registrations(b) ==
    {[keycode |-> x.keycode, modifiers |-> x.modifiers \cup locks] :
        x \in Bindings(b), locks \in LockVariants(b)}

ActivatedShortcut(b, keycode, mask) ==
    {x \in Bindings(b) : x.keycode = keycode /\ x.modifiers = mask \ Locks(b)}

------------------------------------------------------------------------------

Idle == [pc |-> "idle", attempt |-> 0]
NoPending == <<0, 0>>
AllRegistrations == UNION {Registrations(b) : b \in {x \in Keyboards : PlanBindings(x)}} \cup Foreign

Init ==
    /\ keyboard \in Keyboards /\ setup = Idle /\ permit = FALSE /\ auths = {}
    /\ workers = [a \in 1..Attempts |-> {}] /\ conns = [a \in 1..Attempts |-> "none"]
    /\ grabs = [r \in AllRegistrations |-> 0] /\ session = 0
    /\ plan = [a \in 1..Attempts |-> keyboard]
    /\ down = {} /\ state \in States /\ grabbed = 0 /\ repeating = 0 /\ events = <<>>
    /\ pressed = {} /\ pending = NoPending /\ clock = 0 /\ told = {} /\ strays = {}
    /\ outcome = [repeated |-> FALSE, missed |-> FALSE]
    /\ budget \in Budgets

Spend(kind) == budget[kind] > 0 /\ budget' = [budget EXCEPT ![kind] = @ - 1]

\* The server lets go of everything a closed connection holds.
Released(g, a) == [r \in DOMAIN g |-> IF g[r] = a THEN 0 ELSE g[r]]

------------------------------------------------------------------------------
(* bind.                                                                   *)

\* X11ShortcutProvider::bind, up to the socket (without one, nothing has happened).
Bind ==
    /\ setup.pc = "idle" /\ session = 0
    /\ \E a \in {x \in 1..Attempts : conns[x] = "none" /\ \A y \in 1..(x - 1) : conns[y] # "none"} :
         /\ setup' = [pc |-> "connect", attempt |-> a]
         /\ conns' = [conns EXCEPT ![a] = "open"]
    /\ UNCHANGED <<keyboard, permit, auths, workers, grabs, session, plan, keyVars, budget>>

\* load_x11_auth: without a free permit the attempt fails, and its socket is closed.
LoadAuth ==
    /\ setup.pc = "connect"
    /\ IF permit
         THEN /\ conns' = [conns EXCEPT ![setup.attempt] = "shut"]
              /\ setup' = Idle
              /\ UNCHANGED <<permit, auths>>
         ELSE /\ permit' = TRUE
              /\ auths' = auths \cup {setup.attempt}
              /\ setup' = [setup EXCEPT !.pc = "auth"]
              /\ UNCHANGED conns
    /\ UNCHANGED <<keyboard, workers, grabs, session, plan, keyVars, budget>>

\* connect_and_grab, up to its first grab: it fails when the server refuses it or the
\* keyboard has no keys for the shortcuts.
ConnectAndGrab(a) ==
    \/ /\ PlanBindings(keyboard)
       /\ setup' = [setup EXCEPT !.pc = "grab"]
       /\ plan' = [plan EXCEPT ![a] = keyboard]
       /\ workers' = [workers EXCEPT ![a] = Registrations(keyboard)]
       /\ UNCHANGED conns
    \/ /\ setup' = Idle
       /\ conns' = [conns EXCEPT ![a] = "shut"]
       /\ UNCHANGED <<plan, workers>>

\* The authentication thread ends, with or without the cookie (AuthWorkerPermit::drop),
\* and whoever still waits for it goes on.
AuthDone(a) ==
    /\ a \in auths
    /\ auths' = auths \ {a}
    /\ permit' = FALSE
    /\ IF setup.attempt = a /\ setup.pc = "auth"
         THEN ConnectAndGrab(a)
         ELSE UNCHANGED <<setup, plan, workers, conns>>
    /\ UNCHANGED <<keyboard, grabs, session, keyVars, budget>>

\* The end of a worker whose grab failed, or whose result nobody takes: the connection
\* goes with it.
WorkerFails(a) ==
    /\ workers' = [workers EXCEPT ![a] = {}]
    /\ conns' = [conns EXCEPT ![a] = IF @ = "gone" THEN @ ELSE "shut"]
    /\ setup' = IF setup.attempt = a THEN Idle ELSE setup
    /\ events' = IF setup.attempt = a THEN <<>> ELSE events

\* One round trip of install_grabs.  A refused key gives back the keys before it.
InstallGrab(a) ==
    /\ workers[a] # {}
    /\ LET r == CHOOSE x \in workers[a] : TRUE
           free == conns[a] = "open" /\ grabs[r] = 0
           last == workers[a] = {r}
           waited == setup.attempt = a
       IN  CASE free /\ ~last ->
                  /\ grabs' = [grabs EXCEPT ![r] = a]
                  /\ workers' = [workers EXCEPT ![a] = @ \ {r}]
                  /\ UNCHANGED <<setup, conns, session, events>>
             [] free /\ last /\ waited ->
                  /\ grabs' = [grabs EXCEPT ![r] = a]
                  /\ workers' = [workers EXCEPT ![a] = {}]
                  /\ session' = a /\ setup' = Idle  \* disarmed: the session owns the connection
                  /\ UNCHANGED <<conns, events>>
             [] free /\ last /\ ~waited ->
                  /\ grabs' = [grabs EXCEPT ![r] = a] /\ WorkerFails(a) /\ UNCHANGED session
             [] ~free -> grabs' = Released(grabs, a) /\ WorkerFails(a) /\ UNCHANGED session
    /\ UNCHANGED <<keyboard, permit, auths, plan, keyState, budget>>

\* SetupCancellation::drop.
SetupDropped(c) == "shut"

\* SETUP_TIMEOUT, or the broker drops the future.  The threads go on by themselves.
Abandon ==
    /\ setup.pc # "idle"
    /\ setup' = Idle
    /\ conns' = [conns EXCEPT ![setup.attempt] =
                   IF setup.pc = "grab" THEN SetupDropped(@) ELSE "shut"]
    /\ events' = <<>>
    /\ UNCHANGED <<keyboard, permit, auths, workers, grabs, session, plan, keyState, budget>>

\* The X server sees that a connection has been closed.
ServerCloses(a) ==
    /\ conns[a] = "shut"
    /\ conns' = [conns EXCEPT ![a] = "gone"]
    /\ grabs' = Released(grabs, a)
    /\ UNCHANGED <<keyboard, setup, permit, auths, workers, session, plan, keyVars, budget>>

\* Another client takes a key or gives it back.
Rival ==
    /\ Spend("rivals")
    /\ \E r \in Foreign : grabs[r] <= 0 /\ grabs' = [grabs EXCEPT ![r] = -1 - @]
    /\ UNCHANGED <<keyboard, setup, permit, auths, workers, conns, session, plan, keyVars>>

------------------------------------------------------------------------------
(* The session ends: close, or an error of next_event.                     *)

EndSession ==
    /\ conns' = [conns EXCEPT ![session] = "shut"]
    /\ session' = 0
    /\ events' = <<>> /\ pressed' = {} /\ pending' = NoPending /\ grabbed' = 0
    /\ told' = {} /\ strays' = {}
    /\ UNCHANGED <<setup, permit, auths, workers, grabs, plan, down, state, repeating, clock>>

Close == session # 0 /\ EndSession /\ UNCHANGED <<keyboard, outcome, budget>>

------------------------------------------------------------------------------
(* The keyboard.  A grabbed chord starts an active grab that lasts until   *)
(* its key is released; while it lasts every key event goes to the client. *)
(* Only a new press starts one, and only the key pressed last repeats.     *)

Sent(kind, k, fresh) ==
    [kind |-> kind, keycode |-> k, mask |-> state, time |-> clock', fresh |-> fresh,
     stray |-> k \in strays]

Grabs(k) == session # 0 /\ \E r \in DOMAIN grabs :
               r.keycode = k /\ r.modifiers = state /\ grabs[r] = session

PressKey(k) ==
    /\ k \notin down /\ Spend("keys")
    /\ down' = down \cup {k} /\ repeating' = k /\ clock' = clock + 1
    /\ LET sent == grabbed # 0 \/ Grabs(k)
       IN  /\ grabbed' = IF grabbed = 0 /\ Grabs(k) THEN k ELSE grabbed
           /\ events' = IF sent THEN Append(events, Sent("press", k, TRUE)) ELSE events
           /\ told' = IF sent THEN told \cup {k} ELSE told
           /\ strays' = IF sent THEN strays \ {k} ELSE strays
    /\ UNCHANGED <<keyboard, setupVars, state, pressed, pending, outcome>>

ReleaseKey(k) ==
    /\ k \in down
    /\ down' = down \ {k} /\ clock' = clock + 1
    /\ repeating' = IF repeating = k THEN 0 ELSE repeating
    /\ events' = IF grabbed # 0 THEN Append(events, Sent("release", k, TRUE)) ELSE events
    /\ grabbed' = IF grabbed = k THEN 0 ELSE grabbed
    /\ told' = told \ {k}
    /\ strays' = IF grabbed = 0 THEN strays \cup (told \cap {k}) ELSE strays \ {k}
    /\ UNCHANGED <<keyboard, setupVars, state, pressed, pending, outcome, budget>>

\* A held key repeats: a release and a press with the same time.
Repeat(k) ==
    /\ k = repeating /\ grabbed # 0 /\ Spend("repeats")
    /\ clock' = clock + 1
    /\ events' = events \o <<Sent("release", k, FALSE), Sent("press", k, FALSE)>>
    /\ UNCHANGED <<keyboard, setupVars, down, state, grabbed, repeating, pressed, pending, outcome, told, strays>>

\* A modifier or a lock goes on or off; its key event is of no binding.
ChangeState(s) ==
    /\ s # state /\ Spend("states")
    /\ state' = s /\ clock' = clock + 1
    /\ events' = IF grabbed # 0 THEN Append(events, Sent("other", 0, TRUE)) ELSE events
    /\ UNCHANGED <<keyboard, setupVars, down, grabbed, repeating, pressed, pending, outcome, told, strays>>

\* Every client hears of a new keyboard, also one that is still grabbing its keys.
ChangeKeyboard(b) ==
    /\ b # keyboard /\ Spend("changes")
    /\ keyboard' = b /\ clock' = clock + 1
    /\ events' = IF session # 0 \/ setup.pc = "grab"
                 THEN Append(events, Sent("mapping", 0, TRUE)) ELSE events
    /\ UNCHANGED <<setupVars, down, state, grabbed, repeating, pressed, pending, outcome, told, strays>>

------------------------------------------------------------------------------
(* next_event and NativeKeyState.                                          *)

ReleasePending(held, p) == IF p = NoPending THEN held ELSE held \ {p[1]}

\* Mutant: a release counts at once, auto-repeat or not.
PendingRelease_at_once(held, e) == [pressed |-> held \ {e.keycode}, pending |-> NoPending]

\* NativeKeyState::release.
PendingRelease(held, e) ==
    LET left == ReleasePending(held, pending)
    IN  [pressed |-> left, pending |-> IF e.keycode \in left THEN <<e.keycode, e.time>> ELSE NoPending]

NextEvent ==
    /\ session # 0 /\ events # <<>>
    /\ LET e == Head(events)
           b == plan[session]
           repeat == pending = <<e.keycode, e.time>>
           left == ReleasePending(pressed, pending)
           new == ~repeat /\ e.keycode \notin left
           hits == ActivatedShortcut(b, e.keycode, e.mask)
       IN  CASE e.kind = "press" ->
                  /\ events' = Tail(events)
                  /\ pressed' = IF repeat THEN pressed ELSE left \cup {e.keycode}
                  /\ pending' = NoPending
                  /\ outcome' = IF hits = {} THEN outcome
                                ELSE [repeated |-> outcome.repeated \/ (new /\ ~e.fresh),
                                      missed |-> outcome.missed \/ (~new /\ e.fresh /\ ~e.stray)]
                  /\ UNCHANGED <<keyboard, setupVars, down, state, grabbed, repeating, clock, told,
                                 strays, budget>>
             [] e.kind = "release" ->
                  /\ events' = Tail(events)
                  /\ pressed' = PendingRelease(pressed, e).pressed
                  /\ pending' = PendingRelease(pressed, e).pending
                  /\ UNCHANGED <<keyboard, setupVars, down, state, grabbed, repeating, clock, outcome,
                                 told, strays, budget>>
             [] e.kind = "other" ->
                  /\ events' = Tail(events)
                  /\ pressed' = left /\ pending' = NoPending
                  /\ UNCHANGED <<keyboard, setupVars, down, state, grabbed, repeating, clock, outcome,
                                 told, strays, budget>>
             [] OTHER -> EndSession /\ UNCHANGED <<keyboard, outcome, budget>>

Keys == {r.keycode : r \in DOMAIN grabs}

Next ==
    \/ Bind \/ LoadAuth \/ Abandon \/ Rival \/ Close \/ NextEvent
    \/ \E a \in 1..Attempts : AuthDone(a) \/ InstallGrab(a) \/ ServerCloses(a)
    \/ \E k \in Keys : PressKey(k) \/ ReleaseKey(k) \/ Repeat(k)
    \/ \E s \in States : ChangeState(s)
    \/ \E b \in Keyboards : ChangeKeyboard(b)

Spec == Init /\ [][Next]_vars

------------------------------------------------------------------------------
(* Properties.                                                             *)

\* A bound session hears each of its shortcuts whatever locks are on: every variant of
\* every chord is grabbed, or the attempt failed as a whole.
BoundMeansHeard ==
    session # 0 =>
      LET b == plan[session]
      IN  \A x \in Bindings(b), s \in States :
            s \ Locks(b) = x.modifiers =>
              \E r \in DOMAIN grabs :
                r.keycode = x.keycode /\ r.modifiers = s /\ grabs[r] = session

\* An attempt that timed out keeps no key: whatever its worker goes on doing, a key is
\* held by the session, by the attempt that is awaited, or by a connection that has been
\* shut and that the server is about to close.
AbandonedHoldsNothing ==
    \A r \in DOMAIN grabs :
      LET a == grabs[r]
      IN  a > 0 => a = session \/ conns[a] = "shut" \/ (setup.attempt = a /\ setup.pc = "grab")

\* One press of a shortcut is one activation: none for the repeats of a held key, and
\* none missed, except for a key whose last release went to another window (it was
\* pressed under the grab of a key that was released first).
OncePerPress == ~outcome.repeated /\ ~outcome.missed

\* What is said of a session's grabs, and of the keys that come through them.
GrabsAreExact == BoundMeansHeard /\ AbandonedHoldsNothing /\ OncePerPress
==============================================================================
