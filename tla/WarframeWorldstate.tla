-------------------------- MODULE WarframeWorldstate --------------------------
(***************************************************************************)
(* The Warframe status widgets: the worldstate worker (warframe/worldstate/ *)
(* client.rs), what it reads of a reply (parse.rs), the timers kept live    *)
(* between replies (live.rs), the cache of the painted rows (derived.rs),   *)
(* and the frame that drives them (controller.rs).  The worker and the     *)
(* egui thread share two flags and the latest snapshot.                    *)
(*                                                                         *)
(* Time is the wall clock in seconds, never stepped back, with every        *)
(* period scaled down; the cycles all begin at 0.  Of the lists of a        *)
(* snapshot only the invasions are kept: the others go the same way.       *)
(***************************************************************************)
EXTENDS Integers, Sequences, FiniteSets

CONSTANTS Day, Night,                   \* CETUS_DAY_SECS, CETUS_NIGHT_SECS
          VallisLoop, VallisCold,       \* VALLIS_LOOP_MS, VALLIS_COLD_MS
          ZarimanHalf,                  \* ZARIMAN_HALF_MS
          DayLength,                    \* 86_400
          Minute, Offset,               \* a bounty ends Offset after a whole minute
          PollInterval, BackoffInitial, BackoffMax, ForceMin, Ttl,
          PhaseSteps,                   \* the bound of advance_cetus_like's loop
          Invasions,                    \* instance ids, as numbers
          Lag,                          \* how old the server's answer may be
          MaxTime,                      \* seconds followed
          Budgets                       \* [replies, faults, gates, edits]

VARIABLES now,
          polling_enabled, refresh_requested,  \* shared with the worker
          last_force,                          \* last_force_refresh_secs
          worker,   \* [pc, at, next_poll, backoff, last_good, published]
          latest,   \* the latest channel: [value, revision, unread]
          view,     \* the controller's snapshot: [value, revision, tick_at, ticked,
                    \*   walked: see Reached]
          prefs,    \* [done, revision]
          derived,  \* [key, rows]
          frame,    \* "render" between a frame's sync and its actions
          budget

vars == <<now, polling_enabled, refresh_requested, last_force, worker, latest, view, prefs,
          derived, frame, budget>>

------------------------------------------------------------------------------
(* What a reply is read as.                                                *)

Period == Day + Night
NextMultiple(n, t) == (t \div n + 1) * n

Least(a, b) == IF a < b THEN a ELSE b
Greatest(a, b) == IF a < b THEN b ELSE a

\* cetus_like_cycle: the last Night seconds before the bounties end are the night.
CetusLikeCycle(bounty_end, at) ==
    LET end  == bounty_end - (bounty_end % Minute)
        left == end - at
    IN  [day |-> left > Night, expires |-> IF left > Night THEN end - Night ELSE end]

VallisAt(t) ==
    LET to_full == VallisLoop - (t % VallisLoop)
    IN  [warm |-> to_full > VallisCold,
         expires |-> t + IF to_full < VallisCold THEN to_full ELSE to_full - VallisCold]

ZarimanAt(t) ==
    LET left   == 2 * ZarimanHalf - (t % (2 * ZarimanHalf))
        corpus == left > ZarimanHalf
    IN  [corpus |-> corpus,
         expires |-> t + Greatest(IF corpus THEN left - ZarimanHalf ELSE left, 1)]

ZarimanFromBounty(bounty_end, at) ==
    LET end == bounty_end - (bounty_end % Minute)
    IN  IF end <= at
          THEN ZarimanAt(at)
          ELSE [corpus |-> ZarimanAt(end - 1).corpus, expires |-> end]

NextUtcMidnight(t) == NextMultiple(DayLength, t)

NoSnapshot == [payload |-> FALSE, fetched |-> 0, attempt |-> 0, error |-> FALSE,
               cetus |-> CetusLikeCycle(0, 0), vallis |-> VallisAt(0),
               zariman |-> ZarimanAt(0), reset |-> 0, invasions |-> {}]

\* The bounties a server answering at t names: each ends Offset after its cycle turns.
BountyEnd(cycle, t) == NextMultiple(cycle, t - Offset) + Offset

\* parse_worldstate: the phases are those at the second the request was made.
ParseWorldstate(t, invasions, at) ==
    [payload |-> TRUE, fetched |-> at, attempt |-> at, error |-> FALSE,
     cetus |-> CetusLikeCycle(BountyEnd(Period, t), at), vallis |-> VallisAt(at),
     zariman |-> ZarimanFromBounty(BountyEnd(ZarimanHalf, t), at),
     reset |-> NextUtcMidnight(at), invasions |-> invasions]

------------------------------------------------------------------------------
(* The timers between two replies.                                         *)

\* Mutant: a phase is given the length of the one it follows.
Turn_swapped(c, t) ==
    IF c.expires > t THEN c
    ELSE [day |-> ~c.day, expires |-> c.expires + IF c.day THEN Day ELSE Night]

\* One round of advance_cetus_like's loop.
Turn(c, t) ==
    IF c.expires > t THEN c
    ELSE [day |-> ~c.day, expires |-> c.expires + IF c.day THEN Night ELSE Day]

AdvanceCetusLike(cycle, t) ==
    LET walk[n \in 0 .. PhaseSteps] == IF n = 0 THEN cycle ELSE Turn(walk[n - 1], t)
    IN  [walk[PhaseSteps] EXCEPT !.expires = Greatest(@, t + 1)]

\* The loop's bound: PhaseSteps phases after its end (64 of them are 80 hours) a phase
\* can no longer be followed, and one that ends in the next second is shown instead.
Reached(s, t) == s.payload => t < s.cetus.expires + (PhaseSteps \div 2) * Period

\* advance_live_timers; its result says whether a bounty-backed phase has rolled.
AdvanceLiveTimers(s, t) ==
    IF ~s.payload THEN s
    ELSE [s EXCEPT !.cetus = IF @.expires > t THEN @ ELSE AdvanceCetusLike(@, t),
                   !.vallis = VallisAt(t),
                   !.zariman = IF @.expires <= t THEN ZarimanAt(t) ELSE @,
                   !.reset = IF @ <= t THEN NextUtcMidnight(t) ELSE @]

Rolled(s, t) == s.payload /\ (s.cetus.expires <= t \/ s.zariman.expires <= t)

\* The order of the invasions widget: what is marked done comes last.
Before(i, j, done) == IF (i \in done) # (j \in done) THEN j \in done ELSE i < j
Ordered(invasions, done) ==
    LET places == 1 .. Cardinality(invasions)
    IN  CHOOSE rows \in [places -> invasions] :
          \A m, n \in places : m < n => Before(rows[m], rows[n], done)
Rows(s, done) == Ordered(s.invasions, done)

------------------------------------------------------------------------------
Init ==
    /\ now = 0
    /\ polling_enabled = FALSE /\ refresh_requested = FALSE /\ last_force = 0
    /\ worker = [pc |-> "idle", at |-> 0, next_poll |-> 0, backoff |-> BackoffInitial,
                 last_good |-> NoSnapshot, published |-> NoSnapshot]
    /\ latest = [value |-> NoSnapshot, revision |-> 0, unread |-> FALSE]
    /\ view = [value |-> NoSnapshot, revision |-> 0, tick_at |-> 0, ticked |-> FALSE,
                walked |-> TRUE]
    /\ prefs = [done |-> {}, revision |-> 0]
    /\ derived = [key |-> <<>>, rows |-> <<>>]
    /\ frame = "idle"
    /\ budget \in Budgets

Spend(kind) == budget[kind] > 0 /\ budget' = [budget EXCEPT ![kind] = @ - 1]

Second ==
    /\ now < MaxTime
    /\ now' = now + 1
    /\ view' = [view EXCEPT !.ticked = FALSE]
    /\ frame' = "idle"
    /\ UNCHANGED <<polling_enabled, refresh_requested, last_force, worker, latest, prefs,
                   derived, budget>>

------------------------------------------------------------------------------
(* The worker.  It looks every IDLE_INTERVAL, and clears a forced refresh  *)
(* even while polling is off.                                              *)

Wake ==
    /\ worker.pc = "idle"
    /\ refresh_requested \/ (polling_enabled /\ now >= worker.next_poll)
    /\ refresh_requested' = FALSE
    /\ worker' = IF polling_enabled THEN [worker EXCEPT !.pc = "fetch", !.at = now] ELSE worker
    /\ UNCHANGED <<now, polling_enabled, last_force, latest, view, prefs, derived, frame, budget>>

\* publish_if_changed
Publish(snapshot) ==
    latest' = IF worker.published = snapshot THEN latest
              ELSE [value |-> snapshot, revision |-> latest.revision + 1, unread |-> TRUE]

Fetched ==
    /\ worker.pc = "fetch"
    /\ Spend("replies")
    /\ \E lag \in 0 .. Lag, invasions \in SUBSET Invasions :
         LET t == Greatest(now - lag, 0)
             s == ParseWorldstate(t, invasions, worker.at)
         IN  /\ Publish(s)
             /\ worker' = [worker EXCEPT !.pc = "idle", !.next_poll = now + PollInterval,
                                         !.backoff = BackoffInitial, !.published = s,
                                         !.last_good = IF worker.published = s THEN @ ELSE s]
    /\ UNCHANGED <<now, polling_enabled, refresh_requested, last_force, view, prefs, derived,
                   frame>>

\* Mutant: failures keep the data however old it is.
FailureSnapshot_unbounded(good, at) == [good EXCEPT !.attempt = at, !.error = TRUE]

FailureSnapshot(good, at) ==
    IF good.payload /\ at - good.fetched > Ttl
      THEN [NoSnapshot EXCEPT !.fetched = good.fetched, !.attempt = at, !.error = TRUE]
      ELSE [good EXCEPT !.attempt = at, !.error = TRUE]

\* A failed request or an unreadable reply.
FetchFails ==
    /\ worker.pc = "fetch"
    /\ Spend("faults")
    /\ LET s == FailureSnapshot(worker.last_good, worker.at)
       IN  /\ Publish(s)
           /\ worker' = [worker EXCEPT !.pc = "idle", !.next_poll = now + worker.backoff,
                                       !.backoff = Least(2 * @, BackoffMax),
                                       !.published = s]
    /\ UNCHANGED <<now, polling_enabled, refresh_requested, last_force, view, prefs, derived,
                   frame>>

------------------------------------------------------------------------------
(* The egui thread.  A frame syncs, paints, and applies its actions.       *)

RequestRefresh ==
    IF now - last_force < ForceMin \/ refresh_requested
      THEN UNCHANGED <<last_force, refresh_requested>>
      ELSE last_force' = now /\ refresh_requested' = TRUE

Drained ==
    IF latest.unread THEN [view EXCEPT !.value = latest.value, !.revision = latest.revision,
                                       !.walked = TRUE]
    ELSE view

\* WarframeDerivedCache::sync
SyncDerived(v) ==
    LET key == <<v.revision, prefs.revision>>
    IN  derived' = IF derived.key = key THEN derived
                   ELSE [key |-> key, rows |-> Rows(v.value, prefs.done)]

Sync(enabled) ==
    LET v   == Drained
        due == enabled /\ now >= v.tick_at
    IN  /\ IF enabled = polling_enabled THEN UNCHANGED budget ELSE Spend("gates")
        /\ polling_enabled' = enabled
        /\ latest' = [latest EXCEPT !.unread = FALSE]
        /\ view' = [value |-> IF due THEN AdvanceLiveTimers(v.value, now) ELSE v.value,
                    revision |-> v.revision,
                    tick_at |-> IF ~enabled THEN 0 ELSE IF due THEN now + 1 ELSE v.tick_at,
                    ticked |-> due,
                    walked |-> v.walked /\ (due => Reached(v.value, now))]
        /\ IF due /\ Rolled(v.value, now)
             THEN RequestRefresh
             ELSE UNCHANGED <<last_force, refresh_requested>>
        /\ SyncDerived(v)
        /\ frame' = "render"
        /\ UNCHANGED <<now, worker, prefs>>

\* apply_action_batch: marks of invasions that are gone are pruned before the toggle.
Toggle(i) ==
    LET kept == prefs.done \cap view.value.invasions
    IN  IF i \in kept THEN kept \ {i} ELSE kept \cup {i}

\* The outcomes of commit_warframe_prefs that make the candidate the current prefs.
Committed == {"durable", "committed"}

CommitActions(i, outcome) ==
    /\ frame = "render" /\ polling_enabled
    /\ Spend("edits")
    /\ \E k \in DOMAIN derived.rows : derived.rows[k] = i
    /\ prefs' = IF outcome = "rolled_back" THEN prefs
                ELSE [done |-> Toggle(i),
                      revision |-> prefs.revision + IF outcome \in Committed THEN 1 ELSE 0]
    /\ frame' = "idle"
    /\ UNCHANGED <<now, polling_enabled, refresh_requested, last_force, worker, latest, view,
                   derived>>

Next ==
    \/ Second \/ Wake \/ Fetched \/ FetchFails
    \/ \E enabled \in BOOLEAN : Sync(enabled)
    \/ \E i \in Invasions, outcome \in {"durable", "committed", "rolled_back"} :
         CommitActions(i, outcome)

Spec == Init /\ [][Next]_vars

------------------------------------------------------------------------------
(* Properties.                                                             *)

\* After a tick the phases shown are those of the game at that second and end when the
\* game's do, however old or slow the reply they come from (advance_live_timers).  Cetus
\* and Cambion are followed phase by phase, so theirs are promised only while no tick
\* since the reply came PhaseSteps phases or more after the end then shown: beyond that
\* limit (live.rs:57) they are wrong until the next reply, and with it right again.
PhasesAreTrue ==
    view.ticked /\ view.value.payload =>
      LET s == view.value
      IN  /\ view.walked =>
               /\ s.cetus.day = (now % Period < Day)
               /\ s.cetus.expires
                    = (now \div Period) * Period + IF s.cetus.day THEN Day ELSE Period
          /\ s.zariman.corpus = (now % (2 * ZarimanHalf) < ZarimanHalf)
          /\ s.zariman.expires = NextMultiple(ZarimanHalf, now)
          /\ s.vallis.warm = (now % VallisLoop < VallisLoop - VallisCold)
          /\ s.reset = NextMultiple(DayLength, now)

\* "the UI never shows `expired`" for these timers (live.rs:5): after a tick each of
\* them ends in the future.
NeverExpired ==
    view.ticked /\ view.value.payload =>
      /\ view.value.cetus.expires > now /\ view.value.vallis.expires > now
      /\ view.value.zariman.expires > now /\ view.value.reset > now

\* What a failed request leaves on the screen is the newest good reply, and only while
\* that reply was at most Ttl old when the request was made.
RetainedIsRecent ==
    LET s == worker.published
    IN  s.error /\ s.payload =>
          /\ s.attempt - s.fetched <= Ttl
          /\ s.fetched = worker.last_good.fetched
          /\ s.invasions = worker.last_good.invasions

\* The rows a frame paints, and acts on, are those of the snapshot and the preferences it
\* paints them from: the cache is never behind its keys.
RowsAreCurrent ==
    frame = "render" => derived.rows = Rows(view.value, prefs.done)
==============================================================================
