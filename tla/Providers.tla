------------------------------ MODULE Providers ------------------------------
(***************************************************************************)
(* Providers of the overlay side by side: the OAuth machine of the Twitch  *)
(* chat, the media widget, the Warframe market and the world state. Each   *)
(* has its own worker thread, queue and snapshot and shares nothing with   *)
(* another, so a behaviour is one of a single provider and `component`     *)
(* says which; a variable that two of them name alike is declared once.    *)
(* Here is what is promised of each.                                       *)
(***************************************************************************)

CONSTANT None
VARIABLE component

------------------------------------------------------------------------------
CONSTANTS MaxTokens, Faults
VARIABLES machine, stored, grant, issued, excused, faults, restored, phase
Auth == INSTANCE TwitchAuth

\* Twitch: across refreshes, failed saves, lost answers and crashes, a token that
\* Twitch has replaced is never the one that stays stored, and what the worker believes
\* of the store is what the store holds (twitch/auth.rs).
TokensAreTrue == component = "auth" => Auth!TokensAreTrue

\* Twitch: the OAuth machine implements TwitchAuthPromise, all that the chat provider
\* relies on.
PromiseKept == Auth!PromiseKept

------------------------------------------------------------------------------
CONSTANTS Players, PlayerStates, CandidateLimit, MediaCapacity, MediaBudgets
VARIABLES bus, thread, channel, ready, wake, widget, commands, shutdown, called, budget
Media == INSTANCE MediaProvider WITH
    worker <- thread, repaint <- wake, ui <- widget,
    CommandCapacity <- MediaCapacity, Budgets <- MediaBudgets

\* Media: no snapshot waits without a wakeup of the egui thread, and a click reaches
\* only the player of the latest snapshot (media/client.rs).
PlayerIsShown == component = "media" => Media!PlayerIsShown

------------------------------------------------------------------------------
CONSTANTS Items, MarketCapacity, MarketBudgets
VARIABLES gate, refresh_pending, queue, current, unread, view, deadline
Market == INSTANCE WarframeMarket WITH
    worker <- thread, CommandCapacity <- MarketCapacity, Budgets <- MarketBudgets

\* Warframe market: the flag that coalesces refreshes is set only while a refresh is
\* queued or under way, and a status that promises an answer has work behind it.
MarketWaitsForWork == component = "market" => Market!MarketWaitsForWork

------------------------------------------------------------------------------
CONSTANTS Day, Night, VallisLoop, VallisCold, ZarimanHalf, DayLength, Minute, Offset,
          PollInterval, BackoffInitial, BackoffMax, ForceMin, Ttl, PhaseSteps, Invasions,
          Lag, MaxTime, WorldBudgets
VARIABLES now, polling_enabled, refresh_requested, last_force, latest, prefs, derived, frame
World == INSTANCE WarframeWorldstate WITH worker <- thread, Budgets <- WorldBudgets

\* Warframe world: what a failed request leaves on the screen is the newest good reply
\* while it is recent, and the rows a frame paints are those of the snapshot and the
\* preferences it paints them from (worldstate/client.rs, derived.rs).
WorldIsCurrent == component = "world" => World!RetainedIsRecent /\ World!RowsAreCurrent
==============================================================================
