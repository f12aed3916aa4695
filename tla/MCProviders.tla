----------------------------- MODULE MCProviders -----------------------------
(***************************************************************************)
(* The providers of the overlay, one at a time, on small instances for     *)
(* TLC.  They share no state (each has its own worker thread, queue and    *)
(* snapshot), so a behaviour is one of a single provider: `component` says *)
(* which.  The emote loader and the providers of module Providers have the *)
(* variables named there; those of another provider take the slots x1, x2, *)
(* ... in the order of its module.  What a behaviour does not use stays 0, *)
(* or as it starts.                                                        *)
(***************************************************************************)
EXTENDS Naturals, Sequences, AssetLoader, Providers

CONSTANTS c1, c2  \* model values: two channels

VARIABLES x1, x2, x3, x4, x5, x6, x7, x8, x9, x10, x11, x12, x13, x14, x15

\* The slots from the k-th on, and that they are unused.
From15 == <<x15>>
From14 == <<x14, From15>>
From13 == <<x13, From14>>
From1 == <<x1, x2, x3, x4, x5, x6, x7, x8, x9, x10, x11, x12, From13>>
Unused15 == x15 = 0
Unused14 == x14 = 0 /\ Unused15
Unused13 == x13 = 0 /\ Unused14
Unused1 ==
    /\ x1 = 0 /\ x2 = 0 /\ x3 = 0 /\ x4 = 0 /\ x5 = 0 /\ x6 = 0 /\ x7 = 0
    /\ x8 = 0 /\ x9 = 0 /\ x10 = 0 /\ x11 = 0 /\ x12 = 0 /\ Unused13

\* The variables of one named provider alone, and those that several of them have.
AuthOnly == <<machine, stored, grant, issued, excused, faults, restored, phase>>
MediaOnly == <<bus, channel, ready, wake, widget, commands, called>>
MediaOff ==
    /\ bus = 0 /\ channel = 0 /\ ready = 0 /\ wake = 0 /\ widget = 0 /\ commands = 0
    /\ called = 0
Common == <<thread, budget>>
CommonOff == thread = 0 /\ budget = 0
MarketOnly == <<gate, refresh_pending, queue, current, unread, deadline>>
MarketOff ==
    /\ gate = 0 /\ refresh_pending = 0 /\ queue = 0 /\ current = 0 /\ unread = 0
    /\ deadline = 0
WorldOnly == <<now, polling_enabled, refresh_requested, last_force, latest, prefs,
               derived, frame>>
WorldOff ==
    /\ now = 0 /\ polling_enabled = 0 /\ refresh_requested = 0 /\ last_force = 0
    /\ latest = 0 /\ prefs = 0 /\ derived = 0 /\ frame = 0

Named == <<vars, AuthOnly, MediaOnly, Common, shutdown, MarketOnly, view, WorldOnly>>
NamedOff ==
    /\ MediaOff /\ CommonOff /\ shutdown = 0 /\ MarketOff /\ view = 0 /\ WorldOff
allvars == <<component, Named, From1>>

------------------------------------------------------------------------------
(* The instances.  Budgets bound the steps of the users and of the outside *)
(* world in a behaviour; each record is a different mixture of them.       *)

Scoped == <<"VOICE_STATE", "SPEAKING">>
DiscordGate(g, w) == [lifecycle |-> TRUE, game |-> g, widget |-> w]
DiscordGates == {DiscordGate(TRUE, TRUE), DiscordGate(FALSE, TRUE), DiscordGate(FALSE, FALSE)}
DiscordBudget(u, d, f) == [ui |-> u, desktop |-> d, faults |-> f]
DiscordBudgets == {DiscordBudget(3, 1, 1), DiscordBudget(1, 4, 1), DiscordBudget(1, 3, 2)}

TwitchGate(g, w, c) == [lifecycle |-> TRUE, game |-> g, widget |-> w, channel |-> c]
TwitchGates == {TwitchGate(TRUE, TRUE, c1), TwitchGate(TRUE, TRUE, c2),
                TwitchGate(FALSE, TRUE, c1), TwitchGate(TRUE, FALSE, c1)}
TwitchCommands ==
    {"BeginAuthentication", "CancelAuthentication", "Disconnect", "SignOut", "Reconnect"}
TwitchBudget(u, c, f) == [ui |-> u, chat |-> c, faults |-> f]
TwitchBudgets == {TwitchBudget(2, 1, 1), TwitchBudget(0, 3, 1), TwitchBudget(3, 0, 0)}

Images == {"a", "b", "c"}

PlayerModes == {[status |-> "Playing", can |-> {"pause"}],
                [status |-> "Paused", can |-> {"play", "next"}]}
Clicks == {[changes |-> 2, clicks |-> 2, faults |-> 1]}

MarketBudget(g, c) == [gates |-> g, commands |-> c, timeouts |-> 1]
MarketUses == {MarketBudget(3, 4), MarketBudget(4, 3)}

WorldBudget(r, f, g, e) == [replies |-> r, faults |-> f, gates |-> g, edits |-> e]
WorldUses == {WorldBudget(1, 0, 1, 1), WorldBudget(1, 1, 1, 0), WorldBudget(2, 0, 1, 0)}

Discord == INSTANCE DiscordProvider WITH
    gate <- x1, gateSeen <- x2, commands <- x3, dropped <- x4, pc <- x5,
    outcome <- x6, state <- x7, cred <- x8, rx <- x9, torn <- x10, subs <- x11,
    late <- x12, voice <- x13, where <- x14, budget <- x15, Channels <- {c1, c2},
    Others <- {"u1"}, Me <- "me", ChannelScoped <- Scoped, Gates <- DiscordGates,
    NonceSpace <- 32, CommandCap <- 1, ParticipantMax <- 2,
    Budgets <- DiscordBudgets
Twitch == INSTANCE TwitchProvider WITH
    gate <- x1, commands <- x2, ui <- x3, active <- x4, restored <- x5, auth <- x6,
    state <- x7, socket <- x8, pc <- x9, published <- x10, server <- x11,
    sent <- x12, removed <- x13, budget <- x14, Channels <- {c1, c2},
    Gates <- TwitchGates, Commands <- TwitchCommands, MaxGeneration <- 4,
    MaxDeliveries <- 4, BufferMax <- 2, DedupMax <- 2, CommandMax <- 2,
    Budgets <- TwitchBudgets
AvatarLoader == INSTANCE AssetLoader WITH
    enabled <- x1, generation <- x2, pending <- x3, referenced <- x4, entries <- x5,
    lru <- x6, requests <- x7, results <- x8, worker <- x9, ui <- x10,
    refused <- x11, repaint <- x12, Emotes <- FALSE, Ids <- Images, RequestCap <- 2,
    CacheCap <- 2, MaxGeneration <- 2

------------------------------------------------------------------------------
DiscordInit == component = "discord" /\ Discord!Init /\ NamedOff
TwitchInit == component = "twitch" /\ Twitch!Init /\ NamedOff /\ Unused15
AvatarLoaderInit == component = "avatars" /\ AvatarLoader!Init /\ NamedOff /\ Unused13
EmotesInit == component = "emotes" /\ NamedOff /\ Unused1
AuthInit == component = "auth" /\ NamedOff /\ Unused1
MediaInit ==
    /\ component = "media" /\ Media!Init
    /\ MarketOff /\ view = 0 /\ WorldOff /\ Unused1
MarketInit ==
    /\ component = "market" /\ Market!Init
    /\ MediaOff /\ WorldOff /\ Unused1
WorldInit ==
    /\ component = "world" /\ World!Init
    /\ MediaOff /\ shutdown = 0 /\ MarketOff /\ Unused1
DiscordNext ==
    component = "discord" /\ Discord!Next /\ UNCHANGED <<component, Named>>
TwitchNext ==
    component = "twitch" /\ Twitch!Next /\ UNCHANGED <<component, Named, From15>>
AvatarLoaderNext ==
    component = "avatars" /\ AvatarLoader!Next /\ UNCHANGED <<component, Named, From13>>
EmotesNext ==
    component = "emotes" /\ Next
    /\ UNCHANGED <<component, AuthOnly, MediaOnly, Common, shutdown, MarketOnly, view,
                   WorldOnly, From1>>
AuthNext ==
    component = "auth" /\ Auth!Next
    /\ UNCHANGED <<component, vars, MediaOnly, Common, shutdown, MarketOnly, view,
                   WorldOnly, From1>>
MediaNext ==
    component = "media" /\ Media!Next
    /\ UNCHANGED <<component, vars, AuthOnly, MarketOnly, view, WorldOnly, From1>>
MarketNext ==
    component = "market" /\ Market!Next
    /\ UNCHANGED <<component, vars, AuthOnly, MediaOnly, WorldOnly, From1>>
WorldNext ==
    component = "world" /\ World!Next
    /\ UNCHANGED <<component, vars, AuthOnly, MediaOnly, shutdown, MarketOnly, From1>>

MCInit ==
    /\ Init /\ Auth!Init
    /\ \/ DiscordInit \/ TwitchInit \/ AvatarLoaderInit \/ WorldInit
       \/ EmotesInit \/ AuthInit \/ MediaInit \/ MarketInit
    /\ component = "auth" \/ stored = 0
MCNext ==
    \/ DiscordNext \/ TwitchNext \/ AvatarLoaderNext \/ WorldNext
    \/ EmotesNext \/ AuthNext \/ MediaNext \/ MarketNext
MCSpec == MCInit /\ [][MCNext]_allvars

\* One provider alone.
DiscordSpec == Init /\ Auth!Init /\ DiscordInit /\ [][DiscordNext]_allvars
WorldSpec == Init /\ Auth!Init /\ WorldInit /\ [][WorldNext]_allvars

------------------------------------------------------------------------------
(* Properties: those of the modules, said of the provider at hand.         *)

\* Discord: whatever channel the user moves to and however late the desktop answers,
\* an event changes the channel it was subscribed for, and what is shown as current is
\* the channel last selected, but for a departure announced out of turn
\* (discord/client.rs); and every avatar awaited is on its way
\* (discord/avatars.rs).
VoiceIsCurrent ==
    /\ component = "discord" => Discord!ChannelOwnsItsEvents /\ Discord!ShownIsCurrent
    /\ component = "avatars" => AvatarLoader!ImagesArrive

\* Discord: a connection whose setup is never finished is given up, and a socket is
\* open only as long as the gate the worker has seen lets it be.
SessionIsGoverned ==
    component = "discord" => Discord!SetupIsBounded /\ Discord!GateIsObeyed

\* Twitch: a message goes to the channel it was typed for and no other, whatever the
\* user selects meanwhile, and every send is answered in the widget.
SendsAreMeant ==
    component = "twitch" => Twitch!SentWhereMeant /\ Twitch!SendIsAnswered

\* Twitch: the chat shown is that of the selected channel, each message once although
\* EventSub repeats deliveries, and nothing received is held back for good.
ChatIsExact ==
    component = "twitch" =>
      Twitch!EachMessageOnce /\ Twitch!ChatOfSelectedChannel /\ Twitch!NothingHeldBack

\* Warframe world: the phases shown are those of the clock of the game, those of Cetus
\* within the 64 phases that the code follows after a reply or a tick (live.rs:57).
PhasesAreTrue == component = "world" => World!PhasesAreTrue

\* docs/architecture.md: "disabling the widget, losing lifecycle authority, signing out,
\* or stopping the renderer clears the retained channel and avatar references".
DisablingClearsChannel == component = "discord" => Discord!DisablingClearsChannel

\* warframe/worldstate/live.rs:3: "so the UI never shows `expired` for
\* Cetus/Vallis/Cambion/Zariman/daily reset".
NeverExpired == component = "world" => World!NeverExpired
==============================================================================
