----------------------------- MODULE Preferences -----------------------------
(***************************************************************************)
(* What the four settings files may hold and what an edit does to them:    *)
(* LifecycleSettings (overcrow-config/model.rs), WidgetProfile             *)
(* (widgets.rs), TwitchPrefs (twitch_prefs.rs) and WarframePrefs           *)
(* (warframe_prefs.rs).  Everything is a function of the old value; the    *)
(* files themselves are in SettingsStores.                                 *)
(*                                                                         *)
(* A text is [id, form]: form says how far it is from its normal form      *)
(* (plain), and an illegal text has none.  Fields that validation and the  *)
(* edits treat alike are one field: sections stands for the two display    *)
(* flags of the notes widget, inRange for every position, scale and size.  *)
(***************************************************************************)
EXTENDS Naturals, Sequences, Functions, FiniteSetsExt

CONSTANTS None,         \* no channel
          FavoritesMax, \* TWITCH_FAVORITES_MAX
          ListMax,      \* WARFRAME_INVASION_WATCHLIST_MAX
          DoneMax,      \* WARFRAME_ACTIVITY_DONE_MAX
          Eras          \* FissureEra::ALL

Sources == {"normal", "steel_path", "railjack"}
Sections == {"note", "checklist"}

Plain(id) == [id |-> id, form |-> "plain"]

\* A validation: the normalized value, or the old one with ok FALSE.
Valid(value) == [ok |-> TRUE, value |-> value]
Invalid(value) == [ok |-> FALSE, value |-> value]

------------------------------------------------------------------------------
(* LifecycleSettings: the switch and the chosen games.                     *)

DefaultSettings == [schema |-> 1, enabled |-> FALSE, games |-> {}, inRange |-> TRUE]

ValidateSettings(s) == IF s.schema = 1 /\ s.inRange THEN Valid(s) ELSE Invalid(s)

------------------------------------------------------------------------------
(* WidgetProfile.                                                          *)

DefaultProfile ==
    [schema |-> 3, stopwatch |-> FALSE, passive |-> FALSE, sections |-> Sections,
     inRange |-> TRUE]

ValidateProfile(p) ==
    IF p.schema = 3 /\ p.inRange /\ p.sections # {} THEN Valid(p) ELSE Invalid(p)

\* apply_catalog_action's candidate.
SetEnabled(p, enabled) == [p EXCEPT !.stopwatch = enabled]
SetPassive(p, visible) == [p EXCEPT !.passive = visible]
ToggleSection(p, s) == [p EXCEPT !.sections = SymDiff(@, {s})]

\* What a click on a card of the catalog does, and what the options of a widget offer:
\* the only visible section of the notes cannot be hidden.
CatalogCard(p) == SetEnabled(p, ~p.stopwatch)
ProfileOptions(p) == {ToggleSection(p, s) : s \in {t \in Sections : p.sections # {t}}}

------------------------------------------------------------------------------
(* TwitchPrefs.                                                            *)

DefaultTwitchPrefs == [schema |-> 1, channel |-> None, favorites |-> <<>>, inRange |-> TRUE]

Legal(texts) == \A t \in texts : t.form # "illegal"

\* The first occurrence of each text, in order.
Dedup(texts) ==
    LET first[n \in 0..Len(texts)] ==
          CASE n = 0 -> <<>>
            [] n > 0 /\ texts[n] \in Range(first[n - 1]) -> first[n - 1]
            [] OTHER -> Append(first[n - 1], texts[n])
    IN  first[Len(texts)]

\* An entry taken out by its value, and by its place.
Without(texts, t) == SelectSeq(texts, LAMBDA u : u # t)
WithoutAt(texts, at) == SubSeq(texts, 1, at - 1) \o SubSeq(texts, at + 1, Len(texts))

NormalizeTwitchChannel(t) == Plain(t.id)

ValidateTwitchPrefs(p) ==
    LET favorites == Dedup([i \in DOMAIN p.favorites |-> NormalizeTwitchChannel(p.favorites[i])])
    IN  IF /\ p.schema = 1 /\ p.inRange
           /\ Legal(Range(p.favorites)) /\ Legal({p.channel} \ {None})
           /\ Len(favorites) <= FavoritesMax
          THEN Valid([p EXCEPT !.favorites = favorites,
                               !.channel = IF @ = None THEN None ELSE NormalizeTwitchChannel(@)])
          ELSE Invalid(p)

\* dispatch_twitch_action: what it makes of the preferences before it saves them.
SetChannel(p, t) == [p EXCEPT !.channel = t]
ClearChannel(p) == [p EXCEPT !.channel = None]
ToggleFavorite(p, t) ==
    CASE t \in Range(p.favorites) -> [p EXCEPT !.favorites = Without(@, t)]
      [] t \notin Range(p.favorites) /\ Len(p.favorites) < FavoritesMax ->
           [p EXCEPT !.favorites = Append(@, t)]
      [] OTHER -> p

------------------------------------------------------------------------------
(* WarframePrefs.                                                          *)

DefaultWarframePrefs ==
    [schema |-> 1, inRange |-> TRUE, eras |-> <<>>, sources |-> Sources, filter |-> <<>>,
     watchlist |-> <<>>, done |-> <<>>]

\* normalize_string_list: blank entries are dropped, the others trimmed.
NormalizeStringList(texts) ==
    LET written == SelectSeq(texts, LAMBDA t : t.form # "blank")
    IN  Dedup([i \in DOMAIN written |-> IF written[i].form = "padded" THEN Plain(written[i].id)
                                        ELSE written[i]])

ValidateWarframePrefs(p) ==
    LET filter == NormalizeStringList(p.filter)
        watchlist == NormalizeStringList(p.watchlist)
        done == NormalizeStringList(p.done)
    IN  IF /\ p.schema = 1 /\ p.inRange /\ p.sources # {}
           /\ Legal(Range(p.filter) \cup Range(p.watchlist) \cup Range(p.done))
           /\ Len(filter) <= ListMax /\ Len(watchlist) <= ListMax /\ Len(done) <= DoneMax
          THEN Valid([p EXCEPT !.eras = Dedup(@), !.filter = filter, !.watchlist = watchlist,
                               !.done = done])
          ELSE Invalid(p)

\* path_tail: the key of an item, whatever path it was given by.
PathTail(t) == Plain(t.id)

\* The first entry with a key; 0 when there is none.
IndexOf(texts, key) ==
    LET found == {i \in DOMAIN texts : PathTail(texts[i]) = key}
    IN  IF found = {} THEN 0 ELSE Min(found)

\* toggle_invasion_resource_filter: an empty filter shows everything, so leaving it
\* names every other resource on offer, and naming them all goes back to it.
ToggleInvasionResourceFilter(filter, item, available) ==
    LET key == PathTail(item)
        tails == [i \in DOMAIN available |-> PathTail(available[i])]
        others == SelectSeq(tails, LAMBDA t : t # key)
        at == IndexOf(filter, key)
        next == CASE at # 0 -> WithoutAt(filter, at)
                  [] at = 0 /\ Len(filter) < ListMax -> Append(filter, key)
                  [] OTHER -> filter
    IN  IF filter = <<>>
          THEN SubSeq(others, 1, Min({Len(others), ListMax}))
          ELSE IF next # <<>> /\ tails # <<>>
                  /\ \A i \in DOMAIN tails : IndexOf(next, tails[i]) # 0
                 THEN <<>>
                 ELSE next

ToggleInvasionWatchlist(list, item) ==
    LET key == PathTail(item)
    IN  CASE IndexOf(list, key) # 0 -> WithoutAt(list, IndexOf(list, key))
          [] IndexOf(list, key) = 0 /\ Len(list) < ListMax -> Append(list, key)
          [] OTHER -> list

\* toggle_activity_done: a full list forgets its oldest mark.
ToggleActivityDone(done, key) ==
    CASE key \in Range(done) -> Without(done, key)
      [] key \notin Range(done) /\ Len(done) >= DoneMax -> Append(Tail(done), key)
      [] OTHER -> Append(done, key)

PruneActivityDone(done, current) == SelectSeq(done, LAMBDA t : t \in current)

\* apply_fissure_prefs_action: the last source cannot be switched off; an empty list
\* of eras means all of them.
ToggleSource(sources, s) == IF sources = {s} THEN sources ELSE SymDiff(sources, {s})
ToggleEra(eras, era) ==
    LET next == CASE eras = <<>> -> SelectSeq(Eras, LAMBDA e : e # era)
                  [] eras # <<>> /\ era \in Range(eras) -> Without(eras, era)
                  [] OTHER -> Append(eras, era)
    IN  IF Len(next) = Len(Eras) THEN <<>> ELSE next

\* One batch of WarframeActionBatch with a single action; a completion mark is set
\* only after the marks of activities that are over are dropped.
EditWarframePrefs(p, offered, current) ==
         {[p EXCEPT !.filter = ToggleInvasionResourceFilter(@, k, offered)] : k \in Range(offered)}
    \cup {[p EXCEPT !.watchlist = ToggleInvasionWatchlist(@, k)] : k \in Range(offered)}
    \cup {[p EXCEPT !.done = ToggleActivityDone(PruneActivityDone(@, current), k)] : k \in current}
    \cup {[p EXCEPT !.sources = ToggleSource(@, s)] : s \in Sources}
    \cup {[p EXCEPT !.eras = ToggleEra(@, e)] : e \in Range(Eras)}
    \cup {[p EXCEPT !.filter = <<>>], [p EXCEPT !.watchlist = <<>>]}
==============================================================================
