----------------------------- MODULE Accelerators -----------------------------
(***************************************************************************)
(* A shortcut accelerator such as "Meta+Alt+O" is read by five parsers:    *)
(* the settings validator, the portal broker, the X11 broker, the Hyprland *)
(* bridge and the GNOME extension.  Each one is an operator here, with the *)
(* checks its code makes, and TLC compares them on every accelerator of up *)
(* to MaxParts parts.                                                      *)
(*                                                                         *)
(* An accelerator is the sequence of the parts between its plus signs.     *)
(* "OO" stands for a part that is neither a modifier nor one letter or     *)
(* digit, and "" for an empty part.  Rendered text is the sequence of what *)
(* it joins.  A parser that fails returns the empty sequence, or a record  *)
(* without a key.                                                          *)
(***************************************************************************)
EXTENDS Naturals, SequencesExt

CONSTANT MaxParts   \* bound: parts of an accelerator

VARIABLE accelerator

Ranked    == <<"Meta", "Ctrl", "Alt", "Shift">>
Modifiers == ToSet(Ranked)
Keys      == {"o", "O", "1"}
Parts     == Modifiers \cup Keys \cup {"OO", ""}

rank(part) == CHOOSE r \in 0..3 : Ranked[r + 1] = part
to_ascii_lowercase(key) == IF key = "O" THEN "o" ELSE key
to_ascii_uppercase(key) == IF key = "o" THEN "O" ELSE key

\* Settings. A loop that keeps the previous rank (0: none yet, ranks from 1) and the
\* modifiers seen.
RECURSIVE valid_from(_, _, _)
valid_from(parts, previous_rank, modifiers) ==
    IF Len(parts) = 1
    THEN modifiers # {} /\ Head(parts) \in Keys
    ELSE /\ Head(parts) \in Modifiers \ modifiers
         /\ rank(Head(parts)) + 1 > previous_rank
         /\ valid_from(Tail(parts), rank(Head(parts)) + 1, modifiers \cup {Head(parts)})
accelerator_is_valid(parts) == valid_from(parts, 0, {})

\* Portal. The trigger names of the modifiers.
Normalized == [Meta |-> "LOGO", Ctrl |-> "CTRL", Alt |-> "ALT", Shift |-> "SHIFT"]
RECURSIVE trigger_from(_, _, _)
trigger_from(parts, previous_rank, trigger_parts) ==
    CASE Len(parts) = 1 /\ Head(parts) \in Keys /\ trigger_parts # <<>> ->
            Append(trigger_parts, to_ascii_lowercase(Head(parts)))
      [] Len(parts) > 1 /\ Head(parts) \in Modifiers /\ rank(Head(parts)) + 1 > previous_rank ->
            trigger_from(Tail(parts), rank(Head(parts)) + 1,
                         Append(trigger_parts, Normalized[Head(parts)]))
      [] OTHER -> <<>>
\* Mutant: the order of the modifiers is not checked.
portal_trigger_unranked(parts) ==
    IF Len(parts) > 1 /\ ToSet(Front(parts)) \subseteq Modifiers /\ Last(parts) \in Keys
    THEN Append([i \in 1..Len(parts) - 1 |-> Normalized[parts[i]]],
                to_ascii_lowercase(Last(parts)))
    ELSE <<>>
portal_trigger(parts) == trigger_from(parts, 0, <<>>)

\* X11. Reads the portal trigger back into flags and a key.
parse_accelerator(parts) ==
    LET trigger == portal_trigger(parts)
        Has(name) == \E i \in 1..Len(trigger) - 1 : trigger[i] = name
    IN  [key     |-> IF trigger = <<>> THEN "" ELSE Last(trigger),
         logo    |-> Has("LOGO"), control |-> Has("CTRL"),
         alt     |-> Has("ALT"),  shift   |-> Has("SHIFT")]

\* Hyprland. The rendered names, and the bits of the modifier mask.
HyprName == [Meta |-> "SUPER", Ctrl |-> "CTRL", Alt |-> "ALT", Shift |-> "SHIFT"]
HyprBit  == [Meta |-> 64, Ctrl |-> 4, Alt |-> 8, Shift |-> 1]
ModMask(modifiers) == FoldSet(LAMBDA part, mask : mask + HyprBit[part], 0, modifiers)
Actions == {"toggle-overlay", "toggle-manual-stopwatch", "reset-manual-stopwatch"}
NoSpec  == [keys |-> <<>>, key |-> "", modmask |-> 0, portal_action |-> ""]

Ascending(modifiers) ==
    \A i \in 2..Len(modifiers) : rank(modifiers[i]) > rank(modifiers[i - 1])
Rendered(modifiers, key) ==
    Append([i \in 1..Len(modifiers) |-> HyprName[modifiers[i]]], key)

parse(parts, action) ==
    LET key == to_ascii_uppercase(Last(parts))
    IN  IF /\ Len(parts) >= 2 /\ Last(parts) \in Keys
           /\ ToSet(Front(parts)) \subseteq Modifiers /\ Ascending(Front(parts))
        THEN [keys |-> Rendered(Front(parts), key), key |-> key,
              modmask |-> ModMask(ToSet(Front(parts))), portal_action |-> action]
        ELSE NoSpec

\* External: what Hyprland lists after it ran a bind request, for the current
\* portal action or its legacy form. The description names the action.
Listed(spec, legacy) ==
    [modmask |-> spec.modmask, key |-> spec.key, dispatcher |-> "global",
     arg |-> [action |-> spec.portal_action, legacy |-> legacy],
     description |-> spec.portal_action]

\* The modifiers whose bits are in the mask, in the order of their ranks.
InMask(mask) ==
    LET chosen == CHOOSE m \in SUBSET Modifiers : ModMask(m) = mask
    IN  SelectSeq(Ranked, LAMBDA part : part \in chosen)
SupportedMasks == {ModMask(m) : m \in SUBSET Modifiers} \ {0}

known_binding_identity(binding) ==
    /\ binding.arg.action \in Actions
    /\ binding.description = binding.arg.action

from_owned_binding(binding) ==
    IF /\ binding.dispatcher = "global" /\ known_binding_identity(binding)
       /\ binding.key \in Keys
       /\ binding.modmask \in SupportedMasks
    THEN LET key == to_ascii_uppercase(binding.key)
         IN  [keys |-> Rendered(InMask(binding.modmask), key), key |-> key,
              modmask |-> binding.modmask, portal_action |-> binding.arg.action]
    ELSE NoSpec

\* GNOME. The length limit of 128 code units exceeds every valid accelerator.
GtkName == [Meta |-> "<Super>", Ctrl |-> "<Control>", Alt |-> "<Alt>", Shift |-> "<Shift>"]
gtkAccelerator(parts) ==
    IF /\ Len(parts) \in 2..5 /\ Last(parts) \in Keys
       /\ ToSet(Front(parts)) \subseteq Modifiers /\ Ascending(Front(parts))
    THEN Append([i \in 1..Len(parts) - 1 |-> GtkName[parts[i]]],
                to_ascii_uppercase(Last(parts)))
    ELSE <<>>

-----------------------------------------------------------------------------
\* Every accelerator of up to MaxParts parts, built part by part.

Init == accelerator \in {<<part>> : part \in Parts}
Next ==
    /\ Len(accelerator) < MaxParts
    /\ \E part \in Parts : accelerator' = Append(accelerator, part)
Spec == Init /\ [][Next]_accelerator

\* What the settings accept is exactly what the portal, X11, Hyprland and GNOME
\* can bind: a saved accelerator is refused by none of them, and none binds what
\* the settings refuse (accelerator_is_valid against the four other parsers).
ParsersAgree ==
    LET valid == accelerator_is_valid(accelerator)
    IN  /\ valid <=> portal_trigger(accelerator) # <<>>
        /\ valid <=> parse_accelerator(accelerator).key # ""
        /\ valid <=> parse(accelerator, "toggle-overlay") # NoSpec
        /\ valid <=> gtkAccelerator(accelerator) # <<>>

\* They read the same chord: the same modifiers, and the same key up to the case
\* each one normalises to. So two accelerators collide for desired_shortcuts
\* (portal triggers) exactly if they collide for X11, Hyprland and GNOME.
SameChord ==
    accelerator_is_valid(accelerator) =>
        LET x11  == parse_accelerator(accelerator)
            hypr == parse(accelerator, "toggle-overlay")
            gtk  == gtkAccelerator(accelerator)
            Flag == [Meta |-> x11.logo, Ctrl |-> x11.control,
                     Alt |-> x11.alt, Shift |-> x11.shift]
            Held == {part \in Modifiers : Flag[part]}
        IN  /\ hypr.modmask = ModMask(Held)
            /\ ToSet(Front(gtk)) = {GtkName[part] : part \in Held}
            /\ hypr.key = Last(gtk) /\ to_ascii_lowercase(hypr.key) = x11.key

\* A binding that an earlier bridge left behind, under the current or the legacy
\* action, is recovered as the very spec that made it, so the unbind request
\* built from it names the binding (from_owned_binding inverts parse).
BindingRecovered ==
    \A action \in Actions, legacy \in BOOLEAN :
        LET spec == parse(accelerator, action)
        IN  spec # NoSpec => from_owned_binding(Listed(spec, legacy)) = spec

\* One accelerator means one thing everywhere: to the settings, to the four backends
\* that bind it, and to the bridge that recovers a binding.
AcceleratorsAgree == ParsersAgree /\ SameChord /\ BindingRecovered
==============================================================================
