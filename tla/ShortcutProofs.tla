---------------------------- MODULE ShortcutProofs ----------------------------
(***************************************************************************)
(* Theorems about the shortcuts: the bridge to Hyprland, the broker that   *)
(* decides which shortcuts are bound, for every bound, and a session of    *)
(* the portal that binds them.                                             *)
(***************************************************************************)
EXTENDS ShortcutBroker, Shortcuts, TLAPS

------------------------------------------------------------------------------
(* overcrow-hyprland/src/bridge.rs: what the bridge leaves on windows and  *)
(* keys, and that it does not end Interactive.                             *)

\* The windows are finitely many, so that any set of their tags can be counted and listed;
\* each is of one kind, and WindowReport::from_window accepts those of a game.
WindowKinds ==
    /\ \A S \in SUBSET (Hyprland!Tags \X Hyprland!Windows) :
         Hyprland!Cardinality(S) \in Nat /\ Hyprland!Lists(S) # {}
    /\ None \notin Hyprland!Windows
    /\ GameWindows \cap Overlays = {} /\ GameWindows \cap Unreportable = {}

\* What the bridge holds: a step replaces some of its parts.
BridgeShape(r) ==
    r = [pc |-> r.pc, todo |-> r.todo, read |-> r.read, plan |-> r.plan,
         latest |-> r.latest, keepalive |-> r.keepalive, failed |-> r.failed,
         stop |-> r.stop, post |-> r.post]
ReadShape(r) ==
    r = [active |-> r.active, exists |-> r.exists, shown |-> r.shown, here |-> r.here,
         tags |-> r.tags, core |-> r.core, globals |-> r.globals, keys |-> r.keys]
Bindings == [own : 0..1, legacy : 0..1, foreign : 0..1]
Tagged == [Hyprland!Windows -> SUBSET Hyprland!Tags]
BridgeTypes ==
    /\ BridgeShape(bridge) /\ ReadShape(bridge.read)
    /\ bridge.read.exists \subseteq Hyprland!Windows /\ bridge.read.tags \in Tagged
    /\ bridge.read.keys \in Bindings
    /\ desk = [exists |-> desk.exists, shown |-> desk.shown, here |-> desk.here,
               active |-> desk.active]
    /\ desk.exists \subseteq Hyprland!Windows
    /\ tags \in Tagged
    /\ keys \in Bindings
    /\ authority \in [game : BOOLEAN, interactive : BOOLEAN]
    /\ calm \in {"no", "begun", "pass"}

\* Tags.  A plan gives a tag to one window only, after it has taken it from any other
\* that carries it, and blocks the input of games alone.
Command == [do : {"+", "-", "focus"}, tag : Hyprland!Tags, window : Hyprland!Windows]
Untagging(t, w) == [do |-> "-", tag |-> t, window |-> w]
GivesTo(p, k) == p[k].do = "+"
TakesFirst(p, g) ==
    \A k \in 1..Len(p) : GivesTo(p, k) =>
      \A w \in Hyprland!Windows : p[k].tag \in g[w] /\ w # p[k].window =>
        \E j \in 1..(k - 1) : p[j] = Untagging(p[k].tag, w)
GivesOnce(p) ==
    \A j, k \in 1..Len(p) :
      GivesTo(p, j) /\ GivesTo(p, k) /\ p[j].tag = p[k].tag => p[j].window = p[k].window
BlocksGames(p) ==
    \A k \in 1..Len(p) :
      GivesTo(p, k) /\ p[k].tag = Hyprland!BLOCKED => p[k].window \in GameWindows
Retags(p, g) == p \in Seq(Command) /\ TakesFirst(p, g) /\ GivesOnce(p) /\ BlocksGames(p)
\* A cleanup takes tags only, and from every window that has one.
OnlyTakes(p) == p \in Seq(Command) /\ \A k \in 1..Len(p) : p[k].do = "-"
TakesAll(p, g) ==
    \A w \in Hyprland!Windows, t \in Hyprland!Tags :
      t \in g[w] => \E k \in 1..Len(p) : p[k] = Untagging(t, w)

OneCarrier(g) ==
    \A t \in Hyprland!Tags, v, w \in Hyprland!Windows : t \in g[v] /\ t \in g[w] => v = w
OverlaysTakeInput(g) == \A w \in Overlays : Hyprland!BLOCKED \notin g[w]
\* What was read is not less than what there is: only the bridge gives tags.
StillRead(r, g) ==
    \A w \in Hyprland!Windows : g[w] \subseteq r.tags[w] /\ (r.tags[w] # {} => w \in r.exists)
TaggingInv ==
    /\ OneCarrier(tags) /\ OverlaysTakeInput(tags)
    /\ \A w \in Hyprland!Windows : tags[w] # {} => w \in desk.exists
    /\ bridge.pc \in {"focus", "snapshot"} /\ "clients" \notin bridge.todo
         => StillRead(bridge.read, tags)
    /\ bridge.pc = "dispatch" => Retags(bridge.plan, tags)
    /\ bridge.pc = "cleanup" => OnlyTakes(bridge.plan)
    /\ bridge.pc = "cleanup" /\ "clients" \notin bridge.todo /\ ~bridge.failed
         => TakesAll(bridge.plan, tags)
    /\ bridge.pc \in {"stopped", "down"} /\ ~bridge.failed
         => \A w \in Hyprland!Windows : tags[w] = {}

\* Bindings.  One is made only where none was, and none can have come since.
BindingInv ==
    /\ keys.own + keys.legacy <= 1
    /\ bridge.pc = "shortcut" /\ "bindings" \notin bridge.todo
         => keys.own + keys.legacy <= bridge.read.keys.own + bridge.read.keys.legacy
    /\ bridge.pc = "Bind"
         => keys.own + keys.legacy = 0 /\ Hyprland!Advertised(bridge.read) \in {"own", "legacy"}
    /\ (/\ bridge.pc \in {"cleanup", "stopped", "down"} /\ ~bridge.failed
        /\ "bindings" \notin bridge.todo /\ "unbind" \notin bridge.todo
        /\ bridge.read.keys.own + bridge.read.keys.legacy = 1 /\ bridge.read.keys.foreign = 0)
         => keys.own + keys.legacy = 0
    /\ bridge.pc \in {"stopped", "down"} => bridge.todo = {}

\* Interactive.  What a pass that began after it has read is still so, and tells it to
\* keep the game it reported.
Passing == {"reconcile", "focus", "snapshot", "dispatch"}
InSight(r) ==
    /\ GameWindows \cap r.shown = {reported} /\ reported \in r.here
    /\ \E w \in Overlays : Overlays \cap r.shown = {w}
CalmInv ==
    /\ calm # "no" => authority.game /\ authority.interactive /\ InSight(desk)
    /\ calm = "pass" =>
         /\ bridge.pc \in Passing /\ "clients" \notin bridge.todo => InSight(bridge.read)
         /\ bridge.pc \in {"reconcile", "snapshot"} /\ "core" \notin bridge.todo
              => bridge.read.core.game /\ bridge.read.core.interactive
         /\ bridge.pc = "dispatch" => /\ InSight(bridge.read) /\ bridge.read.core.game
                                      /\ bridge.read.core.interactive

\* The inductive invariant.
BridgeInv == BridgeTypes /\ TaggingInv /\ BindingInv /\ CalmInv
\* What the bridge holds after a step has replaced one of its parts, or several.
WithPc(r, x) == [r EXCEPT !.pc = x]
WithTodo(r, x) == [r EXCEPT !.todo = x]
WithRead(r, x) == [r EXCEPT !.read = x]
WithPlan(r, x) == [r EXCEPT !.plan = x]
WithLatest(r, x) == [r EXCEPT !.latest = x]
WithKeepalive(r, x) == [r EXCEPT !.keepalive = x]
WithFailed(r, x) == [r EXCEPT !.failed = x]
WithStop(r, x) == [r EXCEPT !.stop = x]
WithPost(r, x) == [r EXCEPT !.post = x]

\* Where the program is.
LEMMA SetsPc ==
    ASSUME NEW r, BridgeShape(r), NEW x, NEW s, s = WithPc(r, x)
    PROVE  /\ BridgeShape(s) /\ s.pc = x /\ s.todo = r.todo
           /\ s.read = r.read /\ s.plan = r.plan /\ s.failed = r.failed
  BY SMT DEF BridgeShape, WithPc

\* What is still to be read.
LEMMA SetsTodo ==
    ASSUME NEW r, BridgeShape(r), NEW x, NEW s, s = WithTodo(r, x)
    PROVE  /\ BridgeShape(s) /\ s.pc = r.pc /\ s.todo = x
           /\ s.read = r.read /\ s.plan = r.plan /\ s.failed = r.failed
  BY SMT DEF BridgeShape, WithTodo

\* What was read.
LEMMA SetsRead ==
    ASSUME NEW r, BridgeShape(r), NEW x, NEW s, s = WithRead(r, x)
    PROVE  /\ BridgeShape(s) /\ s.pc = r.pc /\ s.todo = r.todo
           /\ s.read = x /\ s.plan = r.plan /\ s.failed = r.failed
  BY SMT DEF BridgeShape, WithRead

\* The commands to send.
LEMMA SetsPlan ==
    ASSUME NEW r, BridgeShape(r), NEW x, NEW s, s = WithPlan(r, x)
    PROVE  /\ BridgeShape(s) /\ s.pc = r.pc /\ s.todo = r.todo
           /\ s.read = r.read /\ s.plan = x /\ s.failed = r.failed
  BY SMT DEF BridgeShape, WithPlan

\* The last answer of Core.
LEMMA SetsLatest ==
    ASSUME NEW r, BridgeShape(r), NEW x, NEW s, s = WithLatest(r, x)
    PROVE  /\ BridgeShape(s) /\ s.pc = r.pc /\ s.todo = r.todo
           /\ s.read = r.read /\ s.plan = r.plan /\ s.failed = r.failed
  BY SMT DEF BridgeShape, WithLatest

\* Whether the pass is a keepalive.
LEMMA SetsKeepalive ==
    ASSUME NEW r, BridgeShape(r), NEW x, NEW s, s = WithKeepalive(r, x)
    PROVE  /\ BridgeShape(s) /\ s.pc = r.pc /\ s.todo = r.todo
           /\ s.read = r.read /\ s.plan = r.plan /\ s.failed = r.failed
  BY SMT DEF BridgeShape, WithKeepalive

\* Whether a step of the cleanup failed.
LEMMA SetsFailed ==
    ASSUME NEW r, BridgeShape(r), NEW x, NEW s, s = WithFailed(r, x)
    PROVE  /\ BridgeShape(s) /\ s.pc = r.pc /\ s.todo = r.todo
           /\ s.read = r.read /\ s.plan = r.plan /\ s.failed = x
  BY SMT DEF BridgeShape, WithFailed

\* Whether it was asked to stop.
LEMMA SetsStop ==
    ASSUME NEW r, BridgeShape(r), NEW x, NEW s, s = WithStop(r, x)
    PROVE  /\ BridgeShape(s) /\ s.pc = r.pc /\ s.todo = r.todo
           /\ s.read = r.read /\ s.plan = r.plan /\ s.failed = r.failed
  BY SMT DEF BridgeShape, WithStop

\* What follows the cleanup.
LEMMA SetsPost ==
    ASSUME NEW r, BridgeShape(r), NEW x, NEW s, s = WithPost(r, x)
    PROVE  /\ BridgeShape(s) /\ s.pc = r.pc /\ s.todo = r.todo
           /\ s.read = r.read /\ s.plan = r.plan /\ s.failed = r.failed
  BY SMT DEF BridgeShape, WithPost

\* A step and its reads.
LEMMA SetsPcTodo ==
    ASSUME NEW r, BridgeShape(r), NEW x, NEW y, NEW s,
           s = WithTodo(WithPc(r, x), y)
    PROVE  /\ BridgeShape(s) /\ s.pc = x /\ s.todo = y
           /\ s.read = r.read /\ s.plan = r.plan /\ s.failed = r.failed
  <1> DEFINE a == WithPc(r, x)
  <1>1. /\ BridgeShape(a) /\ a.pc = x /\ a.todo = r.todo
        /\ a.read = r.read /\ a.plan = r.plan /\ a.failed = r.failed
    BY SetsPc, ZenonT(30)
  <1>2. BridgeShape(a)
    BY <1>1, Zenon
  <1>3. /\ BridgeShape(s) /\ s.pc = a.pc /\ s.todo = y
        /\ s.read = a.read /\ s.plan = a.plan /\ s.failed = a.failed
    BY <1>2, SetsTodo, SMT
  <1> HIDE DEF a
  <1> QED
    BY <1>1, <1>3, Zenon

\* A step and the answer of Core.
LEMMA SetsPcLatest ==
    ASSUME NEW r, BridgeShape(r), NEW x, NEW y, NEW s,
           s = WithLatest(WithPc(r, x), y)
    PROVE  /\ BridgeShape(s) /\ s.pc = x /\ s.todo = r.todo
           /\ s.read = r.read /\ s.plan = r.plan /\ s.failed = r.failed
  <1> DEFINE a == WithPc(r, x)
  <1>1. /\ BridgeShape(a) /\ a.pc = x /\ a.todo = r.todo
        /\ a.read = r.read /\ a.plan = r.plan /\ a.failed = r.failed
    BY SetsPc, ZenonT(30)
  <1>2. BridgeShape(a)
    BY <1>1, Zenon
  <1>3. /\ BridgeShape(s) /\ s.pc = a.pc /\ s.todo = a.todo
        /\ s.read = a.read /\ s.plan = a.plan /\ s.failed = a.failed
    BY <1>2, SetsLatest, ZenonT(30)
  <1> HIDE DEF a
  <1> QED
    BY <1>1, <1>3, Zenon

\* A step and its failure.
LEMMA SetsPcFailed ==
    ASSUME NEW r, BridgeShape(r), NEW x, NEW y, NEW s,
           s = WithFailed(WithPc(r, x), y)
    PROVE  /\ BridgeShape(s) /\ s.pc = x /\ s.todo = r.todo
           /\ s.read = r.read /\ s.plan = r.plan /\ s.failed = y
  <1> DEFINE a == WithPc(r, x)
  <1>1. /\ BridgeShape(a) /\ a.pc = x /\ a.todo = r.todo
        /\ a.read = r.read /\ a.plan = r.plan /\ a.failed = r.failed
    BY SetsPc, ZenonT(30)
  <1>2. BridgeShape(a)
    BY <1>1, Zenon
  <1>3. /\ BridgeShape(s) /\ s.pc = a.pc /\ s.todo = a.todo
        /\ s.read = a.read /\ s.plan = a.plan /\ s.failed = y
    BY <1>2, SetsFailed, SMT
  <1> HIDE DEF a
  <1> QED
    BY <1>1, <1>3, Zenon

\* A step and its commands.
LEMMA SetsPcPlan ==
    ASSUME NEW r, BridgeShape(r), NEW x, NEW y, NEW s,
           s = WithPlan(WithPc(r, x), y)
    PROVE  /\ BridgeShape(s) /\ s.pc = x /\ s.todo = r.todo
           /\ s.read = r.read /\ s.plan = y /\ s.failed = r.failed
  <1> DEFINE a == WithPc(r, x)
  <1>1. /\ BridgeShape(a) /\ a.pc = x /\ a.todo = r.todo
        /\ a.read = r.read /\ a.plan = r.plan /\ a.failed = r.failed
    BY SetsPc, ZenonT(30)
  <1>2. BridgeShape(a)
    BY <1>1, Zenon
  <1>3. /\ BridgeShape(s) /\ s.pc = a.pc /\ s.todo = a.todo
        /\ s.read = a.read /\ s.plan = y /\ s.failed = a.failed
    BY <1>2, SetsPlan, SMT
  <1> HIDE DEF a
  <1> QED
    BY <1>1, <1>3, Zenon

\* A query answered.
LEMMA SetsReadTodo ==
    ASSUME NEW r, BridgeShape(r), NEW x, NEW y, NEW s,
           s = WithTodo(WithRead(r, x), y)
    PROVE  /\ BridgeShape(s) /\ s.pc = r.pc /\ s.todo = y
           /\ s.read = x /\ s.plan = r.plan /\ s.failed = r.failed
  <1> DEFINE a == WithRead(r, x)
  <1>1. /\ BridgeShape(a) /\ a.pc = r.pc /\ a.todo = r.todo
        /\ a.read = x /\ a.plan = r.plan /\ a.failed = r.failed
    BY SetsRead, ZenonT(30)
  <1>2. BridgeShape(a)
    BY <1>1, Zenon
  <1>3. /\ BridgeShape(s) /\ s.pc = a.pc /\ s.todo = y
        /\ s.read = a.read /\ s.plan = a.plan /\ s.failed = a.failed
    BY <1>2, SetsTodo, SMT
  <1> HIDE DEF a
  <1> QED
    BY <1>1, <1>3, Zenon

\* The client list of a cleanup.
LEMMA SetsTodoPlan ==
    ASSUME NEW r, BridgeShape(r), NEW x, NEW y, NEW s,
           s = WithPlan(WithTodo(r, x), y)
    PROVE  /\ BridgeShape(s) /\ s.pc = r.pc /\ s.todo = x
           /\ s.read = r.read /\ s.plan = y /\ s.failed = r.failed
  <1> DEFINE a == WithTodo(r, x)
  <1>1. /\ BridgeShape(a) /\ a.pc = r.pc /\ a.todo = x
        /\ a.read = r.read /\ a.plan = r.plan /\ a.failed = r.failed
    BY SetsTodo, ZenonT(30)
  <1>2. BridgeShape(a)
    BY <1>1, Zenon
  <1>3. /\ BridgeShape(s) /\ s.pc = a.pc /\ s.todo = a.todo
        /\ s.read = a.read /\ s.plan = y /\ s.failed = a.failed
    BY <1>2, SetsPlan, SMT
  <1> HIDE DEF a
  <1> QED
    BY <1>1, <1>3, Zenon

\* A command of a cleanup that failed.
LEMMA SetsPlanFailed ==
    ASSUME NEW r, BridgeShape(r), NEW x, NEW y, NEW s,
           s = WithFailed(WithPlan(r, x), y)
    PROVE  /\ BridgeShape(s) /\ s.pc = r.pc /\ s.todo = r.todo
           /\ s.read = r.read /\ s.plan = x /\ s.failed = y
  <1> DEFINE a == WithPlan(r, x)
  <1>1. /\ BridgeShape(a) /\ a.pc = r.pc /\ a.todo = r.todo
        /\ a.read = r.read /\ a.plan = x /\ a.failed = r.failed
    BY SetsPlan, ZenonT(30)
  <1>2. BridgeShape(a)
    BY <1>1, Zenon
  <1>3. /\ BridgeShape(s) /\ s.pc = a.pc /\ s.todo = a.todo
        /\ s.read = a.read /\ s.plan = a.plan /\ s.failed = y
    BY <1>2, SetsFailed, SMT
  <1> HIDE DEF a
  <1> QED
    BY <1>1, <1>3, Zenon

\* A read of a cleanup that failed.
LEMMA SetsTodoFailed ==
    ASSUME NEW r, BridgeShape(r), NEW x, NEW y, NEW s,
           s = WithFailed(WithTodo(r, x), y)
    PROVE  /\ BridgeShape(s) /\ s.pc = r.pc /\ s.todo = x
           /\ s.read = r.read /\ s.plan = r.plan /\ s.failed = y
  <1> DEFINE a == WithTodo(r, x)
  <1>1. /\ BridgeShape(a) /\ a.pc = r.pc /\ a.todo = x
        /\ a.read = r.read /\ a.plan = r.plan /\ a.failed = r.failed
    BY SetsTodo, ZenonT(30)
  <1>2. BridgeShape(a)
    BY <1>1, Zenon
  <1>3. /\ BridgeShape(s) /\ s.pc = a.pc /\ s.todo = a.todo
        /\ s.read = a.read /\ s.plan = a.plan /\ s.failed = y
    BY <1>2, SetsFailed, SMT
  <1> HIDE DEF a
  <1> QED
    BY <1>1, <1>3, Zenon

\* The client list of a cleanup that failed.
LEMMA SetsTodoPlanFailed ==
    ASSUME NEW r, BridgeShape(r), NEW x, NEW y, NEW z, NEW s,
           s = WithFailed(WithPlan(WithTodo(r, x), y), z)
    PROVE  /\ BridgeShape(s) /\ s.pc = r.pc /\ s.todo = x
           /\ s.read = r.read /\ s.plan = y /\ s.failed = z
  <1> DEFINE a == WithTodo(r, x)
             b == WithPlan(a, y)
  <1>1. /\ BridgeShape(a) /\ a.pc = r.pc /\ a.todo = x
        /\ a.read = r.read /\ a.plan = r.plan /\ a.failed = r.failed
    BY SetsTodo, ZenonT(30)
  <1>2. BridgeShape(a)
    BY <1>1, Zenon
  <1>3. /\ BridgeShape(b) /\ b.pc = a.pc /\ b.todo = a.todo
        /\ b.read = a.read /\ b.plan = y /\ b.failed = a.failed
    BY <1>2, SetsPlan, SMT
  <1>4. BridgeShape(b)
    BY <1>3, Zenon
  <1>5. /\ BridgeShape(s) /\ s.pc = b.pc /\ s.todo = b.todo
        /\ s.read = b.read /\ s.plan = b.plan /\ s.failed = z
    BY <1>4, SetsFailed, SMT
  <1> HIDE DEF a, b
  <1> QED
    BY <1>1, <1>3, <1>5, Zenon

\* The beginning of a cleanup.
LEMMA SetsPcTodoStopPost ==
    ASSUME NEW r, BridgeShape(r), NEW x, NEW y, NEW z, NEW w, NEW s,
           s = WithPost(WithStop(WithTodo(WithPc(r, x), y), z), w)
    PROVE  /\ BridgeShape(s) /\ s.pc = x /\ s.todo = y
           /\ s.read = r.read /\ s.plan = r.plan /\ s.failed = r.failed
  <1> DEFINE a == WithPc(r, x)
             b == WithTodo(a, y)
             c == WithStop(b, z)
  <1>1. /\ BridgeShape(a) /\ a.pc = x /\ a.todo = r.todo
        /\ a.read = r.read /\ a.plan = r.plan /\ a.failed = r.failed
    BY SetsPc, ZenonT(30)
  <1>2. BridgeShape(a)
    BY <1>1, Zenon
  <1>3. /\ BridgeShape(b) /\ b.pc = a.pc /\ b.todo = y
        /\ b.read = a.read /\ b.plan = a.plan /\ b.failed = a.failed
    BY <1>2, SetsTodo, SMT
  <1>4. BridgeShape(b)
    BY <1>3, Zenon
  <1>5. /\ BridgeShape(c) /\ c.pc = b.pc /\ c.todo = b.todo
        /\ c.read = b.read /\ c.plan = b.plan /\ c.failed = b.failed
    BY <1>4, SetsStop, Zenon
  <1>6. BridgeShape(c)
    BY <1>5, Zenon
  <1>7. /\ BridgeShape(s) /\ s.pc = c.pc /\ s.todo = c.todo
        /\ s.read = c.read /\ s.plan = c.plan /\ s.failed = c.failed
    BY <1>6, SetsPost, ZenonT(30)
  <1> HIDE DEF a, b, c
  <1> QED
    BY <1>1, <1>3, <1>5, <1>7, Zenon

\* The beginning of a pass.
LEMMA SetsPcTodoReadKeepalive ==
    ASSUME NEW r, BridgeShape(r), NEW x, NEW y, NEW z, NEW w, NEW s,
           s = WithKeepalive(WithRead(WithTodo(WithPc(r, x), y), z), w)
    PROVE  /\ BridgeShape(s) /\ s.pc = x /\ s.todo = y
           /\ s.read = z /\ s.plan = r.plan /\ s.failed = r.failed
  <1> DEFINE a == WithPc(r, x)
             b == WithTodo(a, y)
             c == WithRead(b, z)
  <1>1. /\ BridgeShape(a) /\ a.pc = x /\ a.todo = r.todo
        /\ a.read = r.read /\ a.plan = r.plan /\ a.failed = r.failed
    BY SetsPc, ZenonT(30)
  <1>2. BridgeShape(a)
    BY <1>1, Zenon
  <1>3. /\ BridgeShape(b) /\ b.pc = a.pc /\ b.todo = y
        /\ b.read = a.read /\ b.plan = a.plan /\ b.failed = a.failed
    BY <1>2, SetsTodo, SMT
  <1>4. BridgeShape(b)
    BY <1>3, Zenon
  <1>5. /\ BridgeShape(c) /\ c.pc = b.pc /\ c.todo = b.todo
        /\ c.read = z /\ c.plan = b.plan /\ c.failed = b.failed
    BY <1>4, SetsRead, ZenonT(30)
  <1>6. BridgeShape(c)
    BY <1>5, Zenon
  <1>7. /\ BridgeShape(s) /\ s.pc = c.pc /\ s.todo = c.todo
        /\ s.read = c.read /\ s.plan = c.plan /\ s.failed = c.failed
    BY <1>6, SetsKeepalive, ZenonT(30)
  <1> HIDE DEF a, b, c
  <1> QED
    BY <1>1, <1>3, <1>5, <1>7, Zenon

\* A bridge that starts.
LEMMA NewBridge ==
    ASSUME NEW r, r = Hyprland!NewRun
    PROVE  /\ BridgeShape(r) /\ r.pc = "idle" /\ r.todo = {} /\ r.read = Hyprland!NoRead
           /\ r.plan = <<>> /\ r.failed = FALSE
  <1> DEFINE none == Hyprland!NoRead
  <1>1. r = [pc |-> "idle", todo |-> {}, read |-> none, plan |-> <<>>,
             latest |-> FALSE, keepalive |-> FALSE, failed |-> FALSE,
             stop |-> FALSE, post |-> FALSE]
    BY Zenon DEF Hyprland!NewRun
  <1> HIDE DEF none
  <1>2. /\ BridgeShape(r) /\ r.pc = "idle" /\ r.todo = {} /\ r.read = none
        /\ r.plan = <<>> /\ r.failed = FALSE
    BY <1>1, SMT DEF BridgeShape
  <1> QED
    BY <1>2, Zenon DEF none

------------------------------------------------------------------------------
(* Steps that leave one of the three alone.                                *)

\* Before its first query the bridge knows of no window, tag or binding.
LEMMA NothingRead ==
    /\ ReadShape(Hyprland!NoRead) /\ Hyprland!NoRead.exists = {}
    /\ Hyprland!NoRead.tags \in Tagged /\ Hyprland!NoRead.keys \in Bindings
  <1>1. ReadShape(Hyprland!NoRead) /\ Hyprland!NoRead.exists = {}
    BY SMT DEF ReadShape, Hyprland!NoRead
  <1>2. Hyprland!NoRead.tags = [w \in Hyprland!Windows |-> {}]
    BY SMT DEF Hyprland!NoRead
  <1>3. Hyprland!NoRead.tags \in Tagged
    BY <1>2, Zenon DEF Tagged
  <1>4. Hyprland!NoRead.keys = [own |-> 0, legacy |-> 0, foreign |-> 0]
    BY SMT DEF Hyprland!NoRead
  <1>5. Hyprland!NoRead.keys \in Bindings
    BY <1>4, SMT DEF Bindings
  <1> QED
    BY <1>1, <1>3, <1>5, Zenon

\* A step that changes only where the bridge is keeps the types.
LEMMA TypesStay ==
    ASSUME BridgeTypes, BridgeShape(bridge'),
           bridge'.read = bridge.read \/ bridge'.read = Hyprland!NoRead,
           desk' = desk, tags' = tags, keys' = keys,
           authority' \in [game : BOOLEAN, interactive : BOOLEAN],
           calm' \in {"no", "begun", "pass"}
    PROVE  BridgeTypes'
  <1>1. /\ ReadShape(bridge'.read) /\ bridge'.read.exists \subseteq Hyprland!Windows
        /\ bridge'.read.tags \in Tagged /\ bridge'.read.keys \in Bindings
    BY NothingRead, Zenon DEF BridgeTypes
  <1> QED
    BY <1>1, Zenon DEF BridgeTypes

\* Outside the passes that speak of them the tags are only where they were.
Tagging == {"focus", "snapshot", "dispatch", "cleanup", "stopped", "down"}
\* A step to a place that says nothing of the tags leaves them as they should be.
LEMMA TaggingElsewhere ==
    ASSUME TaggingInv, desk' = desk, tags' = tags, NEW p, bridge'.pc = p, p \notin Tagging
    PROVE  TaggingInv'
  <1>1. /\ bridge'.pc \notin {"focus", "snapshot"} /\ bridge'.pc # "dispatch"
        /\ bridge'.pc # "cleanup" /\ bridge'.pc \notin {"stopped", "down"}
    BY Zenon DEF Tagging
  <1> QED
    BY <1>1, Zenon DEF TaggingInv

BindPlaces == {"shortcut", "Bind", "cleanup", "stopped", "down"}
\* So does one to a place that says nothing of the bindings.
LEMMA BindingElsewhere ==
    ASSUME BindingInv, keys' = keys, NEW p, bridge'.pc = p, p \notin BindPlaces
    PROVE  BindingInv'
  <1>1. /\ bridge'.pc # "shortcut" /\ bridge'.pc # "Bind"
        /\ bridge'.pc \notin {"cleanup", "stopped", "down"}
    BY Zenon DEF BindPlaces
  <1> QED
    BY <1>1, Zenon DEF BindingInv

\* And one that leaves Interactive, and what was read of it, alone.
LEMMA CalmElsewhere ==
    ASSUME CalmInv, desk' = desk, authority' = authority, reported' = reported,
           calm' = calm, NEW p, bridge'.pc = p, p \notin Passing
    PROVE  CalmInv'
  <1>1. bridge'.pc \notin Passing /\ bridge'.pc \notin {"reconcile", "snapshot"}
        /\ bridge'.pc # "dispatch"
    BY Zenon DEF Passing
  <1> QED
    BY <1>1, Zenon DEF CalmInv, InSight

\* Once Interactive ended, or the desktop changed, nothing is promised of it.
LEMMA CalmIsOver == ASSUME calm' = "no" PROVE CalmInv'
  BY Zenon DEF CalmInv

\* A step of others that leaves the bridge, and what it reads, as it is.
LEMMA TaggingStays ==
    ASSUME TaggingInv, desk' = desk, tags' = tags, bridge' = bridge
    PROVE  TaggingInv'
  BY Zenon DEF TaggingInv

\* The same of the bindings.
LEMMA BindingStays ==
    ASSUME BindingInv, keys' = keys, bridge' = bridge
    PROVE  BindingInv'
  BY Zenon DEF BindingInv

\* A step that leaves them all alone.
LEMMA BridgeStays ==
    ASSUME BridgeInv, desk' = desk, tags' = tags, keys' = keys, bridge' = bridge,
           authority' = authority, reported' = reported, calm' = calm
    PROVE  BridgeInv'
  <1>1. BridgeTypes /\ TaggingInv /\ BindingInv /\ CalmInv
    BY Zenon DEF BridgeInv
  <1>2. BridgeTypes'
    BY <1>1, Zenon DEF BridgeTypes
  <1>3. TaggingInv' /\ BindingInv'
    BY <1>1, TaggingStays, BindingStays, Zenon
  <1>4. CalmInv'
    BY <1>1, Zenon DEF CalmInv, InSight
  <1> QED
    BY <1>2, <1>3, <1>4, Zenon DEF BridgeInv

\* What Desktop and Toggle call steady.
LEMMA SteadyInSight == ASSUME NEW d, Hyprland!Steady(d) PROVE InSight(d)
  BY Zenon DEF Hyprland!Steady, InSight

------------------------------------------------------------------------------
(* A pass begins and reads.                                                *)

\* The three timers of the select.
LEMMA BridgeBegins ==
    ASSUME NEW p, NEW t, NEW k, BridgeInv, Hyprland!Begin(p, t, k),
           p \in {"reconcile", "focus"}, "clients" \in t, p = "reconcile" => "core" \in t,
           desk' = desk, tags' = tags, keys' = keys, authority' = authority,
           reported' = reported
    PROVE  BridgeInv'
  <1>1. /\ bridge' = [bridge EXCEPT !.pc = p, !.todo = t, !.read = Hyprland!NoRead,
                                    !.keepalive = k]
        /\ calm' = IF calm = "begun" THEN "pass" ELSE calm
    BY Zenon DEF Hyprland!Begin
  <1>i. BridgeTypes /\ TaggingInv /\ BindingInv /\ CalmInv
    BY Zenon DEF BridgeInv
  <1>2. BridgeShape(bridge) /\ authority \in [game : BOOLEAN, interactive : BOOLEAN]
        /\ calm \in {"no", "begun", "pass"}
    BY <1>i, Zenon DEF BridgeTypes
  <1>w. bridge' = WithKeepalive(WithRead(WithTodo(WithPc(bridge, p), t), Hyprland!NoRead), k)
    BY <1>1, Zenon DEF WithKeepalive, WithRead, WithTodo, WithPc
  <1>3. /\ BridgeShape(bridge') /\ bridge'.pc = p /\ bridge'.todo = t
        /\ bridge'.read = Hyprland!NoRead
    BY <1>w, <1>2, SetsPcTodoReadKeepalive, SMT
  <1>4. calm' \in {"no", "begun", "pass"} /\ (calm' # "no" => calm # "no")
    BY <1>1, <1>2, Zenon
  <1>5. BridgeTypes'
    BY <1>i, <1>2, <1>3, <1>4, TypesStay, Zenon
  <1>6. p \notin BindPlaces /\ p # "dispatch" /\ p # "cleanup" /\ p \notin {"stopped", "down"}
    BY SMT DEF BindPlaces
  <1>7. BindingInv'
    BY <1>i, <1>3, <1>6, BindingElsewhere, Zenon
  <1>8. TaggingInv'
    BY <1>i, <1>3, <1>6, Zenon DEF TaggingInv
  <1>9. p \in {"reconcile", "snapshot"} => "core" \in t
    BY SMT
  <1>10. CalmInv'
    BY <1>i, <1>3, <1>4, <1>6, <1>9, Zenon DEF CalmInv, InSight
  <1> QED
    BY <1>5, <1>7, <1>8, <1>10, Zenon DEF BridgeInv

\* The timers of run_bridge begin a pass and change nothing else.
LEMMA BridgeTicks ==
    ASSUME BridgeInv, Hyprland!KeepaliveTick \/ Hyprland!DebounceTick \/ Hyprland!FocusTick
    PROVE  BridgeInv'
  <1> DEFINE all == {"active", "clients", "core"}
  <1>1. /\ desk' = desk /\ tags' = tags /\ keys' = keys /\ authority' = authority
        /\ reported' = reported
    BY Zenon DEF Hyprland!KeepaliveTick, Hyprland!DebounceTick, Hyprland!FocusTick,
       Hyprland!desktop, Hyprland!memory
  <1>2. \/ Hyprland!Begin("reconcile", all, TRUE) \/ Hyprland!Begin("reconcile", all, FALSE)
        \/ Hyprland!Begin("focus", {"active", "clients"}, FALSE)
    BY Zenon DEF Hyprland!KeepaliveTick, Hyprland!DebounceTick, Hyprland!FocusTick
  <1>3. "clients" \in all /\ "core" \in all /\ "clients" \in {"active", "clients"}
    BY Zenon
  <1>4. "focus" # "reconcile"
    BY SMT
  <1> HIDE DEF all
  <1>5. CASE Hyprland!Begin("reconcile", all, TRUE)
    BY <1>1, <1>3, <1>5, BridgeBegins, Zenon
  <1>6. CASE Hyprland!Begin("reconcile", all, FALSE)
    BY <1>1, <1>3, <1>6, BridgeBegins, Zenon
  <1>7. CASE Hyprland!Begin("focus", {"active", "clients"}, FALSE)
    BY <1>1, <1>3, <1>4, <1>7, BridgeBegins, Zenon
  <1> QED
    BY <1>2, <1>5, <1>6, <1>7, Zenon

\* What an answer adds to what has been read.
LEMMA BridgeHears ==
    ASSUME NEW q \in {"active", "clients", "core", "globals", "bindings"}, BridgeTypes,
           NEW a, a = Hyprland!Answer(q)
    PROVE  /\ ReadShape(a)
           /\ q = "clients" => /\ a.exists = desk.exists /\ a.shown = desk.shown
                               /\ a.here = desk.here /\ a.tags = tags
           /\ q # "clients" => /\ a.exists = bridge.read.exists /\ a.shown = bridge.read.shown
                               /\ a.here = bridge.read.here /\ a.tags = bridge.read.tags
           /\ a.core = IF q = "core" THEN authority ELSE bridge.read.core
           /\ a.keys = IF q = "bindings" THEN keys ELSE bridge.read.keys
  <1> DEFINE r == bridge.read
  <1>1. ReadShape(r)
    BY Zenon DEF BridgeTypes
  <1> HIDE DEF r
  <1>2. CASE q = "active"
    <2>1. a = [r EXCEPT !.active = desk.active]
      BY <1>2, SMT DEF Hyprland!Answer, r
    <2> QED
      BY <1>1, <1>2, <2>1, SMT DEF ReadShape, r
  <1>3. CASE q = "clients"
    <2> DEFINE e == [r EXCEPT !.exists = desk.exists]
               s == [e EXCEPT !.shown = desk.shown]
               h == [s EXCEPT !.here = desk.here]
    <2>1. a = [h EXCEPT !.tags = tags]
      BY <1>3, SMT DEF Hyprland!Answer, r
    <2>2. ReadShape(e) /\ e.exists = desk.exists /\ e.core = r.core /\ e.keys = r.keys
      BY <1>1, SMT DEF ReadShape
    <2> HIDE DEF e
    <2>3. /\ ReadShape(s) /\ s.exists = desk.exists /\ s.shown = desk.shown
          /\ s.core = r.core /\ s.keys = r.keys
      BY <2>2, SMT DEF ReadShape
    <2> HIDE DEF s
    <2>4. /\ ReadShape(h) /\ h.exists = desk.exists /\ h.shown = desk.shown
          /\ h.here = desk.here /\ h.core = r.core /\ h.keys = r.keys
      BY <2>3, SMT DEF ReadShape
    <2> HIDE DEF h
    <2>5. /\ ReadShape(a) /\ a.exists = desk.exists /\ a.shown = desk.shown
          /\ a.here = desk.here /\ a.tags = tags /\ a.core = r.core /\ a.keys = r.keys
      BY <2>1, <2>4, SMT DEF ReadShape
    <2>6. q # "core" /\ q # "bindings"
      BY <1>3, SMT
    <2> QED
      BY <1>3, <2>5, <2>6, Zenon DEF r
  <1>4. CASE q = "core"
    <2>1. a = [r EXCEPT !.core = authority]
      BY <1>4, SMT DEF Hyprland!Answer, r
    <2> QED
      BY <1>1, <1>4, <2>1, SMT DEF ReadShape, r
  <1>5. CASE q = "globals"
    <2>1. a = [r EXCEPT !.globals = globals]
      BY <1>5, SMT DEF Hyprland!Answer, r
    <2> QED
      BY <1>1, <1>5, <2>1, SMT DEF ReadShape, r
  <1>6. CASE q = "bindings"
    <2>1. a = [r EXCEPT !.keys = keys]
      BY <1>6, SMT DEF Hyprland!Answer, r
    <2> QED
      BY <1>1, <1>6, <2>1, SMT DEF ReadShape, r
  <1> QED
    BY <1>2, <1>3, <1>4, <1>5, <1>6, Zenon

\* One answer of a try_join: what it says of tags and bindings is so now.
LEMMA BridgeQuery ==
    ASSUME BridgeInv, NEW q \in {"active", "clients", "core", "globals", "bindings"},
           Hyprland!Query(q)
    PROVE  BridgeInv'
  <1> DEFINE a == Hyprland!Answer(q)
  <1>1. /\ bridge' = [bridge EXCEPT !.read = a, !.todo = bridge.todo \ {q}]
        /\ bridge.pc \in {"reconcile", "focus", "snapshot", "shortcut"}
        /\ desk' = desk /\ tags' = tags /\ keys' = keys /\ authority' = authority
        /\ reported' = reported /\ calm' = calm
    BY Zenon DEF Hyprland!Query, Hyprland!desktop, Hyprland!memory
  <1>i. BridgeTypes /\ TaggingInv /\ BindingInv /\ CalmInv
    BY Zenon DEF BridgeInv
  <1>2. /\ ReadShape(a)
        /\ q = "clients" => /\ a.exists = desk.exists /\ a.shown = desk.shown
                            /\ a.here = desk.here /\ a.tags = tags
        /\ q # "clients" => /\ a.exists = bridge.read.exists /\ a.shown = bridge.read.shown
                            /\ a.here = bridge.read.here /\ a.tags = bridge.read.tags
        /\ a.core = IF q = "core" THEN authority ELSE bridge.read.core
        /\ a.keys = IF q = "bindings" THEN keys ELSE bridge.read.keys
    BY <1>i, BridgeHears, Zenon
  <1> HIDE DEF a
  <1>3. BridgeShape(bridge)
    BY <1>i, Zenon DEF BridgeTypes
  <1>w. bridge' = WithTodo(WithRead(bridge, a), bridge.todo \ {q})
    BY <1>1, Zenon DEF WithRead, WithTodo
  <1>4. /\ BridgeShape(bridge') /\ bridge'.pc = bridge.pc /\ bridge'.read = a
        /\ bridge'.todo = bridge.todo \ {q}
    BY <1>w, <1>3, SetsReadTodo, SMT
  <1>5. bridge.pc # "dispatch" /\ bridge.pc # "cleanup" /\ bridge.pc # "Bind"
        /\ bridge.pc \notin {"stopped", "down"} /\ bridge.pc \notin {"cleanup", "stopped", "down"}
    BY <1>1, SMT
  <1>6. BridgeTypes'
    BY <1>i, <1>1, <1>2, <1>4, Zenon DEF BridgeTypes
  <1>7. TaggingInv'
    <2>1. ASSUME bridge.pc \in {"focus", "snapshot"}, "clients" \notin bridge.todo \ {q}
          PROVE  StillRead(a, tags)
      <3>1. CASE q = "clients"
        BY <1>i, <1>2, <3>1, Zenon DEF StillRead, TaggingInv
      <3>2. CASE q # "clients"
        BY <1>i, <1>2, <2>1, <3>2, Zenon DEF StillRead, TaggingInv
      <3> QED
        BY <3>1, <3>2, Zenon
    <2> QED
      BY <1>i, <1>1, <1>4, <1>5, <2>1, Zenon DEF TaggingInv
  <1>8. BindingInv'
    <2>1. ASSUME bridge.pc = "shortcut", "bindings" \notin bridge.todo \ {q}
          PROVE  keys.own + keys.legacy <= a.keys.own + a.keys.legacy
      <3>1. CASE q = "bindings"
        <4>1. a.keys = keys
          BY <1>2, <3>1, Zenon
        <4>2. keys \in Bindings
          BY <1>i, Zenon DEF BridgeTypes
        <4> QED
          BY <4>1, <4>2, SMT DEF Bindings
      <3>2. CASE q # "bindings"
        BY <1>i, <1>2, <2>1, <3>2, Zenon DEF BindingInv
      <3> QED
        BY <3>1, <3>2, Zenon
    <2> QED
      BY <1>i, <1>1, <1>4, <1>5, <2>1, Zenon DEF BindingInv
  <1>9. CalmInv'
    <2>1. ASSUME calm = "pass", bridge.pc \in Passing, "clients" \notin bridge.todo \ {q}
          PROVE  InSight(a)
      <3>1. CASE q = "clients"
        <4>1. InSight(desk)
          BY <1>i, <2>1, Zenon DEF CalmInv
        <4> QED
          BY <1>2, <3>1, <4>1, Zenon DEF InSight
      <3>2. CASE q # "clients"
        BY <1>i, <1>2, <2>1, <3>2, Zenon DEF InSight, CalmInv
      <3> QED
        BY <3>1, <3>2, Zenon
    <2>2. ASSUME calm = "pass", bridge.pc \in {"reconcile", "snapshot"},
                 "core" \notin bridge.todo \ {q}
          PROVE  a.core.game /\ a.core.interactive
      <3>1. CASE q = "core"
        <4>1. a.core = authority
          BY <1>2, <3>1, Zenon
        <4> QED
          BY <1>i, <2>2, <4>1, Zenon DEF CalmInv
      <3>2. CASE q # "core"
        BY <1>i, <1>2, <2>2, <3>2, Zenon DEF CalmInv
      <3> QED
        BY <3>1, <3>2, Zenon
    <2> QED
      BY <1>i, <1>1, <1>4, <1>5, <2>1, <2>2, Zenon DEF CalmInv, InSight
  <1> QED
    BY <1>6, <1>7, <1>8, <1>9, Zenon DEF BridgeInv

------------------------------------------------------------------------------
(* What a pass decides of the windows.                                     *)

\* remembered_report and reconcile: while Interactive is on, the game that is in sight
\* stays the one reported.
LEMMA BridgeRemembers ==
    ASSUME WindowKinds, NEW r, r.core.interactive, InSight(r)
    PROVE  Hyprland!Reconciled(r) = reported
  <1>1. Hyprland!Reconciled(r) = Hyprland!Remembered(r)
    BY Zenon DEF Hyprland!Reconciled
  <1>2. reported \in GameWindows /\ reported \in r.shown /\ reported \in r.here
    BY Zenon DEF InSight
  <1>3. reported # None /\ reported \notin Overlays /\ reported \notin Unreportable
    BY <1>2, Zenon DEF WindowKinds, Hyprland!Windows
  <1>4. Hyprland!Reportable(reported, r)
    BY <1>2, <1>3, Zenon DEF Hyprland!Reportable
  <1> QED
    BY <1>1, <1>2, <1>3, <1>4, Zenon DEF Hyprland!Remembered

\* reconcile_once.
LEMMA BridgeReconcile ==
    ASSUME WindowKinds, BridgeInv, Hyprland!Reconcile
    PROVE  BridgeInv'
  <1>1. /\ bridge.pc = "reconcile" /\ bridge.todo = {}
        /\ reported' = Hyprland!Reconciled(bridge.read)
        /\ bridge' = [bridge EXCEPT !.pc = "report"]
        /\ calm' = IF calm = "begun" /\ reported' # reported THEN "no" ELSE calm
        /\ desk' = desk /\ tags' = tags /\ keys' = keys /\ authority' = authority
    BY Zenon DEF Hyprland!Reconcile, Hyprland!desktop
  <1>i. BridgeTypes /\ TaggingInv /\ BindingInv /\ CalmInv
    BY Zenon DEF BridgeInv
  <1>2. BridgeShape(bridge) /\ authority \in [game : BOOLEAN, interactive : BOOLEAN]
        /\ calm \in {"no", "begun", "pass"}
    BY <1>i, Zenon DEF BridgeTypes
  <1>3. BridgeShape(bridge') /\ bridge'.pc = "report" /\ bridge'.read = bridge.read
    BY <1>1, <1>2, SMT DEF BridgeShape
  <1>4. "report" \notin Tagging /\ "report" \notin BindPlaces /\ "report" \notin Passing
    BY SMT DEF Tagging, BindPlaces, Passing
  <1>5. calm' \in {"no", "begun", "pass"} /\ (calm' = "no" \/ calm' = calm)
    BY <1>1, <1>2, Zenon
  <1>6. BridgeTypes'
    BY <1>i, <1>1, <1>2, <1>3, <1>5, TypesStay, Zenon
  <1>7. TaggingInv' /\ BindingInv'
    BY <1>i, <1>1, <1>3, <1>4, TaggingElsewhere, BindingElsewhere, Zenon
  <1>8. CalmInv'
    <2>1. CASE calm' = "no"
      BY <2>1, CalmIsOver, Zenon
    <2>2. CASE calm' # "no"
      <3>1. calm' = calm /\ (calm = "begun" => reported' = reported)
        BY <1>1, <1>5, <2>2, Zenon
      <3>2. ASSUME calm = "pass" PROVE reported' = reported
        <4>1. "clients" \notin bridge.todo /\ "core" \notin bridge.todo
          BY <1>1, Zenon
        <4>2. bridge.pc \in Passing /\ bridge.pc \in {"reconcile", "snapshot"}
          BY <1>1, SMT DEF Passing
        <4>3. InSight(bridge.read) /\ bridge.read.core.interactive
          BY <1>i, <3>2, <4>1, <4>2, Zenon DEF CalmInv
        <4> QED
          BY <1>1, <4>3, BridgeRemembers, Zenon
      <3>3. reported' = reported
        BY <1>2, <2>2, <3>1, <3>2, Zenon
      <3> QED
        BY <1>i, <1>1, <1>3, <1>4, <3>1, <3>3, CalmElsewhere, Zenon
    <2> QED
      BY <2>1, <2>2, Zenon
  <1> QED
    BY <1>6, <1>7, <1>8, Zenon DEF BridgeInv

\* A report of the game that is in sight leaves Interactive on.
LEMMA ReportKeeps ==
    ASSUME BridgeInv, Hyprland!Report, calm # "no"
    PROVE  authority' = authority
  <1>1. authority' = Hyprland!CoreReport(reported)
    BY Zenon DEF Hyprland!Report
  <1>2. InSight(desk) /\ authority.game /\ authority \in [game : BOOLEAN, interactive : BOOLEAN]
    BY Zenon DEF BridgeInv, BridgeTypes, CalmInv
  <1>3. reported \in GameWindows
    BY <1>2, Zenon DEF InSight
  <1>4. authority' = [authority EXCEPT !.game = TRUE]
    BY <1>1, <1>3, Zenon DEF Hyprland!CoreReport
  <1> QED
    BY <1>2, <1>4, SMT

\* What Core can answer: the mode is as it was, or there is no game.
LEMMA CoreAnswers ==
    ASSUME NEW a \in [game : BOOLEAN, interactive : BOOLEAN], NEW c,
           \/ c = [a EXCEPT !.game = TRUE] \/ c = [a EXCEPT !.interactive = ~a.interactive]
           \/ c = [game |-> FALSE, interactive |-> FALSE]
    PROVE  c \in [game : BOOLEAN, interactive : BOOLEAN]
  <1>1. /\ a = [game |-> a.game, interactive |-> a.interactive]
        /\ a.game \in BOOLEAN /\ a.interactive \in BOOLEAN
    BY SMT
  <1>2. CASE c = [a EXCEPT !.game = TRUE]
    <2> DEFINE y == TRUE
    <2>1. y \in BOOLEAN
      BY Zenon
    <2> HIDE DEF y
    <2>2. c = [a EXCEPT !.game = y]
      BY <1>2, Zenon DEF y
    <2>3. c = [game |-> y, interactive |-> a.interactive]
      BY <1>1, <2>2, SMT
    <2> QED
      BY <1>1, <2>1, <2>3, SMT
  <1>3. CASE c = [a EXCEPT !.interactive = ~a.interactive]
    <2> DEFINE n == ~a.interactive
    <2>1. n \in BOOLEAN
      BY Zenon
    <2> HIDE DEF n
    <2>2. c = [a EXCEPT !.interactive = n]
      BY <1>3, Zenon DEF n
    <2>3. c = [game |-> a.game, interactive |-> n]
      BY <1>1, <2>2, SMT
    <2> QED
      BY <1>1, <2>1, <2>3, SMT
  <1>4. CASE c = [game |-> FALSE, interactive |-> FALSE]
    BY <1>4, SMT
  <1> QED
    BY <1>2, <1>3, <1>4, Zenon

\* The report of the focused window changes what Core allows, and no tag or binding.
LEMMA BridgeReport ==
    ASSUME BridgeInv, Hyprland!Report
    PROVE  BridgeInv'
  <1>1. /\ authority' = Hyprland!CoreReport(reported)
        /\ bridge' = [bridge EXCEPT !.pc = "probe", !.latest = authority'.game]
        /\ calm' = IF authority'.interactive THEN calm ELSE "no"
        /\ desk' = desk /\ tags' = tags /\ keys' = keys /\ reported' = reported
    BY Zenon DEF Hyprland!Report, Hyprland!desktop
  <1>i. BridgeTypes /\ TaggingInv /\ BindingInv /\ CalmInv
    BY Zenon DEF BridgeInv
  <1>2. BridgeShape(bridge) /\ authority \in [game : BOOLEAN, interactive : BOOLEAN]
        /\ calm \in {"no", "begun", "pass"}
    BY <1>i, Zenon DEF BridgeTypes
  <1>w. bridge' = WithLatest(WithPc(bridge, "probe"), authority'.game)
    BY <1>1, Zenon DEF WithPc, WithLatest
  <1>3. BridgeShape(bridge') /\ bridge'.pc = "probe" /\ bridge'.read = bridge.read
    BY <1>w, <1>2, SetsPcLatest, SMT
  <1>4. "probe" \notin Tagging /\ "probe" \notin BindPlaces /\ "probe" \notin Passing
    BY SMT DEF Tagging, BindPlaces, Passing
  <1>5. authority' \in [game : BOOLEAN, interactive : BOOLEAN]
    <2>1. \/ authority' = [authority EXCEPT !.game = TRUE]
          \/ authority' = [game |-> FALSE, interactive |-> FALSE]
      BY <1>1, Zenon DEF Hyprland!CoreReport, Hyprland!NoCore
    <2>2. authority \in [game : BOOLEAN, interactive : BOOLEAN]
      BY <1>2, Zenon
    <2> QED
      BY <2>1, <2>2, CoreAnswers, Zenon
  <1>6. calm' \in {"no", "begun", "pass"} /\ (calm' = "no" \/ calm' = calm)
    BY <1>1, <1>2, Zenon
  <1>7. BridgeTypes'
    BY <1>i, <1>1, <1>3, <1>5, <1>6, TypesStay, Zenon
  <1>8. TaggingInv' /\ BindingInv'
    BY <1>i, <1>1, <1>3, <1>4, TaggingElsewhere, BindingElsewhere, Zenon
  <1>9. CalmInv'
    <2>1. CASE calm' = "no"
      BY <2>1, CalmIsOver, Zenon
    <2>2. CASE calm' # "no"
      <3>1. calm' = calm /\ authority' = authority
        BY <1>6, <2>2, ReportKeeps, Zenon
      <3> QED
        BY <1>i, <1>1, <1>3, <1>4, <3>1, CalmElsewhere, Zenon
    <2> QED
      BY <2>1, <2>2, Zenon
  <1> QED
    BY <1>7, <1>8, <1>9, Zenon DEF BridgeInv

\* sync_focus_once, up to the snapshot.
LEMMA BridgeAskSnapshot ==
    ASSUME BridgeInv, Hyprland!AskSnapshot
    PROVE  BridgeInv'
  <1>1. /\ bridge.pc = "focus" /\ bridge.todo = {}
        /\ \/ bridge' = [bridge EXCEPT !.pc = "snapshot", !.todo = {"core"}] /\ calm' = calm
           \/ bridge' = [bridge EXCEPT !.pc = "snapshot", !.failed = TRUE] /\ calm' = "no"
        /\ desk' = desk /\ tags' = tags /\ keys' = keys /\ reported' = reported
        /\ authority' = authority
    BY Zenon DEF Hyprland!AskSnapshot, Hyprland!desktop, Hyprland!memory
  <1>i. BridgeTypes /\ TaggingInv /\ BindingInv /\ CalmInv
    BY Zenon DEF BridgeInv
  <1>2. BridgeShape(bridge) /\ authority \in [game : BOOLEAN, interactive : BOOLEAN]
        /\ calm \in {"no", "begun", "pass"}
    BY <1>i, Zenon DEF BridgeTypes
  <1>w. \/ bridge' = WithTodo(WithPc(bridge, "snapshot"), {"core"})
        \/ \E f : bridge' = WithFailed(WithPc(bridge, "snapshot"), f) /\ calm' = "no"
    BY <1>1, Zenon DEF WithPc, WithTodo, WithFailed
  <1>3. /\ BridgeShape(bridge') /\ bridge'.pc = "snapshot" /\ bridge'.read = bridge.read
        /\ bridge'.todo = {"core"} \/ calm' = "no"
    <2>1. CASE bridge' = WithTodo(WithPc(bridge, "snapshot"), {"core"})
      BY <1>2, <2>1, SetsPcTodo, SMT
    <2>2. ASSUME NEW f, bridge' = WithFailed(WithPc(bridge, "snapshot"), f), calm' = "no"
          PROVE  BridgeShape(bridge') /\ bridge'.pc = "snapshot" /\ bridge'.read = bridge.read
      BY <1>2, <2>2, SetsPcFailed, SMT
    <2> QED
      BY <1>w, <2>1, <2>2, Zenon
  <1>4. /\ "snapshot" \notin BindPlaces /\ "snapshot" \in Passing /\ "focus" \in Passing
        /\ "snapshot" \notin {"stopped", "down"} /\ "snapshot" # "dispatch"
        /\ "snapshot" # "cleanup" /\ "focus" \in {"focus", "snapshot"}
        /\ "snapshot" \in {"focus", "snapshot"}
    BY SMT DEF BindPlaces, Passing
  <1>5. calm' \in {"no", "begun", "pass"} /\ (calm' = "no" \/ calm' = calm)
    BY <1>1, <1>2, Zenon
  <1>6. BridgeTypes'
    BY <1>i, <1>1, <1>2, <1>3, <1>5, TypesStay, Zenon
  <1>7. BindingInv'
    BY <1>i, <1>1, <1>3, <1>4, BindingElsewhere, Zenon
  <1>8. "clients" \notin bridge.todo
    BY <1>1, Zenon
  <1>9. TaggingInv'
    <2>1. StillRead(bridge.read, tags)
      BY <1>i, <1>1, <1>4, <1>8, Zenon DEF TaggingInv
    <2> QED
      BY <1>i, <1>1, <1>3, <1>4, <2>1, Zenon DEF TaggingInv
  <1>10. CalmInv'
    <2>1. CASE calm' = "no"
      BY <2>1, CalmIsOver, Zenon
    <2>2. CASE calm' # "no"
      <3>1. calm' = calm /\ bridge'.todo = {"core"}
        BY <1>3, <1>5, <2>2, Zenon
      <3>2. calm = "pass" => InSight(bridge.read)
        BY <1>i, <1>1, <1>4, <1>8, Zenon DEF CalmInv
      <3> QED
        BY <1>i, <1>1, <1>3, <1>4, <3>1, <3>2, Zenon DEF CalmInv, InSight
    <2> QED
      BY <2>1, <2>2, Zenon
  <1> QED
    BY <1>6, <1>7, <1>9, <1>10, Zenon DEF BridgeInv

\* unique_overlay_address and the like find a window of the set they look at.
LEMMA SingleIsOne ==
    ASSUME NEW S, Hyprland!Single(S) # None
    PROVE  Hyprland!Single(S) \in S
  <1> DEFINE c == CHOOSE w \in S : TRUE
  <1>1. (\E w \in S : S = {w}) /\ Hyprland!Single(S) = c
    BY Zenon DEF Hyprland!Single
  <1>2. c \in S
    BY <1>1, Zenon
  <1> QED
    BY <1>1, <1>2, Zenon

\* They do find the only one there is.
LEMMA OneIsSingle ==
    ASSUME NEW S, \E w \in S : S = {w}
    PROVE  Hyprland!Single(S) \in S
  <1> DEFINE c == CHOOSE w \in S : TRUE
  <1>1. Hyprland!Single(S) = c
    BY Zenon DEF Hyprland!Single
  <1>2. c \in S
    BY Zenon
  <1> QED
    BY <1>1, <1>2, Zenon

\* interaction_targets: a game to block and an overlay, or neither.
LEMMA TargetKinds ==
    ASSUME NEW r
    PROVE  /\ Hyprland!Targets(r).game # None
                => /\ Hyprland!Targets(r).game \in GameWindows
                   /\ Hyprland!Targets(r).overlay \in Overlays
           /\ Hyprland!Targets(r).overlay # None => Hyprland!Targets(r).overlay \in Overlays
           /\ Hyprland!GameOf(r) # None => Hyprland!GameOf(r) \in GameWindows
  <1>1. Hyprland!GameOf(r) # None => Hyprland!GameOf(r) \in GameWindows
    BY SingleIsOne, Zenon DEF Hyprland!GameOf
  <1>2. Hyprland!OverlayOf(r) # None => Hyprland!OverlayOf(r) \in Overlays
    BY SingleIsOne, Zenon DEF Hyprland!OverlayOf
  <1> DEFINE g == Hyprland!GameOf(r)
             o == Hyprland!OverlayOf(r)
  <1>3. \/ /\ Hyprland!Targets(r) = [game |-> g, overlay |-> o] /\ g # None /\ o # None
        \/ Hyprland!Targets(r) = [game |-> None, overlay |-> None]
    BY Zenon DEF Hyprland!Targets
  <1> HIDE DEF g, o
  <1>4. \/ /\ Hyprland!Targets(r).game = g /\ Hyprland!Targets(r).overlay = o
           /\ g # None /\ o # None
        \/ Hyprland!Targets(r).game = None /\ Hyprland!Targets(r).overlay = None
    BY <1>3, SMT
  <1> QED
    BY <1>1, <1>2, <1>4, Zenon DEF g, o

\* A pass that finds both in sight has its targets.
LEMMA TargetsInSight ==
    ASSUME WindowKinds, NEW r, r.core.interactive, r.core.game, InSight(r)
    PROVE  Hyprland!Targets(r).game # None
  <1>1. GameWindows \cap r.shown = {reported} /\ \E w \in Overlays : Overlays \cap r.shown = {w}
    BY Zenon DEF InSight
  <1>2. \E w \in {reported} : {reported} = {w}
    BY Zenon
  <1>3. Hyprland!GameOf(r) \in {reported}
    BY <1>1, <1>2, OneIsSingle, Zenon DEF Hyprland!GameOf
  <1>4. Hyprland!GameOf(r) = reported
    BY <1>3, Zenon
  <1>5. reported # None
    BY <1>1, Zenon DEF WindowKinds, Hyprland!Windows
  <1>7. \E w \in Overlays \cap r.shown : Overlays \cap r.shown = {w}
    BY <1>1, Zenon
  <1>8. Hyprland!OverlayOf(r) \in Overlays
    BY <1>7, OneIsSingle, Zenon DEF Hyprland!OverlayOf
  <1>9. Hyprland!OverlayOf(r) # None
    BY <1>8, Zenon DEF WindowKinds, Hyprland!Windows
  <1>10. Hyprland!Targets(r) = [game |-> reported, overlay |-> Hyprland!OverlayOf(r)]
    BY <1>4, <1>5, <1>9, Zenon DEF Hyprland!Targets
  <1> QED
    BY <1>5, <1>10, SMT

------------------------------------------------------------------------------
(* Plans: giving and taking tags.                                          *)

\* cleanup_commands and reconcile_window_tag: every tag of the list is taken, and no other.
LEMMA UntagsAll ==
    ASSUME WindowKinds, NEW S \in SUBSET (Hyprland!Tags \X Hyprland!Windows),
           NEW u, u = Hyprland!Untags(S)
    PROVE  /\ OnlyTakes(u)
           /\ \A k \in 1..Len(u) : <<u[k].tag, u[k].window>> \in S
           /\ \A t, w : <<t, w>> \in S => \E k \in 1..Len(u) : u[k] = Untagging(t, w)
  <1> DEFINE n == Hyprland!Cardinality(S)
             Lists(l) == \A p \in S : \E i \in DOMAIN l : l[i] = p
             list == CHOOSE l \in Hyprland!Lists(S) : TRUE
  <1>1. n \in Nat /\ list \in Hyprland!Lists(S)
    BY Zenon DEF WindowKinds
  <1>2. u = [i \in DOMAIN list |-> [do |-> "-", tag |-> list[i][1], window |-> list[i][2]]]
    BY Zenon DEF Hyprland!Untags
  <1> HIDE DEF list
  <1>5. list \in [1..n -> S] /\ Lists(list)
    BY <1>1, Zenon DEF Hyprland!Lists
  <1>6. u = [i \in 1..n |-> [do |-> "-", tag |-> list[i][1], window |-> list[i][2]]]
    BY <1>2, <1>5, SMT
  <1> HIDE DEF n, Lists
  <1>7. \A i \in 1..n : list[i] \in S /\ list[i] \in Hyprland!Tags \X Hyprland!Windows
    BY <1>5, Zenon
  <1>8. \A i \in 1..n : /\ list[i] = <<list[i][1], list[i][2]>>
                        /\ list[i][1] \in Hyprland!Tags /\ list[i][2] \in Hyprland!Windows
    BY <1>7, SMT
  <1>9. \A i \in 1..n : /\ u[i] = Untagging(list[i][1], list[i][2])
                        /\ u[i].do = "-" /\ u[i].tag = list[i][1] /\ u[i].window = list[i][2]
                        /\ u[i] \in Command
    BY <1>6, <1>8, SMT DEF Untagging, Command
  <1>10. Len(u) = n /\ u \in Seq(Command)
    BY <1>1, <1>6, <1>9, SMT
  <1>11. OnlyTakes(u)
    BY <1>9, <1>10, Zenon DEF OnlyTakes
  <1>12. \A k \in 1..Len(u) : <<u[k].tag, u[k].window>> \in S
    <2> SUFFICES ASSUME NEW k \in 1..n PROVE <<u[k].tag, u[k].window>> \in S
      BY <1>10, Zenon
    <2>1. <<u[k].tag, u[k].window>> = list[k]
      BY <1>8, <1>9, Zenon
    <2> QED
      BY <1>7, <2>1, Zenon
  <1>13. ASSUME NEW t, NEW w, <<t, w>> \in S
         PROVE  \E k \in 1..Len(u) : u[k] = Untagging(t, w)
    <2>1. PICK i \in DOMAIN list : list[i] = <<t, w>>
      BY <1>5, <1>13, Zenon DEF Lists
    <2>2. i \in 1..n
      BY <1>5, <2>1, Zenon
    <2>3. list[i][1] = t /\ list[i][2] = w
      BY <2>1, SMT
    <2> QED
      BY <1>9, <1>10, <2>2, <2>3, Zenon
  <1> QED
    BY <1>11, <1>12, <1>13, Zenon

\* One list after another.
Joins(j, p, q, S) ==
    /\ j \in Seq(S) /\ Len(p) \in Nat /\ Len(q) \in Nat
    /\ \A k \in 1..Len(p) : k \in 1..Len(j) /\ j[k] = p[k]
    /\ \A k \in 1..Len(q) : Len(p) + k \in 1..Len(j) /\ j[Len(p) + k] = q[k]
    /\ \A k \in 1..Len(j) : k \in 1..Len(p) \/ \E i \in 1..Len(q) : k = Len(p) + i
\* Appending two lists of commands does it.
LEMMA Joined ==
    ASSUME NEW S, NEW p \in Seq(S), NEW q \in Seq(S)
    PROVE  Joins(p \o q, p, q, S)
  <1> DEFINE j == p \o q
  <1>1. /\ j \in Seq(S) /\ Len(p) \in Nat /\ Len(q) \in Nat /\ Len(j) = Len(p) + Len(q)
        /\ \A k \in 1..Len(p) : k \in 1..Len(j) /\ j[k] = p[k]
        /\ \A k \in 1..Len(q) : Len(p) + k \in 1..Len(j) /\ j[Len(p) + k] = q[k]
    BY SMT
  <1>2. ASSUME NEW k \in 1..Len(j), k \notin 1..Len(p)
        PROVE  \E i \in 1..Len(q) : k = Len(p) + i
    <2>1. k - Len(p) \in 1..Len(q) /\ k = Len(p) + (k - Len(p))
      BY <1>1, <1>2, SMT
    <2> QED
      BY <2>1, Zenon
  <1> HIDE DEF j
  <1>3. \A k \in 1..Len(j) : k \in 1..Len(p) \/ \E i \in 1..Len(q) : k = Len(p) + i
    BY <1>2, Zenon
  <1> QED
    BY <1>1, <1>3, Zenon DEF Joins, j

\* A plan for one tag: it is given to one window, and taken from the others before.
Retag(p, t, w, g) ==
    /\ p \in Seq(Command)
    /\ \A k \in 1..Len(p) : p[k].tag = t /\ (GivesTo(p, k) => p[k].window = w)
    /\ TakesFirst(p, g)

\* reconcile_window_tag.
LEMMA RetagsOne ==
    ASSUME WindowKinds, BridgeTypes, NEW t \in Hyprland!Tags, NEW r, r = bridge.read,
           StillRead(r, tags), NEW p, p = Hyprland!ReconcileWindowTag(r, t)
    PROVE  Retag(p, t, Hyprland!TargetOf(r, t), tags)
  <1> DEFINE target == Hyprland!TargetOf(r, t)
             extra == {w \in r.exists : t \in r.tags[w] /\ w # target}
             u == Hyprland!Untags({t} \X extra)
             give == [do |-> "+", tag |-> t, window |-> target]
             a == IF target # None /\ t \notin r.tags[target] THEN <<give>> ELSE <<>>
  <1>1. p = u \o a
    BY Zenon DEF Hyprland!ReconcileWindowTag, Hyprland!TagCommands
  <1>2. r.exists \subseteq Hyprland!Windows /\ r.tags \in Tagged
    BY Zenon DEF BridgeTypes
  <1>3. target # None => target \in Hyprland!Windows
    BY TargetKinds, Zenon DEF Hyprland!TargetOf, Hyprland!Windows
  <1>4. extra \in SUBSET Hyprland!Windows
    BY <1>2, Zenon
  <1>6. \A w \in extra : w \in r.exists /\ t \in r.tags[w] /\ w # target
    BY Zenon
  <1>7. \A w \in Hyprland!Windows : t \in tags[w] /\ w # target => w \in extra
    <2> SUFFICES ASSUME NEW w \in Hyprland!Windows, t \in tags[w], w # target
                 PROVE  w \in extra
      BY Zenon
    <2>1. t \in r.tags[w] /\ r.tags[w] # {}
      BY Zenon DEF StillRead
    <2>2. w \in r.exists
      BY <2>1, Zenon DEF StillRead
    <2> QED
      BY <2>1, <2>2, Zenon
  <1> HIDE DEF extra, target
  <1> DEFINE pairs == {t} \X extra
  <1>9. pairs \in SUBSET (Hyprland!Tags \X Hyprland!Windows)
    BY <1>4, SMT
  <1>10. \A x, w : <<x, w>> \in pairs <=> x = t /\ w \in extra
    BY SMT
  <1> HIDE DEF pairs
  <1>11. /\ OnlyTakes(u) /\ \A k \in 1..Len(u) : <<u[k].tag, u[k].window>> \in pairs
         /\ \A x, w : <<x, w>> \in pairs => \E k \in 1..Len(u) : u[k] = Untagging(x, w)
    <2>1. u = Hyprland!Untags(pairs)
      BY Zenon DEF pairs
    <2> HIDE DEF u
    <2> QED
      BY <1>9, <2>1, UntagsAll, SMT
  <1> HIDE DEF u
  <1>12. u \in Seq(Command) /\ \A k \in 1..Len(u) : u[k].do = "-" /\ u[k].tag = t
    BY <1>10, <1>11, Zenon DEF OnlyTakes
  <1>13. \A w \in Hyprland!Windows : t \in tags[w] /\ w # target =>
           \E k \in 1..Len(u) : u[k] = Untagging(t, w)
    BY <1>7, <1>10, <1>11, Zenon
  <1>14. target # None => give \in Command
    BY <1>3, SMT DEF Command
  <1>15. a \in Seq(Command) /\ \A k \in 1..Len(a) : a[k] = give
    BY <1>14, SMT
  <1>16. give.do = "+" /\ give.tag = t /\ give.window = target
    BY SMT
  <1> HIDE DEF a, give
  <1>17. /\ p \in Seq(Command) /\ Len(u) \in Nat /\ Len(a) \in Nat
         /\ \A k \in 1..Len(u) : k \in 1..Len(p) /\ p[k] = u[k]
         /\ \A k \in 1..Len(a) : Len(u) + k \in 1..Len(p) /\ p[Len(u) + k] = a[k]
         /\ \A k \in 1..Len(p) : k \in 1..Len(u) \/ \E i \in 1..Len(a) : k = Len(u) + i
    <2>1. Joins(u \o a, u, a, Command)
      BY <1>12, <1>15, Joined, Zenon
    <2>2. Joins(p, u, a, Command)
      BY <1>1, <2>1, Zenon
    <2> QED
      BY <2>2, Zenon DEF Joins
  <1>18. "-" # "+"
    BY SMT
  <1>19. \A k \in 1..Len(p) : p[k].tag = t /\ (GivesTo(p, k) => p[k].window = target)
    <2> SUFFICES ASSUME NEW k \in 1..Len(p)
                 PROVE  p[k].tag = t /\ (GivesTo(p, k) => p[k].window = target)
      BY Zenon
    <2>1. CASE k \in 1..Len(u)
      <3>1. p[k].do = "-" /\ p[k].tag = t
        BY <1>12, <1>17, <2>1, Zenon
      <3> QED
        BY <1>18, <3>1, Zenon DEF GivesTo
    <2>2. ASSUME NEW i \in 1..Len(a), k = Len(u) + i
          PROVE  p[k].tag = t /\ p[k].window = target
      <3>1. p[k] = give
        BY <1>15, <1>17, <2>2, Zenon
      <3> QED
        BY <1>16, <3>1, Zenon
    <2> QED
      BY <1>17, <2>1, <2>2, Zenon
  <1>20. TakesFirst(p, tags)
    <2> SUFFICES ASSUME NEW k \in 1..Len(p), GivesTo(p, k), NEW w \in Hyprland!Windows,
                        p[k].tag \in tags[w], w # p[k].window
                 PROVE  \E j \in 1..(k - 1) : p[j] = Untagging(p[k].tag, w)
      BY Zenon DEF TakesFirst
    <2>1. p[k].tag = t /\ p[k].window = target
      BY <1>19, Zenon
    <2>2. PICK j \in 1..Len(u) : u[j] = Untagging(t, w)
      BY <1>13, <2>1, Zenon
    <2>3. k \notin 1..Len(u)
      BY <1>12, <1>17, <1>18, Zenon DEF GivesTo
    <2>4. j \in 1..(k - 1)
      BY <1>17, <2>3, SMT
    <2> QED
      BY <1>17, <2>1, <2>2, <2>4, Zenon
  <1> QED
    BY <1>17, <1>19, <1>20, Zenon DEF Retag, target

\* focus_plan tags both, or moves the focus.
LEMMA FocusForms ==
    ASSUME WindowKinds, NEW r
    PROVE  \/ Hyprland!FocusPlan(r).commands =
                Hyprland!ReconcileWindowTag(r, Hyprland!BLOCKED) \o
                  Hyprland!ReconcileWindowTag(r, Hyprland!INTERACTIVE)
           \/ Hyprland!FocusPlan(r).commands = <<>>
           \/ \E w \in Hyprland!Windows : Hyprland!FocusPlan(r).commands =
                <<[do |-> "focus", tag |-> Hyprland!BLOCKED, window |-> w]>>
  <1> DEFINE targets == Hyprland!Targets(r)
             retag == Hyprland!ReconcileWindowTag(r, Hyprland!BLOCKED) \o
                        Hyprland!ReconcileWindowTag(r, Hyprland!INTERACTIVE)
             goto(w) == <<[do |-> "focus", tag |-> Hyprland!BLOCKED, window |-> w]>>
  <1>1. \/ Hyprland!FocusPlan(r).commands = retag
        \/ targets.game # None /\ Hyprland!FocusPlan(r).commands = goto(targets.overlay)
        \/ Hyprland!FocusPlan(r).commands =
             IF Hyprland!GameOf(r) = None THEN <<>> ELSE goto(Hyprland!GameOf(r))
    BY SMT DEF Hyprland!FocusPlan
  <1>2. targets.game # None => targets.overlay \in Hyprland!Windows
    BY TargetKinds, Zenon DEF Hyprland!Windows
  <1>3. Hyprland!GameOf(r) # None => Hyprland!GameOf(r) \in Hyprland!Windows
    BY TargetKinds, Zenon DEF Hyprland!Windows
  <1> QED
    BY <1>1, <1>2, <1>3, Zenon

\* A plan without tags to give is no danger.
LEMMA NothingGiven ==
    ASSUME NEW p \in Seq(Command), \A k \in 1..Len(p) : p[k].do # "+", NEW g
    PROVE  Retags(p, g)
  BY Zenon DEF Retags, TakesFirst, GivesOnce, BlocksGames, GivesTo

\* Both tags, one after the other.
LEMMA RetagsBoth ==
    ASSUME NEW p, NEW q, NEW v, NEW w, NEW g,
           Retag(p, Hyprland!BLOCKED, v, g), v = None \/ v \in GameWindows,
           None \notin Hyprland!Windows,
           Retag(q, Hyprland!INTERACTIVE, w, g), NEW j, j = p \o q
    PROVE  Retags(j, g)
  <1>1. p \in Seq(Command) /\ q \in Seq(Command) /\ TakesFirst(p, g) /\ TakesFirst(q, g)
    BY Zenon DEF Retag
  <1>2. /\ j \in Seq(Command) /\ Len(p) \in Nat /\ Len(q) \in Nat
        /\ \A k \in 1..Len(p) : k \in 1..Len(j) /\ j[k] = p[k]
        /\ \A k \in 1..Len(q) : Len(p) + k \in 1..Len(j) /\ j[Len(p) + k] = q[k]
        /\ \A k \in 1..Len(j) : k \in 1..Len(p) \/ \E i \in 1..Len(q) : k = Len(p) + i
    <2>1. Joins(p \o q, p, q, Command)
      BY <1>1, Joined, Zenon
    <2>2. Joins(j, p, q, Command)
      BY <2>1, Zenon
    <2> QED
      BY <2>2, Zenon DEF Joins
  <1>3. Hyprland!BLOCKED # Hyprland!INTERACTIVE
    BY SMT DEF Hyprland!BLOCKED, Hyprland!INTERACTIVE
  <1>4. /\ \A k \in 1..Len(p) : /\ p[k].tag = Hyprland!BLOCKED
                                /\ GivesTo(p, k) => p[k].window = v
        /\ \A k \in 1..Len(q) : /\ q[k].tag = Hyprland!INTERACTIVE
                                /\ GivesTo(q, k) => q[k].window = w
    BY Zenon DEF Retag
  <1>5. \A k \in 1..Len(j) : GivesTo(j, k) =>
          \/ j[k].tag = Hyprland!BLOCKED /\ j[k].window = v
          \/ j[k].tag = Hyprland!INTERACTIVE /\ j[k].window = w
    <2> SUFFICES ASSUME NEW k \in 1..Len(j), GivesTo(j, k)
                 PROVE  \/ j[k].tag = Hyprland!BLOCKED /\ j[k].window = v
                        \/ j[k].tag = Hyprland!INTERACTIVE /\ j[k].window = w
      BY Zenon
    <2>1. CASE k \in 1..Len(p)
      <3>1. j[k] = p[k]
        BY <1>2, <2>1, Zenon
      <3>2. GivesTo(p, k)
        BY <3>1, Zenon DEF GivesTo
      <3> QED
        BY <1>4, <2>1, <3>1, <3>2, Zenon
    <2>2. ASSUME NEW i \in 1..Len(q), k = Len(p) + i
          PROVE  j[k].tag = Hyprland!INTERACTIVE /\ j[k].window = w
      <3>1. j[k] = q[i]
        BY <1>2, <2>2, Zenon
      <3>2. GivesTo(q, i)
        BY <3>1, Zenon DEF GivesTo
      <3> QED
        BY <1>4, <3>1, <3>2, Zenon
    <2> QED
      BY <1>2, <2>1, <2>2, Zenon
  <1>6. GivesOnce(j)
    <2> SUFFICES ASSUME NEW i \in 1..Len(j), NEW k \in 1..Len(j), GivesTo(j, i), GivesTo(j, k),
                        j[i].tag = j[k].tag
                 PROVE  j[i].window = j[k].window
      BY Zenon DEF GivesOnce
    <2>1. \/ j[i].tag = Hyprland!BLOCKED /\ j[i].window = v
          \/ j[i].tag = Hyprland!INTERACTIVE /\ j[i].window = w
      BY <1>5, Zenon
    <2>2. \/ j[k].tag = Hyprland!BLOCKED /\ j[k].window = v
          \/ j[k].tag = Hyprland!INTERACTIVE /\ j[k].window = w
      BY <1>5, Zenon
    <2> QED
      BY <1>3, <2>1, <2>2, Zenon
  <1>7. \A k \in 1..Len(j) : j[k] \in Command
    BY <1>2, SMT
  <1>8. \A c \in Command : c.window \in Hyprland!Windows
    BY SMT DEF Command
  <1>9. BlocksGames(j)
    BY <1>3, <1>5, <1>7, <1>8, Zenon DEF BlocksGames
  <1>10. TakesFirst(j, g)
    <2> SUFFICES ASSUME NEW k \in 1..Len(j), GivesTo(j, k), NEW x \in Hyprland!Windows,
                        j[k].tag \in g[x], x # j[k].window
                 PROVE  \E i \in 1..(k - 1) : j[i] = Untagging(j[k].tag, x)
      BY Zenon DEF TakesFirst
    <2>1. CASE k \in 1..Len(p)
      <3>1. j[k] = p[k] /\ GivesTo(p, k)
        BY <1>2, <2>1, Zenon DEF GivesTo
      <3>2. PICK i \in 1..(k - 1) : p[i] = Untagging(p[k].tag, x)
        BY <1>1, <2>1, <3>1, Zenon DEF TakesFirst
      <3>3. i \in 1..Len(p)
        BY <1>2, <2>1, <3>2, SMT
      <3> QED
        BY <1>2, <3>1, <3>2, <3>3, Zenon
    <2>2. CASE \E i \in 1..Len(q) : k = Len(p) + i
      <3>1. PICK h \in 1..Len(q) : k = Len(p) + h
        BY <2>2, Zenon
      <3>2. j[k] = q[h] /\ GivesTo(q, h)
        BY <1>2, <3>1, Zenon DEF GivesTo
      <3>3. PICK i \in 1..(h - 1) : q[i] = Untagging(q[h].tag, x)
        BY <1>1, <3>1, <3>2, Zenon DEF TakesFirst
      <3>4. i \in 1..Len(q) /\ Len(p) + i \in 1..(k - 1)
        BY <1>2, <3>1, <3>3, SMT
      <3> QED
        BY <1>2, <3>2, <3>3, <3>4, Zenon
    <2> QED
      BY <1>2, <2>1, <2>2, Zenon
  <1> QED
    BY <1>2, <1>6, <1>9, <1>10, Zenon DEF Retags

\* focus_plan, from tags that are among those it has read.
LEMMA FocusRetags ==
    ASSUME WindowKinds, BridgeTypes, NEW r, r = bridge.read, StillRead(r, tags)
    PROVE  Retags(Hyprland!FocusPlan(r).commands, tags)
  <1> DEFINE c == Hyprland!FocusPlan(r).commands
             p == Hyprland!ReconcileWindowTag(r, Hyprland!BLOCKED)
             q == Hyprland!ReconcileWindowTag(r, Hyprland!INTERACTIVE)
             v == Hyprland!TargetOf(r, Hyprland!BLOCKED)
             w == Hyprland!TargetOf(r, Hyprland!INTERACTIVE)
  <1>1. Hyprland!BLOCKED \in Hyprland!Tags /\ Hyprland!INTERACTIVE \in Hyprland!Tags
    BY Zenon DEF Hyprland!Tags
  <1>2. Retag(p, Hyprland!BLOCKED, v, tags) /\ Retag(q, Hyprland!INTERACTIVE, w, tags)
    BY <1>1, RetagsOne, Zenon
  <1>3. v = None \/ v \in GameWindows
    BY TargetKinds, Zenon DEF Hyprland!TargetOf
  <1>4. \/ c = p \o q \/ c = <<>>
        \/ \E x \in Hyprland!Windows : c = <<[do |-> "focus", tag |-> Hyprland!BLOCKED, window |-> x]>>
    BY FocusForms, Zenon
  <1> HIDE DEF c, p, q, v, w
  <1>5. CASE c = p \o q
    BY <1>2, <1>3, <1>5, RetagsBoth, Zenon DEF WindowKinds, c
  <1>6. CASE c = <<>>
    <2>1. c \in Seq(Command) /\ \A k \in 1..Len(c) : c[k].do # "+"
      BY <1>6, SMT
    <2> QED
      BY <2>1, NothingGiven, Zenon DEF c
  <1>7. ASSUME NEW x \in Hyprland!Windows,
               c = <<[do |-> "focus", tag |-> Hyprland!BLOCKED, window |-> x]>>
        PROVE  Retags(c, tags)
    <2> DEFINE e == [do |-> "focus", tag |-> Hyprland!BLOCKED, window |-> x]
    <2>1. e \in Command /\ e.do # "+"
      BY <1>1, SMT DEF Command
    <2> HIDE DEF e
    <2>2. c \in Seq(Command) /\ \A k \in 1..Len(c) : c[k].do # "+"
      BY <1>7, <2>1, SMT DEF e
    <2> QED
      BY <2>2, NothingGiven, Zenon
  <1> QED
    BY <1>4, <1>5, <1>6, <1>7, Zenon DEF c

\* sync_focus_once, with its snapshot.
LEMMA BridgePlanFocus ==
    ASSUME WindowKinds, BridgeInv, Hyprland!PlanFocus
    PROVE  BridgeInv'
  <1> DEFINE c == Hyprland!FocusPlan(bridge.read).commands
  <1>1. /\ bridge.pc = "snapshot" /\ bridge.todo = {}
        /\ bridge' = [bridge EXCEPT !.pc = "dispatch", !.plan = c]
        /\ desk' = desk /\ tags' = tags /\ keys' = keys /\ reported' = reported
        /\ authority' = authority /\ calm' = calm
    BY Zenon DEF Hyprland!PlanFocus, Hyprland!desktop
  <1>i. BridgeTypes /\ TaggingInv /\ BindingInv /\ CalmInv
    BY Zenon DEF BridgeInv
  <1>2. BridgeShape(bridge) /\ authority \in [game : BOOLEAN, interactive : BOOLEAN]
        /\ calm \in {"no", "begun", "pass"}
    BY <1>i, Zenon DEF BridgeTypes
  <1>3. StillRead(bridge.read, tags)
    <2>1. bridge.pc \in {"focus", "snapshot"} /\ "clients" \notin bridge.todo
      BY <1>1, Zenon
    <2> QED
      BY <1>i, <2>1, Zenon DEF TaggingInv
  <1>4. Retags(c, tags)
    BY <1>i, <1>3, FocusRetags, Zenon
  <1> HIDE DEF c
  <1>w. bridge' = WithPlan(WithPc(bridge, "dispatch"), c)
    BY <1>1, Zenon DEF WithPc, WithPlan
  <1>5. /\ BridgeShape(bridge') /\ bridge'.pc = "dispatch" /\ bridge'.read = bridge.read
        /\ bridge'.plan = c
    BY <1>w, <1>2, SetsPcPlan, SMT
  <1>6. BridgeTypes'
    BY <1>i, <1>1, <1>2, <1>5, TypesStay, Zenon
  <1>7. /\ "dispatch" \notin BindPlaces /\ "dispatch" \notin {"focus", "snapshot"}
        /\ "dispatch" # "cleanup" /\ "dispatch" \notin {"stopped", "down"}
        /\ "dispatch" \notin {"reconcile", "snapshot"} /\ "snapshot" \in {"reconcile", "snapshot"}
        /\ "snapshot" \in Passing
    BY SMT DEF BindPlaces, Passing
  <1>8. BindingInv'
    BY <1>i, <1>1, <1>5, <1>7, BindingElsewhere, Zenon
  <1>9. TaggingInv'
    BY <1>i, <1>1, <1>4, <1>5, <1>7, Zenon DEF TaggingInv
  <1>10. CalmInv'
    <2>1. "clients" \notin bridge.todo /\ "core" \notin bridge.todo
      BY <1>1, Zenon
    <2>2. calm = "pass" => /\ InSight(bridge.read) /\ bridge.read.core.game
                           /\ bridge.read.core.interactive
      BY <1>i, <1>1, <1>7, <2>1, Zenon DEF CalmInv
    <2> QED
      BY <1>i, <1>1, <1>5, <1>7, <2>2, Zenon DEF CalmInv, InSight
  <1> QED
    BY <1>6, <1>8, <1>9, <1>10, Zenon DEF BridgeInv

\* What is left of a plan.
LEMMA PlanRest ==
    ASSUME NEW S, NEW p \in Seq(S), p # <<>>
    PROVE  /\ Tail(p) \in Seq(S) /\ Len(p) \in Nat /\ Len(Tail(p)) = Len(p) - 1
           /\ 1 \in 1..Len(p) /\ p[1] = Head(p) /\ Head(p) \in S
           /\ \A k \in 1..Len(Tail(p)) : k + 1 \in 1..Len(p) /\ Tail(p)[k] = p[k + 1]
           /\ \A k \in 1..Len(p) : k = 1 \/ \E i \in 1..Len(Tail(p)) : k = i + 1
  <1> DEFINE q == Tail(p)
             c == Head(p)
  <1>1. /\ q \in Seq(S) /\ Len(p) \in Nat /\ Len(q) = Len(p) - 1
        /\ 1 \in 1..Len(p) /\ p[1] = c /\ c \in S
        /\ \A k \in 1..Len(q) : k + 1 \in 1..Len(p) /\ q[k] = p[k + 1]
    BY SMT
  <1>2. ASSUME NEW k \in 1..Len(p), k # 1
        PROVE  \E i \in 1..Len(q) : k = i + 1
    <2>1. k - 1 \in 1..Len(q) /\ k = (k - 1) + 1
      BY <1>1, <1>2, SMT
    <2> QED
      BY <2>1, Zenon
  <1> HIDE DEF q, c
  <1>3. \A k \in 1..Len(p) : k = 1 \/ \E i \in 1..Len(q) : k = i + 1
    BY <1>2, Zenon
  <1> QED
    BY <1>1, <1>3, Zenon DEF q, c

\* What the compositor does with a command.
LEMMA BridgeObeyed ==
    ASSUME BridgeTypes, NEW c \in Command, Hyprland!Obey(c)
    PROVE  /\ c.window \in desk.exists /\ tags' \in Tagged
           /\ desk' = [exists |-> desk'.exists, shown |-> desk'.shown, here |-> desk'.here,
                       active |-> desk'.active]
           /\ desk'.exists = desk.exists /\ desk'.shown = desk.shown /\ desk'.here = desk.here
           /\ \A w \in Hyprland!Windows : w # c.window => tags'[w] = tags[w]
           /\ c.do = "+" => tags'[c.window] = tags[c.window] \cup {c.tag}
           /\ c.do = "-" => tags'[c.window] = tags[c.window] \ {c.tag}
           /\ c.do = "focus" => tags' = tags
  <1>1. /\ c.do \in {"+", "-", "focus"} /\ c.tag \in Hyprland!Tags
        /\ c.window \in Hyprland!Windows
    BY SMT DEF Command
  <1>2. /\ tags \in Tagged
        /\ desk = [exists |-> desk.exists, shown |-> desk.shown, here |-> desk.here,
                   active |-> desk.active]
    BY Zenon DEF BridgeTypes
  <1> DEFINE x == c.window
             t == c.tag
  <1>3. /\ x \in desk.exists
        /\ tags' = CASE c.do = "+" -> [tags EXCEPT ![x] = tags[x] \cup {t}]
                     [] c.do = "-" -> [tags EXCEPT ![x] = tags[x] \ {t}]
                     [] OTHER -> tags
        /\ desk' = desk \/ desk' = [desk EXCEPT !.active = x]
    BY Zenon DEF Hyprland!Obey
  <1> HIDE DEF x, t
  <1>4. /\ desk' = [exists |-> desk'.exists, shown |-> desk'.shown, here |-> desk'.here,
                    active |-> desk'.active]
        /\ desk'.exists = desk.exists /\ desk'.shown = desk.shown /\ desk'.here = desk.here
    BY <1>2, <1>3, SMT
  <1>5. x \in Hyprland!Windows /\ t \in Hyprland!Tags
    BY <1>1, Zenon DEF x, t
  <1>6. CASE c.do = "+"
    <2>1. tags' = [tags EXCEPT ![x] = tags[x] \cup {t}]
      BY <1>3, <1>6, Zenon
    <2>2. /\ tags' \in Tagged /\ tags'[x] = tags[x] \cup {t}
          /\ \A w \in Hyprland!Windows : w # x => tags'[w] = tags[w]
      BY <1>2, <1>5, <2>1, Zenon DEF Tagged
    <2>3. c.do # "-" /\ c.do # "focus"
      BY <1>6, SMT
    <2> QED
      BY <1>3, <1>4, <2>2, <2>3, Zenon DEF x, t
  <1>7. CASE c.do = "-"
    <2>1. c.do # "+" /\ c.do # "focus"
      BY <1>7, SMT
    <2>2. tags' = [tags EXCEPT ![x] = tags[x] \ {t}]
      BY <1>3, <1>7, <2>1, Zenon
    <2>3. /\ tags' \in Tagged /\ tags'[x] = tags[x] \ {t}
          /\ \A w \in Hyprland!Windows : w # x => tags'[w] = tags[w]
      BY <1>2, <1>5, <2>2, Zenon DEF Tagged
    <2> QED
      BY <1>3, <1>4, <2>1, <2>3, Zenon DEF x, t
  <1>8. CASE c.do = "focus"
    <2>1. c.do # "+" /\ c.do # "-"
      BY <1>8, SMT
    <2>2. tags' = tags
      BY <1>3, <2>1, Zenon
    <2> QED
      BY <1>2, <1>3, <1>4, <2>1, <2>2, Zenon DEF x
  <1> QED
    BY <1>1, <1>6, <1>7, <1>8, Zenon

\* Taking a tag, or moving the focus, gives none.
LEMMA ObeyedTakes ==
    ASSUME BridgeTypes, NEW c \in Command, Hyprland!Obey(c), c.do # "+"
    PROVE  \A w \in Hyprland!Windows : tags'[w] \subseteq tags[w]
  <1>1. /\ \A w \in Hyprland!Windows : w # c.window => tags'[w] = tags[w]
        /\ c.do = "-" => tags'[c.window] = tags[c.window] \ {c.tag}
        /\ c.do = "focus" => tags' = tags
    BY BridgeObeyed, Zenon
  <1>2. c.do \in {"+", "-", "focus"}
    BY SMT DEF Command
  <1>3. tags'[c.window] \subseteq tags[c.window]
    BY <1>1, <1>2, Zenon
  <1> QED
    BY <1>1, <1>3, Zenon

\* Fewer tags are as safe.
LEMMA FewerTags ==
    ASSUME NEW g, NEW h, \A w \in Hyprland!Windows : h[w] \subseteq g[w]
    PROVE  /\ OneCarrier(g) => OneCarrier(h)
           /\ OverlaysTakeInput(g) => OverlaysTakeInput(h)
           /\ \A p : TakesFirst(p, g) => TakesFirst(p, h)
           /\ \A p : Retags(p, g) => Retags(p, h)
           /\ \A p : TakesAll(p, g) => TakesAll(p, h)
           /\ \A r : StillRead(r, g) => StillRead(r, h)
  <1>1. OneCarrier(g) => OneCarrier(h)
    BY Zenon DEF OneCarrier
  <1>2. OverlaysTakeInput(g) => OverlaysTakeInput(h)
    BY Zenon DEF OverlaysTakeInput, Hyprland!Windows
  <1>3. \A p : TakesFirst(p, g) => TakesFirst(p, h)
    BY Zenon DEF TakesFirst
  <1>4. \A p : Retags(p, g) => Retags(p, h)
    BY <1>3, Zenon DEF Retags
  <1>5. \A p : TakesAll(p, g) => TakesAll(p, h)
    BY Zenon DEF TakesAll
  <1>6. \A r : StillRead(r, g) => StillRead(r, h)
    BY Zenon DEF StillRead
  <1> QED
    BY <1>1, <1>2, <1>3, <1>4, <1>5, <1>6, Zenon

\* The rest of a plan whose first command was carried out.
LEMMA RestRetags ==
    ASSUME BridgeTypes, NEW p, Retags(p, tags), p # <<>>, NEW c, c = Head(p),
           Hyprland!Obey(c), NEW q, q = Tail(p), OneCarrier(tags), OverlaysTakeInput(tags),
           WindowKinds
    PROVE  Retags(q, tags') /\ OneCarrier(tags') /\ OverlaysTakeInput(tags')
  <1>1. p \in Seq(Command) /\ TakesFirst(p, tags) /\ GivesOnce(p) /\ BlocksGames(p)
    BY Zenon DEF Retags
  <1>2. /\ q \in Seq(Command) /\ Len(p) \in Nat /\ Len(q) = Len(p) - 1
        /\ 1 \in 1..Len(p) /\ p[1] = c /\ c \in Command
        /\ \A k \in 1..Len(q) : k + 1 \in 1..Len(p) /\ q[k] = p[k + 1]
    <2>1. /\ Tail(p) \in Seq(Command) /\ Len(p) \in Nat /\ Len(Tail(p)) = Len(p) - 1
          /\ 1 \in 1..Len(p) /\ p[1] = Head(p) /\ Head(p) \in Command
          /\ \A k \in 1..Len(Tail(p)) : k + 1 \in 1..Len(p) /\ Tail(p)[k] = p[k + 1]
          /\ \A k \in 1..Len(p) : k = 1 \/ \E i \in 1..Len(Tail(p)) : k = i + 1
      BY <1>1, PlanRest, Zenon
    <2> QED
      BY <2>1, Zenon
  <1>3. /\ tags' \in Tagged
        /\ \A w \in Hyprland!Windows : w # c.window => tags'[w] = tags[w]
        /\ c.do = "+" => tags'[c.window] = tags[c.window] \cup {c.tag}
        /\ c.do = "-" => tags'[c.window] = tags[c.window] \ {c.tag}
    BY <1>2, BridgeObeyed, Zenon
  <1>4. c.window \in Hyprland!Windows /\ c.tag \in Hyprland!Tags
    BY <1>2, SMT DEF Command
  <1>5. GivesOnce(q)
    <2> SUFFICES ASSUME NEW j \in 1..Len(q), NEW k \in 1..Len(q), GivesTo(q, j), GivesTo(q, k),
                        q[j].tag = q[k].tag
                 PROVE  q[j].window = q[k].window
      BY Zenon DEF GivesOnce
    <2>1. /\ j + 1 \in 1..Len(p) /\ q[j] = p[j + 1] /\ k + 1 \in 1..Len(p) /\ q[k] = p[k + 1]
      BY <1>2, Zenon
    <2>2. GivesTo(p, j + 1) /\ GivesTo(p, k + 1)
      BY <2>1, Zenon DEF GivesTo
    <2>3. p[j + 1].window = p[k + 1].window
      BY <1>1, <2>1, <2>2, Zenon DEF GivesOnce
    <2> QED
      BY <2>1, <2>3, Zenon
  <1>6. BlocksGames(q)
    BY <1>1, <1>2, Zenon DEF BlocksGames, GivesTo
  <1>7. CASE c.do = "+"
    <2>1. \A w \in Hyprland!Windows : c.tag \in tags[w] => w = c.window
      <3> SUFFICES ASSUME NEW w \in Hyprland!Windows, c.tag \in tags[w], w # c.window
                   PROVE  FALSE
        BY Zenon
      <3>1. \E j \in 1..(1 - 1) : p[j] = Untagging(p[1].tag, w)
        BY <1>1, <1>2, <1>7, Zenon DEF TakesFirst, GivesTo
      <3>2. 1..(1 - 1) = {}
        BY SMT
      <3> QED
        BY <3>1, <3>2, Zenon
    <2>2. \A w \in Hyprland!Windows, t \in Hyprland!Tags :
            t \in tags'[w] <=> t \in tags[w] \/ (t = c.tag /\ w = c.window)
      BY <1>3, <1>7, Zenon
    <2>3. OneCarrier(tags')
      <3> SUFFICES ASSUME NEW t \in Hyprland!Tags, NEW v \in Hyprland!Windows,
                          NEW w \in Hyprland!Windows, t \in tags'[v], t \in tags'[w]
                   PROVE  v = w
        BY Zenon DEF OneCarrier
      <3>1. CASE t = c.tag
        <4>1. v = c.window
          BY <2>1, <2>2, <3>1, Zenon
        <4>2. w = c.window
          BY <2>1, <2>2, <3>1, Zenon
        <4> QED
          BY <4>1, <4>2, Zenon
      <3>2. CASE t # c.tag
        <4>1. t \in tags[v] /\ t \in tags[w]
          BY <2>2, <3>2, Zenon
        <4> QED
          BY <4>1, Zenon DEF OneCarrier
      <3> QED
        BY <3>1, <3>2, Zenon
    <2>4. OverlaysTakeInput(tags')
      <3> SUFFICES ASSUME NEW w \in Overlays, Hyprland!BLOCKED \in tags'[w] PROVE FALSE
        BY Zenon DEF OverlaysTakeInput
      <3>1. w \in Hyprland!Windows /\ Hyprland!BLOCKED \in Hyprland!Tags
        BY Zenon DEF Hyprland!Windows, Hyprland!Tags
      <3>2. c.tag = Hyprland!BLOCKED /\ w = c.window
        BY <2>2, <3>1, Zenon DEF OverlaysTakeInput
      <3>3. c.window \in GameWindows
        BY <1>1, <1>2, <1>7, <3>2, Zenon DEF BlocksGames, GivesTo
      <3> QED
        BY <3>2, <3>3, Zenon DEF WindowKinds
    <2>5. TakesFirst(q, tags')
      <3> SUFFICES ASSUME NEW k \in 1..Len(q), GivesTo(q, k), NEW w \in Hyprland!Windows,
                          q[k].tag \in tags'[w], w # q[k].window
                   PROVE  \E j \in 1..(k - 1) : q[j] = Untagging(q[k].tag, w)
        BY Zenon DEF TakesFirst
      <3>1. k + 1 \in 1..Len(p) /\ q[k] = p[k + 1] /\ GivesTo(p, k + 1) /\ q[k] \in Command
        BY <1>2, SMT DEF GivesTo
      <3>2. q[k].tag \in Hyprland!Tags
        BY <3>1, SMT DEF Command
      <3>3. q[k].tag # c.tag
        <4>1. ASSUME q[k].tag = c.tag PROVE FALSE
          <5>1. q[k].window = c.window
            BY <1>1, <1>2, <1>7, <3>1, <4>1, Zenon DEF GivesOnce, GivesTo
          <5>2. c.tag \in tags[w]
            BY <2>2, <3>2, <4>1, <5>1, Zenon
          <5> QED
            BY <2>1, <5>1, <5>2, Zenon
        <4> QED
          BY <4>1, Zenon
      <3>4. q[k].tag \in tags[w]
        BY <2>2, <3>2, <3>3, Zenon
      <3>5. PICK j \in 1..((k + 1) - 1) : p[j] = Untagging(q[k].tag, w)
        BY <1>1, <3>1, <3>4, ZenonT(30) DEF TakesFirst
      <3>6. p[j].tag = q[k].tag
        BY <3>5, SMT DEF Untagging
      <3>7. j # 1
        BY <1>2, <3>3, <3>6, ZenonT(30)
      <3>8. j - 1 \in 1..(k - 1) /\ j - 1 \in 1..Len(q) /\ (j - 1) + 1 = j
        BY <1>2, <3>5, <3>7, SMT
      <3>9. q[j - 1] = p[j]
        BY <1>2, <3>8, Zenon
      <3> QED
        BY <3>5, <3>8, <3>9, Zenon
    <2> QED
      BY <1>2, <1>5, <1>6, <2>3, <2>4, <2>5, Zenon DEF Retags
  <1>8. CASE c.do # "+"
    <2>1. \A w \in Hyprland!Windows : tags'[w] \subseteq tags[w]
      BY <1>2, <1>8, ObeyedTakes, Zenon
    <2>2. OneCarrier(tags') /\ OverlaysTakeInput(tags')
      BY <2>1, FewerTags, Zenon
    <2>3. TakesFirst(q, tags')
      <3> SUFFICES ASSUME NEW k \in 1..Len(q), GivesTo(q, k), NEW w \in Hyprland!Windows,
                          q[k].tag \in tags'[w], w # q[k].window
                   PROVE  \E j \in 1..(k - 1) : q[j] = Untagging(q[k].tag, w)
        BY Zenon DEF TakesFirst
      <3>1. k + 1 \in 1..Len(p) /\ q[k] = p[k + 1] /\ GivesTo(p, k + 1)
        BY <1>2, Zenon DEF GivesTo
      <3>2. q[k].tag \in tags[w]
        BY <2>1, Zenon
      <3>3. PICK j \in 1..((k + 1) - 1) : p[j] = Untagging(q[k].tag, w)
        BY <1>1, <3>1, <3>2, Zenon DEF TakesFirst
      <3>4. j # 1
        <4>1. ASSUME j = 1 PROVE FALSE
          <5>1. c = Untagging(q[k].tag, w)
            BY <1>2, <3>3, <4>1, ZenonT(30)
          <5>2. c.do = "-" /\ c.tag = q[k].tag /\ c.window = w
            BY <5>1, SMTT(30) DEF Untagging
          <5> QED
            BY <1>3, <5>2, Zenon
        <4> QED
          BY <4>1, Zenon
      <3>5. j - 1 \in 1..(k - 1) /\ j - 1 \in 1..Len(q) /\ (j - 1) + 1 = j
        BY <1>2, <3>3, <3>4, SMT
      <3>6. q[j - 1] = p[j]
        BY <1>2, <3>5, Zenon
      <3> QED
        BY <3>3, <3>5, <3>6, Zenon
    <2> QED
      BY <1>2, <1>5, <1>6, <2>2, <2>3, Zenon DEF Retags
  <1> QED
    BY <1>7, <1>8, Zenon

\* What is tagged is there.
LEMMA ObeyedIsThere ==
    ASSUME BridgeTypes, TaggingInv, NEW c \in Command, Hyprland!Obey(c)
    PROVE  \A w \in Hyprland!Windows : tags'[w] # {} => w \in desk'.exists
  <1>1. /\ c.window \in desk.exists /\ desk'.exists = desk.exists
        /\ \A w \in Hyprland!Windows : w # c.window => tags'[w] = tags[w]
    BY BridgeObeyed, Zenon
  <1> QED
    BY <1>1, Zenon DEF TaggingInv

\* A command of the plan.
LEMMA BridgeDispatch ==
    ASSUME WindowKinds, BridgeInv, Hyprland!Dispatch
    PROVE  BridgeInv'
  <1> DEFINE c == Head(bridge.plan)
             rest == Tail(bridge.plan)
  <1>1. /\ bridge.pc = "dispatch" /\ bridge.plan # <<>> /\ Hyprland!Obey(c)
        /\ bridge' = [bridge EXCEPT !.plan = rest]
        /\ keys' = keys /\ reported' = reported /\ authority' = authority /\ calm' = calm
    BY Zenon DEF Hyprland!Dispatch, Hyprland!memory
  <1>i. BridgeTypes /\ TaggingInv /\ BindingInv /\ CalmInv
    BY Zenon DEF BridgeInv
  <1>2. /\ Retags(bridge.plan, tags) /\ OneCarrier(tags) /\ OverlaysTakeInput(tags)
        /\ bridge.plan \in Seq(Command)
    BY <1>i, <1>1, Zenon DEF TaggingInv, Retags
  <1>3. c \in Command
    BY <1>1, <1>2, PlanRest, Zenon
  <1>4. Retags(rest, tags') /\ OneCarrier(tags') /\ OverlaysTakeInput(tags')
    BY <1>i, <1>1, <1>2, RestRetags, Zenon
  <1>5. \A w \in Hyprland!Windows : tags'[w] # {} => w \in desk'.exists
    BY <1>i, <1>1, <1>3, ObeyedIsThere, Zenon
  <1>6. /\ tags' \in Tagged
        /\ desk' = [exists |-> desk'.exists, shown |-> desk'.shown, here |-> desk'.here,
                    active |-> desk'.active]
        /\ desk'.exists = desk.exists /\ desk'.shown = desk.shown /\ desk'.here = desk.here
    BY <1>i, <1>1, <1>3, BridgeObeyed, Zenon
  <1> HIDE DEF c, rest
  <1>7. BridgeShape(bridge)
    BY <1>i, Zenon DEF BridgeTypes
  <1>8. /\ BridgeShape(bridge') /\ bridge'.pc = "dispatch" /\ bridge'.read = bridge.read
        /\ bridge'.plan = rest /\ bridge'.todo = bridge.todo
    BY <1>1, <1>7, SMT DEF BridgeShape
  <1>9. BridgeTypes'
    BY <1>i, <1>1, <1>6, <1>8, Zenon DEF BridgeTypes
  <1>10. /\ "dispatch" \notin BindPlaces /\ "dispatch" \notin {"focus", "snapshot"}
         /\ "dispatch" # "cleanup" /\ "dispatch" \notin {"stopped", "down"}
    BY SMT DEF BindPlaces
  <1>11. BindingInv'
    BY <1>i, <1>1, <1>8, <1>10, BindingElsewhere, Zenon
  <1>12. TaggingInv'
    BY <1>4, <1>5, <1>8, <1>10, Zenon DEF TaggingInv
  <1>13. CalmInv'
    BY <1>i, <1>1, <1>6, <1>8, Zenon DEF CalmInv, InSight
  <1> QED
    BY <1>9, <1>11, <1>12, <1>13, Zenon DEF BridgeInv

\* A pass that began after Interactive does not give the authority up.
LEMMA DispatchedKeeps ==
    ASSUME WindowKinds, BridgeInv, Hyprland!Dispatched, calm = "pass"
    PROVE  authority' = authority
  <1>1. /\ bridge.pc = "dispatch"
        /\ \/ Hyprland!Targets(bridge.read).game = None \/ authority' = authority
    BY Zenon DEF Hyprland!Dispatched
  <1>2. InSight(bridge.read) /\ bridge.read.core.game /\ bridge.read.core.interactive
    BY <1>1, Zenon DEF BridgeInv, CalmInv
  <1>3. Hyprland!Targets(bridge.read).game # None
    BY <1>2, TargetsInSight, Zenon
  <1> QED
    BY <1>1, <1>3, Zenon

\* clear_core, or nothing.
LEMMA BridgeDispatched ==
    ASSUME BridgeInv, Hyprland!Dispatched
    PROVE  BridgeInv'
  <1>1. /\ \/ /\ authority' = Hyprland!NoCore /\ calm' = "no"
              /\ bridge' = [bridge EXCEPT !.pc = "probe", !.latest = FALSE]
           \/ /\ authority' = authority /\ calm' = calm
              /\ bridge' = [bridge EXCEPT !.pc = "probe", !.latest = bridge.read.core.game]
        /\ desk' = desk /\ tags' = tags /\ keys' = keys /\ reported' = reported
    BY Zenon DEF Hyprland!Dispatched, Hyprland!desktop, Hyprland!memory
  <1>i. BridgeTypes /\ TaggingInv /\ BindingInv /\ CalmInv
    BY Zenon DEF BridgeInv
  <1>2. BridgeShape(bridge) /\ authority \in [game : BOOLEAN, interactive : BOOLEAN]
        /\ calm \in {"no", "begun", "pass"}
    BY <1>i, Zenon DEF BridgeTypes
  <1>w. \E l : bridge' = WithLatest(WithPc(bridge, "probe"), l)
    BY <1>1, Zenon DEF WithPc, WithLatest
  <1>3. BridgeShape(bridge') /\ bridge'.pc = "probe" /\ bridge'.read = bridge.read
    BY <1>w, <1>2, SetsPcLatest, SMT
  <1>4. "probe" \notin Tagging /\ "probe" \notin BindPlaces /\ "probe" \notin Passing
    BY SMT DEF Tagging, BindPlaces, Passing
  <1>5. Hyprland!NoCore \in [game : BOOLEAN, interactive : BOOLEAN]
    BY SMT DEF Hyprland!NoCore
  <1>6. /\ authority' \in [game : BOOLEAN, interactive : BOOLEAN]
        /\ calm' \in {"no", "begun", "pass"}
    BY <1>1, <1>2, <1>5, Zenon
  <1>7. BridgeTypes'
    BY <1>i, <1>1, <1>3, <1>6, TypesStay, Zenon
  <1>8. TaggingInv' /\ BindingInv'
    BY <1>i, <1>1, <1>3, <1>4, TaggingElsewhere, BindingElsewhere, Zenon
  <1>9. CalmInv'
    BY <1>i, <1>1, <1>3, <1>4, CalmIsOver, CalmElsewhere, Zenon
  <1> QED
    BY <1>7, <1>8, <1>9, Zenon DEF BridgeInv

------------------------------------------------------------------------------
(* What a pass decides of the shortcut.                                    *)

\* The bridge, idle again.
LEMMA BridgeIdles ==
    ASSUME NEW l, bridge' = WithLatest(Hyprland!NewRun, l)
    PROVE  BridgeShape(bridge') /\ bridge'.pc = "idle" /\ bridge'.read = Hyprland!NoRead
  <1> DEFINE r == Hyprland!NewRun
  <1>1. BridgeShape(r) /\ r.pc = "idle" /\ r.read = Hyprland!NoRead
    BY NewBridge, Zenon
  <1> HIDE DEF r
  <1>2. bridge' = WithLatest(r, l)
    BY Zenon DEF r
  <1>3. BridgeShape(bridge') /\ bridge'.pc = r.pc /\ bridge'.read = r.read
    BY <1>1, <1>2, SetsLatest, SMT
  <1> QED
    BY <1>1, <1>3, Zenon

\* sync_shortcuts_once, up to the answers.
LEMMA BridgeProbe ==
    ASSUME BridgeInv, Hyprland!Probe
    PROVE  BridgeInv'
  <1>1. /\ \/ bridge' = [bridge EXCEPT !.pc = "shortcut", !.todo = {"globals", "bindings"}]
           \/ bridge' = [Hyprland!NewRun EXCEPT !.latest = bridge.latest]
        /\ desk' = desk /\ tags' = tags /\ keys' = keys /\ reported' = reported
        /\ authority' = authority /\ calm' = calm
    BY Zenon DEF Hyprland!Probe, Hyprland!desktop
  <1>i. BridgeTypes /\ TaggingInv /\ BindingInv /\ CalmInv
    BY Zenon DEF BridgeInv
  <1>2. BridgeShape(bridge) /\ authority \in [game : BOOLEAN, interactive : BOOLEAN]
        /\ calm \in {"no", "begun", "pass"}
    BY <1>i, Zenon DEF BridgeTypes
  <1>3. CASE bridge' = [bridge EXCEPT !.pc = "shortcut", !.todo = {"globals", "bindings"}]
    <2>w. bridge' = WithTodo(WithPc(bridge, "shortcut"), {"globals", "bindings"})
      BY <1>3, Zenon DEF WithPc, WithTodo
    <2>1. /\ BridgeShape(bridge') /\ bridge'.pc = "shortcut" /\ bridge'.read = bridge.read
          /\ bridge'.todo = {"globals", "bindings"}
      BY <1>2, <2>w, SetsPcTodo, SMT
    <2>2. /\ "shortcut" \notin Tagging /\ "shortcut" \notin Passing /\ "shortcut" # "Bind"
          /\ "shortcut" \notin {"cleanup", "stopped", "down"}
          /\ "bindings" \in {"globals", "bindings"}
      BY SMT DEF Tagging, Passing
    <2>3. BridgeTypes'
      BY <1>i, <1>1, <1>2, <2>1, TypesStay, Zenon
    <2>4. TaggingInv' /\ CalmInv'
      BY <1>i, <1>1, <2>1, <2>2, TaggingElsewhere, CalmElsewhere, Zenon
    <2>5. BindingInv'
      BY <1>i, <1>1, <2>1, <2>2, Zenon DEF BindingInv
    <2> QED
      BY <2>3, <2>4, <2>5, Zenon DEF BridgeInv
  <1>4. CASE bridge' = [Hyprland!NewRun EXCEPT !.latest = bridge.latest]
    <2>1. BridgeShape(bridge') /\ bridge'.pc = "idle" /\ bridge'.read = Hyprland!NoRead
      BY <1>i, <1>4, BridgeIdles, Zenon DEF WithLatest
    <2>2. "idle" \notin Tagging /\ "idle" \notin BindPlaces /\ "idle" \notin Passing
      BY SMT DEF Tagging, BindPlaces, Passing
    <2>3. BridgeTypes'
      BY <1>i, <1>1, <1>2, <2>1, TypesStay, Zenon
    <2>4. TaggingInv' /\ CalmInv' /\ BindingInv'
      BY <1>i, <1>1, <2>1, <2>2, TaggingElsewhere, CalmElsewhere, BindingElsewhere, Zenon
    <2> QED
      BY <2>3, <2>4, Zenon DEF BridgeInv
  <1> QED
    BY <1>1, <1>3, <1>4, Zenon

\* plan asks for a binding only where it saw none, of an action that is advertised.
LEMMA PlanBinds ==
    ASSUME NEW s, NEW l, NEW r, Hyprland!Plan(s, l, r).decision = "Bind"
    PROVE  /\ (r.keys.own + r.keys.legacy) + r.keys.foreign = 0
           /\ Hyprland!Advertised(r) # "none"
  <1> DEFINE action == Hyprland!Advertised(r)
             mine == r.keys.own + r.keys.legacy
             all == mine + r.keys.foreign
  <1> HIDE DEF action, mine, all
  <1>1. action # "none" /\ all = 0
    BY SMT DEF Hyprland!Plan, action, mine, all
  <1> QED
    BY <1>1, Zenon DEF action, mine, all

\* The plan of the shortcut is to bind only where none of the bindings read is in the way.
LEMMA BridgePlanShortcut ==
    ASSUME BridgeInv, Hyprland!PlanShortcut
    PROVE  BridgeInv'
  <1> DEFINE d == Hyprland!Plan(sc, bridge.latest, bridge.read).decision
  <1>1. /\ bridge.pc = "shortcut" /\ bridge.todo = {}
        /\ \/ d \in {"Bind", "Unbind"} /\ bridge' = [bridge EXCEPT !.pc = d]
           \/ bridge' = [Hyprland!NewRun EXCEPT !.latest = bridge.latest]
        /\ desk' = desk /\ tags' = tags /\ keys' = keys /\ reported' = reported
        /\ authority' = authority /\ calm' = calm
    BY Zenon DEF Hyprland!PlanShortcut, Hyprland!desktop
  <1>i. BridgeTypes /\ TaggingInv /\ BindingInv /\ CalmInv
    BY Zenon DEF BridgeInv
  <1>2. BridgeShape(bridge) /\ authority \in [game : BOOLEAN, interactive : BOOLEAN]
        /\ calm \in {"no", "begun", "pass"} /\ keys \in Bindings /\ bridge.read.keys \in Bindings
    BY <1>i, Zenon DEF BridgeTypes
  <1>3. CASE d \in {"Bind", "Unbind"} /\ bridge' = [bridge EXCEPT !.pc = d]
    <2>0. BridgeShape(bridge') /\ bridge'.pc = d /\ bridge'.read = bridge.read
      BY <1>2, <1>3, SMT DEF BridgeShape
    <2>1. d = "Bind" => /\ (bridge.read.keys.own + bridge.read.keys.legacy)
                              + bridge.read.keys.foreign = 0
                        /\ Hyprland!Advertised(bridge.read) # "none"
      BY PlanBinds, Zenon
    <2> HIDE DEF d
    <2>2. /\ d \notin Tagging /\ d \notin Passing /\ d # "shortcut"
          /\ d \notin {"cleanup", "stopped", "down"}
      BY <1>3, SMT DEF Tagging, Passing
    <2>3. BridgeTypes'
      BY <1>i, <1>1, <1>2, <2>0, TypesStay, Zenon
    <2>4. TaggingInv' /\ CalmInv'
      BY <1>i, <1>1, <2>0, <2>2, TaggingElsewhere, CalmElsewhere, Zenon
    <2>5. Hyprland!Advertised(bridge.read) \in {"own", "legacy", "none"}
      BY SMT DEF Hyprland!Advertised
    <2>6. keys.own + keys.legacy <= bridge.read.keys.own + bridge.read.keys.legacy
      BY <1>i, <1>1, Zenon DEF BindingInv
    <2>7. ASSUME d = "Bind"
          PROVE  /\ keys.own + keys.legacy = 0
                 /\ Hyprland!Advertised(bridge.read) \in {"own", "legacy"}
      <3>1. keys.own + keys.legacy = 0
        BY <1>2, <2>1, <2>6, <2>7, SMT DEF Bindings
      <3> QED
        BY <2>1, <2>5, <2>7, <3>1, Zenon
    <2>8. BindingInv'
      BY <1>i, <1>1, <2>0, <2>2, <2>7, ZenonT(30) DEF BindingInv
    <2> QED
      BY <2>3, <2>4, <2>8, Zenon DEF BridgeInv
  <1>4. CASE bridge' = [Hyprland!NewRun EXCEPT !.latest = bridge.latest]
    <2>1. BridgeShape(bridge') /\ bridge'.pc = "idle" /\ bridge'.read = Hyprland!NoRead
      BY <1>i, <1>4, BridgeIdles, Zenon DEF WithLatest
    <2>2. "idle" \notin Tagging /\ "idle" \notin BindPlaces /\ "idle" \notin Passing
      BY SMT DEF Tagging, BindPlaces, Passing
    <2>3. BridgeTypes'
      BY <1>i, <1>1, <1>2, <2>1, TypesStay, ZenonT(30)
    <2>4. TaggingInv' /\ CalmInv' /\ BindingInv'
      BY <1>i, <1>1, <2>1, <2>2, TaggingElsewhere, CalmElsewhere, BindingElsewhere, Zenon
    <2> QED
      BY <2>3, <2>4, Zenon DEF BridgeInv
  <1> QED
    BY <1>1, <1>3, <1>4, Zenon

\* A binding is made, or those of the accelerator are taken.
LEMMA BridgeBinds ==
    ASSUME BridgeInv, Hyprland!Bind \/ Hyprland!Unbind
    PROVE  BridgeInv'
  <1> DEFINE a == Hyprland!Advertised(bridge.read)
  <1>1. /\ \/ bridge.pc = "Bind" /\ keys' = [keys EXCEPT ![a] = keys[a] + 1]
           \/ keys' = Hyprland!NoRead.keys
        /\ bridge' = [Hyprland!NewRun EXCEPT !.latest = bridge.latest]
        /\ desk' = desk /\ tags' = tags /\ reported' = reported
        /\ authority' = authority /\ calm' = calm
    BY Zenon DEF Hyprland!Bind, Hyprland!Unbind
  <1>i. BridgeTypes /\ TaggingInv /\ BindingInv /\ CalmInv
    BY Zenon DEF BridgeInv
  <1>2. keys \in Bindings
    BY <1>i, Zenon DEF BridgeTypes
  <1>3. BridgeShape(bridge') /\ bridge'.pc = "idle" /\ bridge'.read = Hyprland!NoRead
    BY <1>i, <1>1, BridgeIdles, Zenon DEF WithLatest
  <1>4. keys' \in Bindings /\ keys'.own + keys'.legacy <= 1
    <2>1. CASE bridge.pc = "Bind" /\ keys' = [keys EXCEPT ![a] = keys[a] + 1]
      <3>1. keys.own + keys.legacy = 0 /\ a \in {"own", "legacy"}
        BY <1>i, <2>1, Zenon DEF BindingInv
      <3> HIDE DEF a
      <3>2. keys.own = 0 /\ keys.legacy = 0
        BY <1>2, <3>1, SMT DEF Bindings
      <3>3. CASE a = "own"
        <4>1. keys' = [keys EXCEPT !.own = keys.own + 1]
          BY <2>1, <3>3, Zenon
        <4> QED
          BY <1>2, <3>2, <4>1, SMT DEF Bindings
      <3>4. CASE a = "legacy"
        <4>1. keys' = [keys EXCEPT !.legacy = keys.legacy + 1]
          BY <2>1, <3>4, Zenon
        <4> QED
          BY <1>2, <3>2, <4>1, SMT DEF Bindings
      <3> QED
        BY <3>1, <3>3, <3>4, Zenon
    <2>2. CASE keys' = Hyprland!NoRead.keys
      <3>1. keys' = [own |-> 0, legacy |-> 0, foreign |-> 0]
        BY <2>2, SMT DEF Hyprland!NoRead
      <3> QED
        BY <3>1, SMT DEF Bindings
    <2> QED
      BY <1>1, <2>1, <2>2, Zenon
  <1>5. "idle" \notin Tagging /\ "idle" \notin BindPlaces /\ "idle" \notin Passing
    BY SMT DEF Tagging, BindPlaces, Passing
  <1>6. TaggingInv' /\ CalmInv'
    BY <1>i, <1>1, <1>3, <1>5, TaggingElsewhere, CalmElsewhere, Zenon
  <1>7. BindingInv'
    <2>1. /\ bridge'.pc # "shortcut" /\ bridge'.pc # "Bind"
          /\ bridge'.pc \notin {"cleanup", "stopped", "down"}
      BY <1>3, <1>5, Zenon DEF BindPlaces
    <2> QED
      BY <1>4, <2>1, Zenon DEF BindingInv
  <1>8. /\ ReadShape(bridge'.read) /\ bridge'.read.exists \subseteq Hyprland!Windows
        /\ bridge'.read.tags \in Tagged /\ bridge'.read.keys \in Bindings
    BY <1>3, NothingRead, Zenon
  <1>9. BridgeTypes'
    BY <1>i, <1>1, <1>3, <1>4, <1>8, Zenon DEF BridgeTypes
  <1> QED
    BY <1>6, <1>7, <1>9, Zenon DEF BridgeInv

------------------------------------------------------------------------------
(* Failure, cleanup and restart.                                           *)

\* A process that ends, and ExecStopPost, begin to clean up.
LEMMA BridgeCleans ==
    ASSUME BridgeInv, NEW x, NEW y, bridge' = Hyprland!Cleanup(x, y),
           desk' = desk, tags' = tags, keys' = keys,
           authority' \in [game : BOOLEAN, interactive : BOOLEAN],
           CalmInv', calm' \in {"no", "begun", "pass"}
    PROVE  BridgeInv'
  <1> DEFINE none == Hyprland!NoRead
             r == Hyprland!NewRun
  <1>1. BridgeShape(r) /\ r.read = none /\ r.plan = <<>>
    BY NewBridge, Zenon
  <1>2. bridge' = WithPost(WithStop(WithTodo(WithPc(r, "cleanup"), {"clients", "bindings"}), x), y)
    BY Zenon DEF Hyprland!Cleanup, WithPost, WithStop, WithTodo, WithPc
  <1> HIDE DEF none, r
  <1>3. /\ BridgeShape(bridge') /\ bridge'.pc = "cleanup" /\ bridge'.read = none
        /\ bridge'.todo = {"clients", "bindings"} /\ bridge'.plan = <<>>
    BY <1>1, <1>2, SetsPcTodoStopPost, SMT
  <1>i. BridgeTypes /\ TaggingInv /\ BindingInv
    BY Zenon DEF BridgeInv
  <1>4. BridgeTypes'
    BY <1>i, <1>3, TypesStay, Zenon DEF none
  <1>5. OnlyTakes(<<>>)
    BY SMT DEF OnlyTakes
  <1>6. /\ "cleanup" \notin {"focus", "snapshot"} /\ "cleanup" # "dispatch"
        /\ "cleanup" \notin {"stopped", "down"} /\ "cleanup" # "shortcut"
        /\ "cleanup" # "Bind" /\ "clients" \in {"clients", "bindings"}
        /\ "bindings" \in {"clients", "bindings"}
    BY SMT
  <1>7. TaggingInv'
    BY <1>i, <1>3, <1>5, <1>6, Zenon DEF TaggingInv
  <1>8. BindingInv'
    BY <1>i, <1>3, <1>6, Zenon DEF BindingInv
  <1> QED
    BY <1>4, <1>7, <1>8, Zenon DEF BridgeInv

\* An error, a window that is gone, a kill.
LEMMA BridgeEnds ==
    ASSUME BridgeInv, Hyprland!Fail \/ \E x \in BOOLEAN : Hyprland!Kill(x)
    PROVE  BridgeInv'
  <1>1. /\ \E x, y \in BOOLEAN : bridge' = Hyprland!Cleanup(x, y)
        /\ desk' = desk /\ tags' = tags /\ keys' = keys /\ calm' = "no"
        /\ authority' = Hyprland!NoCore \/ authority' = authority
    BY Zenon DEF Hyprland!Fail, Hyprland!Kill, Hyprland!desktop
  <1>2. Hyprland!NoCore \in [game : BOOLEAN, interactive : BOOLEAN]
    BY SMT DEF Hyprland!NoCore
  <1>3. authority' \in [game : BOOLEAN, interactive : BOOLEAN]
    BY <1>1, <1>2, Zenon DEF BridgeInv, BridgeTypes
  <1>4. CalmInv' /\ calm' \in {"no", "begun", "pass"}
    BY <1>1, CalmIsOver, Zenon
  <1> QED
    BY <1>1, <1>3, <1>4, BridgeCleans, Zenon

\* What every step of the cleanup leaves alone.
LEMMA CleaningIsCalm ==
    ASSUME CalmInv, desk'.shown = desk.shown, desk'.here = desk.here,
           authority' = authority, reported' = reported, calm' = calm,
           bridge'.pc \in {"cleanup", "stopped", "down"}
    PROVE  CalmInv'
  <1>1. bridge'.pc \notin Passing /\ bridge'.pc \notin {"reconcile", "snapshot"}
        /\ bridge'.pc # "dispatch"
    BY SMT DEF Passing
  <1> QED
    BY <1>1, Zenon DEF CalmInv, InSight

\* cleanup_focus_state reads the windows, and lists all that are tagged.
LEMMA BridgeCleanupTags ==
    ASSUME WindowKinds, BridgeInv, Hyprland!CleanupTags
    PROVE  BridgeInv'
  <1> DEFINE r == [exists |-> desk.exists, shown |-> desk.shown, tags |-> tags]
             c == Hyprland!CleanupCommands(r)
             S == {p \in Hyprland!Tags \X desk.exists : p[1] \in tags[p[2]]}
  <1>1. /\ bridge.pc = "cleanup"
        /\ bridge' = [bridge EXCEPT !.todo = bridge.todo \ {"clients"}, !.plan = c]
        /\ desk' = desk /\ tags' = tags /\ keys' = keys /\ reported' = reported
        /\ authority' = authority /\ calm' = calm
    BY Zenon DEF Hyprland!CleanupTags, Hyprland!desktop, Hyprland!memory
  <1>i. BridgeTypes /\ TaggingInv /\ BindingInv /\ CalmInv
    BY Zenon DEF BridgeInv
  <1>2. /\ BridgeShape(bridge) /\ authority \in [game : BOOLEAN, interactive : BOOLEAN]
        /\ calm \in {"no", "begun", "pass"} /\ desk.exists \subseteq Hyprland!Windows
    BY <1>i, Zenon DEF BridgeTypes
  <1>3. r.exists = desk.exists /\ r.tags = tags
    BY SMT
  <1>4. c = Hyprland!Untags(S)
    BY <1>3, Zenon DEF Hyprland!CleanupCommands
  <1> HIDE DEF r, c
  <1>7. S \in SUBSET (Hyprland!Tags \X desk.exists)
    BY Zenon
  <1>9. S \in SUBSET (Hyprland!Tags \X Hyprland!Windows)
    BY <1>2, SMT
  <1>10. \A t \in Hyprland!Tags, w \in desk.exists : t \in tags[w] => <<t, w>> \in S
    BY SMT
  <1> HIDE DEF S
  <1>11. /\ OnlyTakes(c)
         /\ \A t, w : <<t, w>> \in S => \E k \in 1..Len(c) : c[k] = Untagging(t, w)
    BY <1>4, <1>9, UntagsAll, SMT
  <1>12. TakesAll(c, tags)
    <2> SUFFICES ASSUME NEW w \in Hyprland!Windows, NEW t \in Hyprland!Tags, t \in tags[w]
                 PROVE  \E k \in 1..Len(c) : c[k] = Untagging(t, w)
      BY Zenon DEF TakesAll
    <2>1. tags[w] # {}
      BY Zenon
    <2>2. w \in desk.exists
      BY <1>i, <2>1, Zenon DEF TaggingInv
    <2> QED
      BY <1>10, <1>11, <2>2, Zenon
  <1>w. bridge' = WithPlan(WithTodo(bridge, bridge.todo \ {"clients"}), c)
    BY <1>1, Zenon DEF WithTodo, WithPlan
  <1>13. /\ BridgeShape(bridge') /\ bridge'.pc = "cleanup" /\ bridge'.read = bridge.read
         /\ bridge'.todo = bridge.todo \ {"clients"} /\ bridge'.plan = c
         /\ bridge'.failed = bridge.failed
    BY <1>1, <1>2, <1>w, SetsTodoPlan, SMT
  <1>14. BridgeTypes'
    BY <1>i, <1>1, <1>2, <1>13, TypesStay, Zenon
  <1>15. /\ "cleanup" \notin {"focus", "snapshot"} /\ "cleanup" # "dispatch"
         /\ "cleanup" \notin {"stopped", "down"} /\ "cleanup" # "shortcut"
         /\ "cleanup" # "Bind" /\ "cleanup" \in {"cleanup", "stopped", "down"}
         /\ "bindings" # "clients" /\ "unbind" # "clients"
    BY SMT
  <1>16. TaggingInv'
    BY <1>i, <1>1, <1>11, <1>12, <1>13, <1>15, Zenon DEF TaggingInv
  <1>17. BindingInv'
    BY <1>i, <1>1, <1>13, <1>15, Zenon DEF BindingInv
  <1>18. CalmInv'
    BY <1>i, <1>1, <1>13, <1>15, CleaningIsCalm, Zenon
  <1> QED
    BY <1>14, <1>16, <1>17, <1>18, Zenon DEF BridgeInv

\* What a cleanup still has to take, once a command is carried out.
LEMMA RestTakes ==
    ASSUME BridgeTypes, NEW p, OnlyTakes(p), p # <<>>, NEW c, c = Head(p),
           Hyprland!Obey(c), NEW q, q = Tail(p)
    PROVE  /\ OnlyTakes(q) /\ c \in Command
           /\ \A w \in Hyprland!Windows : tags'[w] \subseteq tags[w]
           /\ TakesAll(p, tags) => TakesAll(q, tags')
  <1>1. p \in Seq(Command) /\ \A k \in 1..Len(p) : p[k].do = "-"
    BY Zenon DEF OnlyTakes
  <1>2. /\ q \in Seq(Command) /\ 1 \in 1..Len(p) /\ p[1] = c /\ c \in Command
        /\ \A k \in 1..Len(q) : k + 1 \in 1..Len(p) /\ q[k] = p[k + 1]
        /\ \A k \in 1..Len(p) : k = 1 \/ \E i \in 1..Len(q) : k = i + 1
    <2>1. /\ Tail(p) \in Seq(Command) /\ Len(p) \in Nat /\ Len(Tail(p)) = Len(p) - 1
          /\ 1 \in 1..Len(p) /\ p[1] = Head(p) /\ Head(p) \in Command
          /\ \A k \in 1..Len(Tail(p)) : k + 1 \in 1..Len(p) /\ Tail(p)[k] = p[k + 1]
          /\ \A k \in 1..Len(p) : k = 1 \/ \E i \in 1..Len(Tail(p)) : k = i + 1
      BY <1>1, PlanRest, Zenon
    <2> QED
      BY <2>1, Zenon
  <1>3. OnlyTakes(q)
    BY <1>1, <1>2, ZenonT(30) DEF OnlyTakes
  <1>4. c.do = "-"
    BY <1>1, <1>2, Zenon
  <1>5. c.do # "+"
    BY <1>4, SMT
  <1>6. \A w \in Hyprland!Windows : tags'[w] \subseteq tags[w]
    BY <1>2, <1>5, ObeyedTakes, Zenon
  <1>7. tags'[c.window] = tags[c.window] \ {c.tag}
    BY <1>2, <1>4, BridgeObeyed, Zenon
  <1>8. ASSUME TakesAll(p, tags), NEW w \in Hyprland!Windows, NEW t \in Hyprland!Tags,
               t \in tags'[w]
        PROVE  \E k \in 1..Len(q) : q[k] = Untagging(t, w)
    <2>1. PICK k \in 1..Len(p) : p[k] = Untagging(t, w)
      BY <1>6, <1>8, Zenon DEF TakesAll
    <2>2. p[k].tag = t /\ p[k].window = w
      BY <2>1, SMT DEF Untagging
    <2>3. k # 1
      BY <1>2, <1>7, <1>8, <2>2, Zenon
    <2>4. PICK i \in 1..Len(q) : k = i + 1
      BY <1>2, <2>3, Zenon
    <2> QED
      BY <1>2, <2>1, <2>4, Zenon
  <1>9. TakesAll(p, tags) => TakesAll(q, tags')
    BY <1>8, Zenon DEF TakesAll
  <1> QED
    BY <1>2, <1>3, <1>6, <1>9, Zenon

\* A command of the cleanup takes its tag, or the cleanup is marked as failed.
LEMMA BridgeCleanupDispatch ==
    ASSUME BridgeInv, Hyprland!CleanupDispatch
    PROVE  BridgeInv'
  <1> DEFINE c == Head(bridge.plan)
             rest == Tail(bridge.plan)
  <1>1. /\ bridge.pc = "cleanup" /\ bridge.plan # <<>>
        /\ \/ Hyprland!Obey(c) /\ bridge' = [bridge EXCEPT !.plan = rest]
           \/ /\ bridge' = [bridge EXCEPT !.plan = <<>>, !.failed = TRUE]
              /\ desk' = desk /\ tags' = tags
        /\ keys' = keys /\ reported' = reported /\ authority' = authority /\ calm' = calm
    BY Zenon DEF Hyprland!CleanupDispatch, Hyprland!memory
  <1>i. BridgeTypes /\ TaggingInv /\ BindingInv /\ CalmInv
    BY Zenon DEF BridgeInv
  <1>2. BridgeShape(bridge) /\ authority \in [game : BOOLEAN, interactive : BOOLEAN]
        /\ calm \in {"no", "begun", "pass"}
    BY <1>i, Zenon DEF BridgeTypes
  <1>3. OnlyTakes(bridge.plan)
    BY <1>i, <1>1, Zenon DEF TaggingInv
  <1>4. /\ "cleanup" \notin {"focus", "snapshot"} /\ "cleanup" # "dispatch"
        /\ "cleanup" \notin {"stopped", "down"} /\ "cleanup" # "shortcut"
        /\ "cleanup" # "Bind" /\ "cleanup" \in {"cleanup", "stopped", "down"}
    BY SMT
  <1>5. CASE Hyprland!Obey(c) /\ bridge' = [bridge EXCEPT !.plan = rest]
    <2>1. /\ OnlyTakes(rest) /\ c \in Command
          /\ \A w \in Hyprland!Windows : tags'[w] \subseteq tags[w]
          /\ TakesAll(bridge.plan, tags) => TakesAll(rest, tags')
      BY <1>i, <1>1, <1>3, <1>5, RestTakes, Zenon
    <2>2. \A w \in Hyprland!Windows : tags'[w] # {} => w \in desk'.exists
      BY <1>i, <1>5, <2>1, ObeyedIsThere, Zenon
    <2>3. /\ tags' \in Tagged
          /\ desk' = [exists |-> desk'.exists, shown |-> desk'.shown, here |-> desk'.here,
                      active |-> desk'.active]
          /\ desk'.exists = desk.exists /\ desk'.shown = desk.shown /\ desk'.here = desk.here
      BY <1>i, <1>5, <2>1, BridgeObeyed, Zenon
    <2> HIDE DEF c, rest
    <2>4. /\ BridgeShape(bridge') /\ bridge'.pc = bridge.pc /\ bridge'.read = bridge.read
          /\ bridge'.plan = rest /\ bridge'.todo = bridge.todo /\ bridge'.failed = bridge.failed
      BY <1>2, <1>5, SMT DEF BridgeShape
    <2>5. BridgeTypes'
      BY <1>i, <1>1, <2>3, <2>4, Zenon DEF BridgeTypes
    <2>6. OneCarrier(tags') /\ OverlaysTakeInput(tags')
      BY <1>i, <2>1, FewerTags, Zenon DEF TaggingInv
    <2>7. TaggingInv'
      BY <1>i, <1>1, <1>4, <2>1, <2>2, <2>4, <2>6, Zenon DEF TaggingInv
    <2>8. BindingInv'
      BY <1>i, <1>1, <1>4, <2>4, Zenon DEF BindingInv
    <2>9. CalmInv'
      BY <1>i, <1>1, <1>4, <2>3, <2>4, CleaningIsCalm, Zenon
    <2> QED
      BY <2>5, <2>7, <2>8, <2>9, Zenon DEF BridgeInv
  <1>6. CASE /\ bridge' = [bridge EXCEPT !.plan = <<>>, !.failed = TRUE]
             /\ desk' = desk /\ tags' = tags
    <2>w. \E f : f = TRUE /\ bridge' = WithFailed(WithPlan(bridge, <<>>), f)
      BY <1>6, Zenon DEF WithFailed, WithPlan
    <2>1. /\ BridgeShape(bridge') /\ bridge'.pc = bridge.pc /\ bridge'.read = bridge.read
          /\ bridge'.plan = <<>> /\ bridge'.todo = bridge.todo /\ bridge'.failed = TRUE
      <3>1. PICK f : f = TRUE /\ bridge' = WithFailed(WithPlan(bridge, <<>>), f)
        BY <2>w, Zenon
      <3>2. bridge' = WithFailed(WithPlan(bridge, <<>>), f)
        BY <3>1, Zenon
      <3>3. /\ BridgeShape(bridge') /\ bridge'.pc = bridge.pc /\ bridge'.read = bridge.read
            /\ bridge'.plan = <<>> /\ bridge'.todo = bridge.todo /\ bridge'.failed = f
        BY <1>2, <3>2, SetsPlanFailed, SMT
      <3> QED
        BY <3>1, <3>3, Zenon
    <2>2. OnlyTakes(<<>>)
      BY SMT DEF OnlyTakes
    <2>3. BridgeTypes'
      BY <1>i, <1>1, <1>2, <1>6, <2>1, TypesStay, Zenon
    <2>4. TaggingInv'
      BY <1>i, <1>1, <1>4, <1>6, <2>1, <2>2, Zenon DEF TaggingInv
    <2>5. BindingInv'
      BY <1>i, <1>1, <1>4, <2>1, Zenon DEF BindingInv
    <2>6. CalmInv'
      BY <1>i, <1>1, <1>4, <1>6, <2>1, CleaningIsCalm, Zenon
    <2> QED
      BY <2>3, <2>4, <2>5, <2>6, Zenon DEF BridgeInv
  <1> QED
    BY <1>1, <1>5, <1>6, Zenon

\* cleanup_shortcut_state: the binding it finds alone is the one it takes.
LEMMA BridgeCleanupKeys ==
    ASSUME BridgeInv, Hyprland!CleanupKeys
    PROVE  BridgeInv'
  <1> DEFINE a == [bridge.read EXCEPT !.keys = keys]
             alone == keys.own + keys.legacy = 1 /\ keys.foreign = 0
             t == (bridge.todo \ {"bindings"}) \cup (IF alone THEN {"unbind"} ELSE {})
  <1>1. /\ bridge.pc = "cleanup" /\ bridge' = [bridge EXCEPT !.read = a, !.todo = t]
        /\ desk' = desk /\ tags' = tags /\ keys' = keys /\ reported' = reported
        /\ authority' = authority /\ calm' = calm
    BY Zenon DEF Hyprland!CleanupKeys, Hyprland!desktop, Hyprland!memory
  <1>i. BridgeTypes /\ TaggingInv /\ BindingInv /\ CalmInv
    BY Zenon DEF BridgeInv
  <1>2. BridgeShape(bridge) /\ ReadShape(bridge.read)
    BY <1>i, Zenon DEF BridgeTypes
  <1>3. /\ ReadShape(a) /\ a.exists = bridge.read.exists /\ a.tags = bridge.read.tags
        /\ a.keys = keys
    BY <1>2, SMT DEF ReadShape
  <1>4. "clients" \notin t => "clients" \notin bridge.todo
    BY SMT
  <1>5. alone => "unbind" \in t
    BY Zenon
  <1> HIDE DEF a, t
  <1>w. bridge' = WithTodo(WithRead(bridge, a), t)
    BY <1>1, Zenon DEF WithRead, WithTodo
  <1>6. /\ BridgeShape(bridge') /\ bridge'.pc = bridge.pc /\ bridge'.read = a
        /\ bridge'.plan = bridge.plan /\ bridge'.todo = t /\ bridge'.failed = bridge.failed
    BY <1>2, <1>w, SetsReadTodo, SMT
  <1>7. BridgeTypes'
    BY <1>i, <1>1, <1>3, <1>6, Zenon DEF BridgeTypes
  <1>8. /\ "cleanup" \notin {"focus", "snapshot"} /\ "cleanup" # "dispatch"
        /\ "cleanup" \notin {"stopped", "down"} /\ "cleanup" # "shortcut"
        /\ "cleanup" # "Bind" /\ "cleanup" \in {"cleanup", "stopped", "down"}
    BY SMT
  <1>9. TaggingInv'
    BY <1>i, <1>1, <1>4, <1>6, <1>8, Zenon DEF TaggingInv
  <1>10. BindingInv'
    BY <1>i, <1>1, <1>3, <1>5, <1>6, <1>8, Zenon DEF BindingInv
  <1>11. CalmInv'
    BY <1>i, <1>1, <1>6, <1>8, CleaningIsCalm, Zenon
  <1> QED
    BY <1>7, <1>9, <1>10, <1>11, Zenon DEF BridgeInv

\* Unbinding the accelerator leaves no binding of it.
LEMMA NoBindings ==
    ASSUME keys' = Hyprland!NoRead.keys
    PROVE  keys' \in Bindings /\ keys'.own + keys'.legacy = 0 /\ keys'.own + keys'.legacy <= 1
  <1>1. keys' = [own |-> 0, legacy |-> 0, foreign |-> 0]
    BY SMT DEF Hyprland!NoRead
  <1> QED
    BY <1>1, SMT DEF Bindings

\* The unbinding of the cleanup.
LEMMA BridgeCleanupUnbind ==
    ASSUME BridgeInv, Hyprland!CleanupUnbind
    PROVE  BridgeInv'
  <1>1. /\ bridge.pc = "cleanup" /\ keys' = Hyprland!NoRead.keys
        /\ bridge' = [bridge EXCEPT !.todo = bridge.todo \ {"unbind"}]
        /\ desk' = desk /\ tags' = tags /\ reported' = reported
        /\ authority' = authority /\ calm' = calm
    BY Zenon DEF Hyprland!CleanupUnbind, Hyprland!memory
  <1>i. BridgeTypes /\ TaggingInv /\ BindingInv /\ CalmInv
    BY Zenon DEF BridgeInv
  <1>2. BridgeShape(bridge)
    BY <1>i, Zenon DEF BridgeTypes
  <1>3. /\ BridgeShape(bridge') /\ bridge'.pc = bridge.pc /\ bridge'.read = bridge.read
        /\ bridge'.plan = bridge.plan /\ bridge'.todo = bridge.todo \ {"unbind"}
        /\ bridge'.failed = bridge.failed
    BY <1>1, <1>2, SMT DEF BridgeShape
  <1>4. keys' \in Bindings /\ keys'.own + keys'.legacy = 0 /\ keys'.own + keys'.legacy <= 1
    BY <1>1, NoBindings, Zenon
  <1>5. BridgeTypes'
    BY <1>i, <1>1, <1>3, <1>4, Zenon DEF BridgeTypes
  <1>6. /\ "cleanup" \notin {"focus", "snapshot"} /\ "cleanup" # "dispatch"
        /\ "cleanup" \notin {"stopped", "down"} /\ "cleanup" # "shortcut"
        /\ "cleanup" # "Bind" /\ "cleanup" \in {"cleanup", "stopped", "down"}
        /\ "clients" # "unbind"
    BY SMT
  <1>7. TaggingInv'
    BY <1>i, <1>1, <1>3, <1>6, Zenon DEF TaggingInv
  <1>8. BindingInv'
    BY <1>1, <1>3, <1>4, <1>6, Zenon DEF BindingInv
  <1>9. CalmInv'
    BY <1>i, <1>1, <1>3, <1>6, CleaningIsCalm, Zenon
  <1> QED
    BY <1>5, <1>7, <1>8, <1>9, Zenon DEF BridgeInv

\* A query or an unbinding of the cleanup that fails marks it as failed.
LEMMA BridgeCleanupFails ==
    ASSUME BridgeInv, Hyprland!CleanupFails
    PROVE  BridgeInv'
  <1>1. /\ bridge.pc = "cleanup"
        /\ \/ bridge' = [bridge EXCEPT !.todo = bridge.todo \ {"clients"}, !.plan = <<>>,
                                       !.failed = TRUE]
           \/ bridge' = [bridge EXCEPT !.todo = bridge.todo \ {"bindings", "unbind"},
                                       !.failed = TRUE]
        /\ desk' = desk /\ tags' = tags /\ keys' = keys /\ reported' = reported
        /\ authority' = authority /\ calm' = calm
    BY Zenon DEF Hyprland!CleanupFails, Hyprland!desktop, Hyprland!memory
  <1>i. BridgeTypes /\ TaggingInv /\ BindingInv /\ CalmInv
    BY Zenon DEF BridgeInv
  <1>2. BridgeShape(bridge) /\ authority \in [game : BOOLEAN, interactive : BOOLEAN]
        /\ calm \in {"no", "begun", "pass"}
    BY <1>i, Zenon DEF BridgeTypes
  <1>w. \E f : f = TRUE /\
          \/ bridge' = WithFailed(WithPlan(WithTodo(bridge, bridge.todo \ {"clients"}), <<>>), f)
          \/ bridge' = WithFailed(WithTodo(bridge, bridge.todo \ {"bindings", "unbind"}), f)
    BY <1>1, Zenon DEF WithTodo, WithPlan, WithFailed
  <1>3. /\ BridgeShape(bridge') /\ bridge'.pc = bridge.pc /\ bridge'.read = bridge.read
        /\ bridge'.plan = <<>> \/ bridge'.plan = bridge.plan
        /\ bridge'.failed = TRUE
    <2>1. PICK f : f = TRUE /\
            \/ bridge' = WithFailed(WithPlan(WithTodo(bridge, bridge.todo \ {"clients"}), <<>>), f)
            \/ bridge' = WithFailed(WithTodo(bridge, bridge.todo \ {"bindings", "unbind"}), f)
      BY <1>w, Zenon
    <2>2. ASSUME bridge' = WithFailed(WithPlan(WithTodo(bridge, bridge.todo \ {"clients"}), <<>>), f)
          PROVE  /\ BridgeShape(bridge') /\ bridge'.pc = bridge.pc /\ bridge'.read = bridge.read
                 /\ bridge'.plan = <<>> /\ bridge'.failed = f
      BY <1>2, <2>2, SetsTodoPlanFailed, SMT
    <2>3. ASSUME bridge' = WithFailed(WithTodo(bridge, bridge.todo \ {"bindings", "unbind"}), f)
          PROVE  /\ BridgeShape(bridge') /\ bridge'.pc = bridge.pc /\ bridge'.read = bridge.read
                 /\ bridge'.plan = bridge.plan /\ bridge'.failed = f
      BY <1>2, <2>3, SetsTodoFailed, SMT
    <2> QED
      BY <2>1, <2>2, <2>3, Zenon
  <1>4. BridgeTypes'
    BY <1>i, <1>1, <1>2, <1>3, TypesStay, Zenon
  <1>5. /\ "cleanup" \notin {"focus", "snapshot"} /\ "cleanup" # "dispatch"
        /\ "cleanup" \notin {"stopped", "down"} /\ "cleanup" # "shortcut"
        /\ "cleanup" # "Bind" /\ "cleanup" \in {"cleanup", "stopped", "down"}
    BY SMT
  <1>6. OnlyTakes(<<>>)
    BY SMT DEF OnlyTakes
  <1>7. TaggingInv'
    BY <1>i, <1>1, <1>3, <1>5, <1>6, Zenon DEF TaggingInv
  <1>8. BindingInv'
    BY <1>i, <1>1, <1>3, <1>5, Zenon DEF BindingInv
  <1>9. CalmInv'
    BY <1>i, <1>1, <1>3, <1>5, CleaningIsCalm, Zenon
  <1> QED
    BY <1>4, <1>7, <1>8, <1>9, Zenon DEF BridgeInv

\* The process has ended: cleanly only with no tag left, and not the binding it saw.
LEMMA BridgeCleanedUp ==
    ASSUME BridgeInv, Hyprland!CleanedUp
    PROVE  BridgeInv'
  <1> DEFINE p == IF bridge.stop THEN "stopped" ELSE "down"
  <1>1. /\ bridge.pc = "cleanup" /\ bridge.todo = {} /\ bridge.plan = <<>>
        /\ \/ bridge' = [bridge EXCEPT !.pc = p] \/ bridge' = Hyprland!Cleanup(FALSE, TRUE)
        /\ desk' = desk /\ tags' = tags /\ keys' = keys /\ reported' = reported
        /\ authority' = authority /\ calm' = calm
    BY Zenon DEF Hyprland!CleanedUp, Hyprland!desktop, Hyprland!memory
  <1>i. BridgeTypes /\ TaggingInv /\ BindingInv /\ CalmInv
    BY Zenon DEF BridgeInv
  <1>2. BridgeShape(bridge) /\ authority \in [game : BOOLEAN, interactive : BOOLEAN]
        /\ calm \in {"no", "begun", "pass"}
    BY <1>i, Zenon DEF BridgeTypes
  <1>3. CASE bridge' = [bridge EXCEPT !.pc = p]
    <2>1. p \in {"stopped", "down"}
      BY Zenon
    <2> HIDE DEF p
    <2>2. /\ BridgeShape(bridge') /\ bridge'.pc = p /\ bridge'.read = bridge.read
          /\ bridge'.todo = bridge.todo /\ bridge'.failed = bridge.failed
      BY <1>2, <1>3, SMT DEF BridgeShape
    <2>3. BridgeTypes'
      BY <1>i, <1>1, <1>2, <2>2, TypesStay, Zenon
    <2>4. /\ p \notin {"focus", "snapshot"} /\ p # "dispatch" /\ p # "cleanup"
          /\ p # "shortcut" /\ p # "Bind" /\ p \in {"cleanup", "stopped", "down"}
      BY <2>1, SMT
    <2>5. ~bridge.failed => \A w \in Hyprland!Windows : tags[w] = {}
      <3> SUFFICES ASSUME ~bridge.failed, NEW w \in Hyprland!Windows, NEW t, t \in tags[w]
                   PROVE  FALSE
        BY Zenon
      <3>1. TakesAll(bridge.plan, tags)
        BY <1>i, <1>1, Zenon DEF TaggingInv
      <3>2. t \in Hyprland!Tags
        BY <1>i, Zenon DEF BridgeTypes, Tagged
      <3>3. \E k \in 1..Len(bridge.plan) : bridge.plan[k] = Untagging(t, w)
        BY <3>1, <3>2, Zenon DEF TakesAll
      <3>4. 1..Len(<<>>) = {}
        BY SMT
      <3> QED
        BY <1>1, <3>3, <3>4, Zenon
    <2>6. TaggingInv'
      BY <1>i, <1>1, <2>2, <2>4, <2>5, Zenon DEF TaggingInv
    <2>7. BindingInv'
      <3>1. bridge.pc \in {"cleanup", "stopped", "down"}
        BY <1>1, Zenon
      <3> QED
        BY <1>i, <1>1, <2>2, <2>4, <3>1, Zenon DEF BindingInv
    <2>8. CalmInv'
      BY <1>i, <1>1, <2>2, <2>4, CleaningIsCalm, Zenon
    <2> QED
      BY <2>3, <2>6, <2>7, <2>8, Zenon DEF BridgeInv
  <1>4. CASE bridge' = Hyprland!Cleanup(FALSE, TRUE)
    <2>1. bridge'.pc = "cleanup"
      <3> DEFINE r == Hyprland!NewRun
      <3>1. BridgeShape(r)
        BY NewBridge, Zenon
      <3>2. \E x, y : bridge' = WithPost(WithStop(WithTodo(WithPc(r, "cleanup"),
                                                          {"clients", "bindings"}), x), y)
        BY <1>4, Zenon DEF Hyprland!Cleanup, WithPost, WithStop, WithTodo, WithPc
      <3> HIDE DEF r
      <3> QED
        BY <3>1, <3>2, SetsPcTodoStopPost, SMT
    <2>2. bridge'.pc \in {"cleanup", "stopped", "down"}
      BY <2>1, Zenon
    <2>3. CalmInv'
      BY <1>i, <1>1, <2>2, CleaningIsCalm, Zenon
    <2> QED
      BY <1>1, <1>2, <1>4, <2>3, BridgeCleans, ZenonT(30)
  <1> QED
    BY <1>1, <1>3, <1>4, Zenon

\* systemd starts the bridge again.
LEMMA BridgeRestart ==
    ASSUME BridgeInv, Hyprland!Restart
    PROVE  BridgeInv'
  <1>1. /\ bridge' = Hyprland!NewRun /\ calm' = "no" /\ authority' = authority
        /\ desk' = desk /\ tags' = tags /\ keys' = keys
    BY Zenon DEF Hyprland!Restart, Hyprland!desktop
  <1>i. BridgeTypes /\ TaggingInv /\ BindingInv /\ CalmInv
    BY Zenon DEF BridgeInv
  <1>3. BridgeShape(bridge') /\ bridge'.pc = "idle" /\ bridge'.read = Hyprland!NoRead
    BY <1>1, NewBridge, Zenon
  <1>4. "idle" \notin Tagging /\ "idle" \notin BindPlaces
    BY SMT DEF Tagging, BindPlaces
  <1>5. authority \in [game : BOOLEAN, interactive : BOOLEAN] /\ calm' \in {"no", "begun", "pass"}
    BY <1>i, <1>1, Zenon DEF BridgeTypes
  <1>6. BridgeTypes'
    BY <1>i, <1>1, <1>3, <1>5, TypesStay, Zenon
  <1>7. TaggingInv' /\ BindingInv' /\ CalmInv'
    BY <1>i, <1>1, <1>3, <1>4, TaggingElsewhere, BindingElsewhere, CalmIsOver, Zenon
  <1> QED
    BY <1>6, <1>7, Zenon DEF BridgeInv

------------------------------------------------------------------------------
(* The user, the desktop and Core.                                         *)

\* The windows move, come and go: a tag goes with its window.
LEMMA DesktopMoves ==
    ASSUME BridgeInv, NEW d, Hyprland!Desktop(d), d.exists \subseteq Hyprland!Windows,
           d = [exists |-> d.exists, shown |-> d.shown, here |-> d.here, active |-> d.active]
    PROVE  BridgeInv'
  <1>1. /\ desk' = d /\ tags' = [w \in Hyprland!Windows |-> IF w \in d.exists THEN tags[w] ELSE {}]
        /\ calm' = IF Hyprland!Steady(d) THEN calm ELSE "no"
        /\ keys' = keys /\ authority' = authority /\ bridge' = bridge /\ reported' = reported
    BY Zenon DEF Hyprland!Desktop
  <1>i. BridgeTypes /\ TaggingInv /\ BindingInv /\ CalmInv
    BY Zenon DEF BridgeInv
  <1>2. tags \in Tagged /\ calm \in {"no", "begun", "pass"}
    BY <1>i, Zenon DEF BridgeTypes
  <1>3. /\ tags' \in Tagged /\ \A w \in Hyprland!Windows : tags'[w] \subseteq tags[w]
        /\ \A w \in Hyprland!Windows : tags'[w] # {} => w \in d.exists
    BY <1>1, <1>2, Zenon DEF Tagged
  <1>4. calm' \in {"no", "begun", "pass"}
    BY <1>1, <1>2, Zenon
  <1>5. BridgeTypes'
    BY <1>i, <1>1, <1>3, <1>4, Zenon DEF BridgeTypes
  <1>6. TaggingInv'
    <2>1. OneCarrier(tags') /\ OverlaysTakeInput(tags')
      BY <1>i, <1>3, FewerTags, Zenon DEF TaggingInv
    <2>2. /\ \A r : StillRead(r, tags) => StillRead(r, tags')
          /\ \A p : Retags(p, tags) => Retags(p, tags')
          /\ \A p : TakesAll(p, tags) => TakesAll(p, tags')
      BY <1>3, FewerTags, Zenon
    <2>3. (\A w \in Hyprland!Windows : tags[w] = {}) => \A w \in Hyprland!Windows : tags'[w] = {}
      BY <1>3, Zenon
    <2> QED
      BY <1>i, <1>1, <1>3, <2>1, <2>2, <2>3, Zenon DEF TaggingInv
  <1>7. BindingInv'
    BY <1>i, <1>1, BindingStays, Zenon
  <1>8. CalmInv'
    <2>1. CASE calm' = "no"
      BY <2>1, CalmIsOver, Zenon
    <2>2. CASE calm' # "no"
      <3>1. calm' = calm /\ InSight(d)
        BY <1>1, <2>2, SteadyInSight, Zenon
      <3> QED
        BY <1>i, <1>1, <3>1, Zenon DEF CalmInv, InSight
    <2> QED
      BY <2>1, <2>2, Zenon
  <1> QED
    BY <1>5, <1>6, <1>7, <1>8, Zenon DEF BridgeInv

\* Whatever the desktop does with its windows, tags and bindings are as they should be.
LEMMA DesktopSteps ==
    ASSUME BridgeInv, \/ Hyprland!MoveFocus \/ Hyprland!ShowHide \/ Hyprland!OpenClose
                      \/ Hyprland!SwitchWorkspace
    PROVE  BridgeInv'
  <1>1. /\ desk = [exists |-> desk.exists, shown |-> desk.shown, here |-> desk.here,
                   active |-> desk.active]
        /\ desk.exists \subseteq Hyprland!Windows
    BY Zenon DEF BridgeInv, BridgeTypes
  <1>2. \/ \E a : Hyprland!Desktop([desk EXCEPT !.active = a])
        \/ \E s, a : Hyprland!Desktop([desk EXCEPT !.shown = s, !.active = a])
        \/ \E e \in SUBSET Hyprland!Windows : \E s, a :
             Hyprland!Desktop([desk EXCEPT !.exists = e, !.shown = s, !.active = a])
        \/ \E h : Hyprland!Desktop([desk EXCEPT !.here = h])
    <2>1. CASE Hyprland!MoveFocus
      BY <2>1, Zenon DEF Hyprland!MoveFocus
    <2>2. CASE Hyprland!ShowHide
      BY <2>2, Zenon DEF Hyprland!ShowHide
    <2>3. CASE Hyprland!OpenClose
      <3>1. PICK w \in Hyprland!Windows :
              Hyprland!Desktop([desk EXCEPT
                !.exists = IF w \in desk.exists THEN desk.exists \ {w} ELSE desk.exists \cup {w},
                !.shown = IF w \in desk.exists THEN desk.shown \ {w} ELSE desk.shown \cup {w},
                !.active = IF w \in desk.exists /\ desk.active = w THEN None ELSE desk.active])
        BY <2>3, Zenon DEF Hyprland!OpenClose
      <3>2. (IF w \in desk.exists THEN desk.exists \ {w} ELSE desk.exists \cup {w})
              \in SUBSET Hyprland!Windows
        BY <1>1, Zenon
      <3> QED
        BY <3>1, <3>2, Zenon
    <2>4. CASE Hyprland!SwitchWorkspace
      BY <2>4, Zenon DEF Hyprland!SwitchWorkspace
    <2> QED
      BY <2>1, <2>2, <2>3, <2>4, Zenon
  <1>3. \E d : /\ Hyprland!Desktop(d) /\ d.exists \subseteq Hyprland!Windows
               /\ d = [exists |-> d.exists, shown |-> d.shown, here |-> d.here,
                       active |-> d.active]
    <2>1. ASSUME NEW a, Hyprland!Desktop([desk EXCEPT !.active = a]) PROVE <1>3
      <3> DEFINE d == [desk EXCEPT !.active = a]
      <3>1. /\ d.exists \subseteq Hyprland!Windows
            /\ d = [exists |-> d.exists, shown |-> d.shown, here |-> d.here, active |-> d.active]
        BY <1>1, SMT
      <3> QED
        BY <2>1, <3>1, Zenon
    <2>2. ASSUME NEW s, NEW a, Hyprland!Desktop([desk EXCEPT !.shown = s, !.active = a])
          PROVE <1>3
      <3> DEFINE c == [desk EXCEPT !.shown = s]
                 d == [c EXCEPT !.active = a]
      <3>0. /\ c.exists = desk.exists
            /\ c = [exists |-> c.exists, shown |-> c.shown, here |-> c.here, active |-> c.active]
        BY <1>1, SMT
      <3>2. Hyprland!Desktop(d)
        BY <2>2, Zenon
      <3> HIDE DEF c
      <3>1. /\ d.exists \subseteq Hyprland!Windows
            /\ d = [exists |-> d.exists, shown |-> d.shown, here |-> d.here, active |-> d.active]
        BY <1>1, <3>0, SMT
      <3> HIDE DEF d
      <3> QED
        BY <3>1, <3>2, Zenon
    <2>3. ASSUME NEW e \in SUBSET Hyprland!Windows, NEW s, NEW a,
                 Hyprland!Desktop([desk EXCEPT !.exists = e, !.shown = s, !.active = a])
          PROVE <1>3
      <3> DEFINE b == [desk EXCEPT !.exists = e]
                 c == [b EXCEPT !.shown = s]
                 d == [c EXCEPT !.active = a]
      <3>0. /\ b.exists = e
            /\ b = [exists |-> b.exists, shown |-> b.shown, here |-> b.here, active |-> b.active]
        BY <1>1, SMT
      <3>2. Hyprland!Desktop(d)
        BY <2>3, Zenon
      <3> HIDE DEF b
      <3>3. /\ c.exists = e
            /\ c = [exists |-> c.exists, shown |-> c.shown, here |-> c.here, active |-> c.active]
        BY <3>0, SMT
      <3> HIDE DEF c
      <3>1. /\ d.exists \subseteq Hyprland!Windows
            /\ d = [exists |-> d.exists, shown |-> d.shown, here |-> d.here, active |-> d.active]
        BY <3>3, SMT
      <3> HIDE DEF d
      <3> QED
        BY <3>1, <3>2, Zenon
    <2>4. ASSUME NEW h, Hyprland!Desktop([desk EXCEPT !.here = h]) PROVE <1>3
      <3> DEFINE d == [desk EXCEPT !.here = h]
      <3>1. /\ d.exists \subseteq Hyprland!Windows
            /\ d = [exists |-> d.exists, shown |-> d.shown, here |-> d.here, active |-> d.active]
        BY <1>1, SMT
      <3> QED
        BY <2>4, <3>1, Zenon
    <2> QED
      BY <1>2, <2>1, <2>2, <2>3, <2>4, Zenon
  <1> QED
    BY <1>3, DesktopMoves, Zenon

\* The shortcut, and the end of a lease, in Core.
LEMMA CoreSteps ==
    ASSUME BridgeInv, Hyprland!Toggle \/ Hyprland!Expire
    PROVE  BridgeInv'
  <1>1. /\ \/ /\ authority.game
              /\ authority' = [authority EXCEPT !.interactive = ~authority.interactive]
              /\ calm' = IF authority'.interactive /\ Hyprland!Steady(desk) THEN "begun" ELSE "no"
           \/ authority' = Hyprland!NoCore /\ calm' = "no"
        /\ desk' = desk /\ tags' = tags /\ keys' = keys /\ bridge' = bridge
        /\ reported' = reported
    BY Zenon DEF Hyprland!Toggle, Hyprland!Expire, Hyprland!desktop, Hyprland!memory
  <1>i. BridgeTypes /\ TaggingInv /\ BindingInv /\ CalmInv
    BY Zenon DEF BridgeInv
  <1>2. authority \in [game : BOOLEAN, interactive : BOOLEAN]
    BY <1>i, Zenon DEF BridgeTypes
  <1>3. /\ authority' \in [game : BOOLEAN, interactive : BOOLEAN]
        /\ calm' = "no" \/ authority'.game
    <2>1. \/ /\ authority.game
             /\ authority' = [authority EXCEPT !.interactive = ~authority.interactive]
          \/ authority' = [game |-> FALSE, interactive |-> FALSE] /\ calm' = "no"
      BY <1>1, Zenon DEF Hyprland!NoCore
    <2>2. authority' \in [game : BOOLEAN, interactive : BOOLEAN]
      BY <1>2, <2>1, CoreAnswers, Zenon
    <2>3. ASSUME authority' = [authority EXCEPT !.interactive = ~authority.interactive]
          PROVE  authority'.game = authority.game
      BY <1>2, <2>3, SMT
    <2> QED
      BY <2>1, <2>2, <2>3, Zenon
  <1>4. calm' \in {"no", "begun"}
        /\ (calm' # "no" => authority'.interactive /\ Hyprland!Steady(desk))
    BY <1>1, Zenon
  <1>5. calm' # "pass" /\ calm' \in {"no", "begun", "pass"}
    BY <1>4, SMT
  <1>6. BridgeTypes'
    BY <1>i, <1>1, <1>3, <1>5, Zenon DEF BridgeTypes
  <1>7. TaggingInv' /\ BindingInv'
    BY <1>i, <1>1, TaggingStays, BindingStays, Zenon
  <1>8. CalmInv'
    <2>1. calm' # "no" => authority'.game /\ authority'.interactive /\ InSight(desk)
      BY <1>3, <1>4, SteadyInSight, Zenon
    <2> QED
      BY <1>1, <1>5, <2>1, Zenon DEF CalmInv, InSight
  <1> QED
    BY <1>6, <1>7, <1>8, Zenon DEF BridgeInv

\* The user's own bindings and a reloaded configuration never add one of the bridge's.
LEMMA KeySteps ==
    ASSUME BridgeInv, Hyprland!ForeignKeys
    PROVE  BridgeInv'
  <1>1. /\ \/ keys' = [keys EXCEPT !.foreign = 1 - keys.foreign]
           \/ \E n \in 0..1 : keys' = [own |-> 0, legacy |-> 0, foreign |-> n]
           \/ keys' = keys
        /\ desk' = desk /\ tags' = tags /\ bridge' = bridge /\ authority' = authority
        /\ reported' = reported /\ calm' = calm
    BY Zenon DEF Hyprland!ForeignKeys
  <1>i. BridgeTypes /\ TaggingInv /\ BindingInv /\ CalmInv
    BY Zenon DEF BridgeInv
  <1>2. keys \in Bindings
    BY <1>i, Zenon DEF BridgeTypes
  <1>3. /\ keys' \in Bindings
        /\ keys'.own + keys'.legacy = 0 \/ keys'.own + keys'.legacy = keys.own + keys.legacy
    BY <1>1, <1>2, SMT DEF Bindings
  <1>4. BridgeTypes'
    BY <1>i, <1>1, <1>3, Zenon DEF BridgeTypes
  <1>5. TaggingInv'
    BY <1>i, <1>1, TaggingStays, Zenon
  <1>6. BindingInv'
    <2>1. CASE keys'.own + keys'.legacy = keys.own + keys.legacy
      BY <1>i, <1>1, <2>1, Zenon DEF BindingInv
    <2>2. CASE keys'.own + keys'.legacy = 0
      <3>1. 0 <= 1
        BY SMT
      <3>2. bridge.read.keys \in Bindings
        BY <1>i, Zenon DEF BridgeTypes
      <3>3. 0 <= bridge.read.keys.own + bridge.read.keys.legacy
        BY <3>2, SMT DEF Bindings
      <3> QED
        BY <1>i, <1>1, <2>2, <3>1, <3>3, ZenonT(30) DEF BindingInv
    <2> QED
      BY <1>3, <2>1, <2>2, Zenon
  <1>7. CalmInv'
    BY <1>i, <1>1, Zenon DEF CalmInv, InSight
  <1> QED
    BY <1>4, <1>5, <1>6, <1>7, Zenon DEF BridgeInv

------------------------------------------------------------------------------
(* The theorems.                                                           *)

\* A bridge that starts on a desktop without tags and bindings of its own.
LEMMA BridgeInit == ASSUME Hyprland!Init PROVE BridgeInv
  <1>1. /\ desk = [exists |-> Hyprland!Windows, shown |-> desk.shown, here |-> desk.here,
                   active |-> desk.active]
        /\ desk.exists = Hyprland!Windows
    BY SMT DEF Hyprland!Init
  <1>2. /\ tags = [w \in Hyprland!Windows |-> {}] /\ keys = Hyprland!NoRead.keys
        /\ authority = Hyprland!NoCore /\ bridge = Hyprland!NewRun /\ calm = "no"
    BY Zenon DEF Hyprland!Init
  <1> DEFINE none == Hyprland!NoRead
  <1>3. bridge = [pc |-> "idle", todo |-> {}, read |-> none, plan |-> <<>>,
                  latest |-> FALSE, keepalive |-> FALSE, failed |-> FALSE,
                  stop |-> FALSE, post |-> FALSE]
    BY <1>2, Zenon DEF Hyprland!NewRun
  <1>4. /\ ReadShape(none) /\ none.exists \subseteq Hyprland!Windows /\ none.tags \in Tagged
        /\ none.keys \in Bindings
    BY NothingRead, Zenon
  <1>5. Hyprland!NoRead.keys = [own |-> 0, legacy |-> 0, foreign |-> 0]
    BY SMT DEF Hyprland!NoRead
  <1> HIDE DEF none
  <1>6. BridgeShape(bridge) /\ bridge.read = none /\ bridge.pc = "idle"
    BY <1>3, SMT DEF BridgeShape
  <1>7. tags \in Tagged /\ \A w \in Hyprland!Windows : tags[w] = {}
    BY <1>2, Zenon DEF Tagged
  <1>8. authority \in [game : BOOLEAN, interactive : BOOLEAN]
    BY <1>2, SMT DEF Hyprland!NoCore
  <1>9. keys \in Bindings /\ keys.own + keys.legacy <= 1
    BY <1>2, <1>5, SMT DEF Bindings
  <1>10. BridgeTypes
    BY <1>1, <1>2, <1>4, <1>6, <1>7, <1>8, <1>9, ZenonT(30) DEF BridgeTypes
  <1>11. /\ bridge.pc \notin {"focus", "snapshot"} /\ bridge.pc # "dispatch"
         /\ bridge.pc # "cleanup" /\ bridge.pc \notin {"stopped", "down"}
         /\ bridge.pc # "shortcut" /\ bridge.pc # "Bind"
         /\ bridge.pc \notin {"cleanup", "stopped", "down"}
    BY <1>6, SMT
  <1>12. OneCarrier(tags) /\ OverlaysTakeInput(tags)
    BY <1>7, Zenon DEF OneCarrier, OverlaysTakeInput, Hyprland!Windows
  <1>13. TaggingInv
    BY <1>7, <1>11, <1>12, Zenon DEF TaggingInv
  <1>14. BindingInv
    BY <1>9, <1>11, Zenon DEF BindingInv
  <1>15. CalmInv
    BY <1>2, Zenon DEF CalmInv
  <1> QED
    BY <1>10, <1>13, <1>14, <1>15, ZenonT(30) DEF BridgeInv

\* Every step of the bridge, the desktop, the user and Core keeps the invariant.
LEMMA BridgeStep ==
    ASSUME WindowKinds, BridgeInv, [Hyprland!Next]_(Hyprland!vars)
    PROVE  BridgeInv'
  <1>1. CASE Hyprland!Bridge
    <2>1. CASE Hyprland!KeepaliveTick \/ Hyprland!DebounceTick \/ Hyprland!FocusTick
      BY <2>1, BridgeTicks, Zenon
    <2>2. CASE Hyprland!ReadEvent
      <3>1. /\ desk' = desk /\ tags' = tags /\ keys' = keys /\ bridge' = bridge
            /\ authority' = authority /\ reported' = reported /\ calm' = calm
        BY <2>2, Zenon DEF Hyprland!ReadEvent, Hyprland!desktop
      <3> QED
        BY <3>1, BridgeStays, Zenon
    <2>3. CASE \E q \in {"active", "clients", "core", "globals", "bindings"} : Hyprland!Query(q)
      BY <2>3, BridgeQuery, Zenon
    <2>4. CASE Hyprland!Reconcile
      BY <2>4, BridgeReconcile, Zenon
    <2>5. CASE Hyprland!Report
      BY <2>5, BridgeReport, Zenon
    <2>6. CASE Hyprland!AskSnapshot
      BY <2>6, BridgeAskSnapshot, Zenon
    <2>7. CASE Hyprland!PlanFocus
      BY <2>7, BridgePlanFocus, Zenon
    <2>8. CASE Hyprland!Dispatch
      BY <2>8, BridgeDispatch, Zenon
    <2>9. CASE Hyprland!Dispatched
      BY <2>9, BridgeDispatched, Zenon
    <2>10. CASE Hyprland!Probe
      BY <2>10, BridgeProbe, Zenon
    <2>11. CASE Hyprland!PlanShortcut
      BY <2>11, BridgePlanShortcut, Zenon
    <2>12. CASE Hyprland!Bind \/ Hyprland!Unbind
      BY <2>12, BridgeBinds, Zenon
    <2> QED
      BY <1>1, <2>1, <2>2, <2>3, <2>4, <2>5, <2>6, <2>7, <2>8, <2>9, <2>10, <2>11, <2>12, ZenonT(30)
         DEF Hyprland!Bridge
  <1>2. CASE Hyprland!Fail \/ \E stopped \in BOOLEAN : Hyprland!Kill(stopped)
    BY <1>2, BridgeEnds, Zenon
  <1>3. CASE Hyprland!CleanupTags
    BY <1>3, BridgeCleanupTags, Zenon
  <1>4. CASE Hyprland!CleanupDispatch
    BY <1>4, BridgeCleanupDispatch, Zenon
  <1>5. CASE Hyprland!CleanupKeys
    BY <1>5, BridgeCleanupKeys, Zenon
  <1>6. CASE Hyprland!CleanupUnbind
    BY <1>6, BridgeCleanupUnbind, Zenon
  <1>7. CASE Hyprland!CleanupFails
    BY <1>7, BridgeCleanupFails, Zenon
  <1>8. CASE Hyprland!CleanedUp
    BY <1>8, BridgeCleanedUp, Zenon
  <1>9. CASE Hyprland!Restart
    BY <1>9, BridgeRestart, Zenon
  <1>10. CASE \/ Hyprland!MoveFocus \/ Hyprland!ShowHide \/ Hyprland!OpenClose
              \/ Hyprland!SwitchWorkspace
    BY <1>10, DesktopSteps, Zenon
  <1>11. CASE Hyprland!Toggle \/ Hyprland!Expire
    BY <1>11, CoreSteps, Zenon
  <1>12. CASE Hyprland!ForeignKeys
    BY <1>12, KeySteps, Zenon
  <1>13. CASE UNCHANGED Hyprland!vars
    <2>1. /\ desk' = desk /\ tags' = tags /\ keys' = keys /\ bridge' = bridge
          /\ authority' = authority /\ reported' = reported /\ calm' = calm
      BY <1>13, Zenon DEF Hyprland!vars
    <2> QED
      BY <2>1, BridgeStays, Zenon
  <1> QED
    BY <1>1, <1>2, <1>3, <1>4, <1>5, <1>6, <1>7, <1>8, <1>9, <1>10, <1>11, <1>12, <1>13, ZenonT(30)
       DEF Hyprland!Next

\* What the runs check follows.
LEMMA BridgeTidy == ASSUME BridgeInv PROVE BridgeIsTidy
  <1>1. Hyprland!TaggedIsUnique
    BY Zenon
       DEF Hyprland!TaggedIsUnique, BridgeInv, TaggingInv, OneCarrier, OverlaysTakeInput
  <1>2. Hyprland!OneBinding
    BY Zenon DEF Hyprland!OneBinding, BridgeInv, BindingInv
  <1>3. Hyprland!StoppedLeavesNothing
    <2>1. ASSUME bridge.pc \in {"stopped", "down"}, ~bridge.failed
          PROVE  /\ \A w \in Hyprland!Windows : tags[w] = {}
                 /\ (/\ bridge.read.keys.own + bridge.read.keys.legacy = 1
                     /\ bridge.read.keys.foreign = 0) => keys.own + keys.legacy = 0
      <3>1. \A w \in Hyprland!Windows : tags[w] = {}
        BY <2>1, Zenon DEF BridgeInv, TaggingInv
      <3>2. bridge.todo = {}
        BY <2>1, Zenon DEF BridgeInv, BindingInv
      <3> QED
        BY <2>1, <3>1, <3>2, Zenon DEF BridgeInv, BindingInv
    <2> QED
      BY <2>1, Zenon DEF Hyprland!StoppedLeavesNothing
  <1> QED
    BY <1>1, <1>2, <1>3, Zenon DEF BridgeIsTidy

\* At every moment at most one window carries each of the bridge's tags and no overlay the
\* one that blocks input, the bridge owns at most one binding of the accelerator, and a
\* bridge that stopped without an error left no tag, and not the binding it found alone
\* (bridge.rs: FocusController, reconcile_shortcut, cleanup_hyprland_state).
THEOREM BridgeStaysTidy ==
    ASSUME WindowKinds
    PROVE  Hyprland!Spec => []BridgeIsTidy
  <1>1. Hyprland!Init => BridgeInv
    BY BridgeInit, Zenon
  <1>2. BridgeInv /\ [Hyprland!Next]_(Hyprland!vars) => BridgeInv'
    BY BridgeStep, Zenon
  <1>3. BridgeInv => BridgeIsTidy
    BY BridgeTidy, Zenon
  <1> QED
    BY <1>1, <1>2, <1>3, PTL DEF Hyprland!Spec

\* A pass of the bridge that read the desktop after the user entered Interactive does not
\* end it while the reported game and the overlay stand (reconcile.rs, and
\* reconcile_once and sync_focus_once in bridge.rs).
THEOREM InteractiveIsKept ==
    ASSUME WindowKinds
    PROVE  Hyprland!Spec => InteractiveSurvives
  <1>1. Hyprland!Init => BridgeInv
    BY BridgeInit, Zenon
  <1>2. BridgeInv /\ [Hyprland!Next]_(Hyprland!vars) =>
          BridgeInv' /\ [component = "hyprland" => Hyprland!KeepsInteractive]_(Hyprland!vars)
    <2> SUFFICES ASSUME BridgeInv, [Hyprland!Next]_(Hyprland!vars)
                 PROVE  BridgeInv' /\ Hyprland!KeepsInteractive
      BY Zenon
    <2>1. BridgeInv'
      BY BridgeStep, Zenon
    <2>2. ASSUME authority.interactive, calm = "pass", Hyprland!Report \/ Hyprland!Dispatched
          PROVE  authority'.interactive
      <3>1. calm # "no"
        BY <2>2, SMT
      <3>2. authority' = authority
        BY <2>2, <3>1, ReportKeeps, DispatchedKeeps, Zenon
      <3> QED
        BY <2>2, <3>2, Zenon
    <2>3. Hyprland!KeepsInteractive
      BY <2>2, Zenon DEF Hyprland!KeepsInteractive
    <2> QED
      BY <2>1, <2>3, Zenon
  <1> QED
    BY <1>1, <1>2, PTL DEF Hyprland!Spec, InteractiveSurvives

------------------------------------------------------------------------------
(* overcrow-core/src/shortcut.rs: the broker.                              *)

\* What the properties leave open between two waits: while nothing is being
\* closed, the published availability and the attempted definitions match what
\* is owned; a session being closed was not the desired one.
Consistent ==
    /\ pc \in {"top", "wait"} =>
        /\ availability = "Available" <=> owned.kind = "Live"
        /\ availability = "Binding" <=> owned.kind = "Binding"
        /\ owned.kind # "Idle" => attempted = owned.definitions
        /\ availability = "Disabled" => attempted = <<>>
    /\ pc \notin {"top", "wait"} => owned.kind = "Idle"
    /\ pc = "release" /\ desired.kind = "Bind" => attempted # desired.definitions
    /\ spent /\ desired.kind = "Bind" => attempted = desired.definitions

BrokerInv ==
    TypeOK /\ Consistent /\ NoLostWakeup /\ OwnedIsDesired /\ AvailabilityIsTrue /\ NoLeakedSession

\* A binding that desired_binding asks for has definitions, and no other has.
LEMMA DesiredShape ==
    ASSUME NEW p
    PROVE  /\ desired_binding(p).kind \in {"Disabled", "Invalid", "Bind"}
           /\ desired_binding(p).kind = "Bind" <=> desired_binding(p).definitions # <<>>
  BY Zenon DEF desired_binding, Disabled, Invalid, Bind

\* The end of reconcile, from a binding o that is desired or idle, keeps the
\* invariant: Settle is reached from the top of the loop and from a close.
LEMMA SettleKeeps ==
    ASSUME NEW o, TypeOK, Settle(o), UNCHANGED <<desired, shutdown, policy_vars, losses>>,
           NoLostWakeup,
           o.kind \in {"Idle", "Binding", "Live"},
           o.kind = "Idle" <=> o.definitions = <<>>,
           o.kind # "Idle" => /\ desired.kind = "Bind" /\ o.definitions = desired.definitions
                              /\ attempted = o.definitions,
           spent /\ desired.kind = "Bind" => attempted = desired.definitions,
           \/ /\ availability = "Available" <=> o.kind = "Live"
              /\ availability = "Binding" <=> o.kind = "Binding"
              /\ availability = "Disabled" => attempted = <<>>
           \/ o.kind = "Idle" /\ (desired.kind = "Bind" => attempted # desired.definitions),
           lost' \in BOOLEAN, open' \in BOOLEAN, open' => o.kind = "Live"
    PROVE  BrokerInv'
  <1> DEFINE binds == /\ desired.kind = "Bind" /\ o.kind = "Idle"
                      /\ attempted # desired.definitions
  <1>0. /\ attempted' = IF desired.kind = "Bind" /\ ~binds THEN attempted
                         ELSE desired.definitions
        /\ owned' = IF binds THEN Binding(desired.definitions) ELSE o
        /\ availability' = CASE desired.kind = "Disabled" -> "Disabled"
                             [] desired.kind = "Invalid"  -> "Unavailable"
                             [] desired.kind = "Bind"     ->
                                    IF binds THEN "Binding" ELSE availability
        /\ spent' = (spent \/ binds)
        /\ pc' = "wait"
    BY Zenon DEF Settle
  <1>1. CASE desired.kind = "Bind" /\ binds
    <2>1. owned' = Binding(desired.definitions) /\ availability' = "Binding"
          /\ attempted' = desired.definitions /\ spent' = TRUE
      BY <1>0, <1>1, ZenonT(30)
    <2>2. owned'.kind = "Binding" /\ owned'.definitions = desired.definitions
      BY <2>1, Zenon DEF Binding
    <2>3. desired.definitions # <<>>
      BY <1>1, Zenon DEF TypeOK
    <2> QED
      BY <1>0, <1>1, <2>1, <2>2, <2>3, ZenonT(30) DEF BrokerInv, TypeOK, Consistent, NoLostWakeup,
         OwnedIsDesired, AvailabilityIsTrue, NoLeakedSession, policy_vars
  <1>2. CASE desired.kind = "Bind" /\ ~binds
    <2>1. owned' = o /\ availability' = availability /\ attempted' = attempted /\ spent' = spent
      BY <1>0, <1>2, Zenon DEF TypeOK
    <2>2. attempted = desired.definitions /\ desired.definitions # <<>>
      BY <1>2, Zenon DEF TypeOK
    <2> QED
      BY <1>0, <1>2, <2>1, <2>2, Zenon DEF BrokerInv, TypeOK, Consistent, NoLostWakeup,
         OwnedIsDesired, AvailabilityIsTrue, NoLeakedSession, policy_vars
  <1>3. CASE desired.kind # "Bind"
    <2>1. o.kind = "Idle" /\ owned' = o /\ attempted' = desired.definitions /\ spent' = spent
      BY <1>0, <1>3, Zenon DEF TypeOK
    <2>2. desired.definitions = <<>>
      BY <1>3, Zenon DEF TypeOK
    <2>3. \/ desired.kind = "Disabled" /\ availability' = "Disabled"
          \/ desired.kind = "Invalid" /\ availability' = "Unavailable"
      BY <1>0, <1>3, Zenon DEF TypeOK
    <2> QED
      BY <1>0, <1>3, <2>1, <2>2, <2>3, Zenon DEF BrokerInv, TypeOK, Consistent, NoLostWakeup,
         OwnedIsDesired, AvailabilityIsTrue, NoLeakedSession, policy_vars
  <1> QED
    BY <1>1, <1>2, <1>3, Zenon

\* The broker starts with nothing owned and the current policy desired.
LEMMA BrokerInit == Init => BrokerInv
  <1> SUFFICES ASSUME Init PROVE BrokerInv
    BY Zenon
  <1>1. /\ desired.kind \in {"Disabled", "Invalid", "Bind"}
        /\ desired.kind = "Bind" <=> desired.definitions # <<>>
    BY DesiredShape, Zenon DEF Init
  <1>2. owned.kind = "Idle" /\ owned.definitions = <<>>
    BY Zenon DEF Init, Idle
  <1>3. changes \in 0..MaxChanges /\ losses \in 0..MaxLosses
    BY BrokerAssumption DEF Init
  <1>4. TypeOK
    BY <1>1, <1>2, <1>3, ZenonT(30) DEF Init, TypeOK
  <1>5. Consistent
    BY <1>2, Zenon DEF Init, Consistent
  <1> QED
    BY <1>4, <1>5, Zenon DEF Init, BrokerInv, NoLostWakeup, OwnedIsDesired, AvailabilityIsTrue,
       NoLeakedSession

\* Every step of the broker, the provider, the senders and main keeps BrokerInv.
LEMMA BrokerStep == BrokerInv /\ [Next]_vars => BrokerInv'
  <1> SUFFICES ASSUME BrokerInv, [Next]_vars PROVE BrokerInv'
    BY Zenon
  <1> USE BrokerAssumption
  <1>i. Idle.kind = "Idle" /\ Idle.definitions = <<>>
    BY Zenon DEF Idle
  <1>1. CASE reconcile
    <2>1. CASE /\ Matches \/ owned.kind = "Binding"
               /\ Settle(IF Matches THEN owned ELSE Idle) /\ UNCHANGED lost
      <3> DEFINE o == IF Matches THEN owned ELSE Idle
      <3>u. /\ UNCHANGED <<desired, shutdown, policy_vars, losses>>
            /\ pc = "top" /\ open' = open /\ lost' = lost
        BY <1>1, <2>1, Zenon DEF reconcile
      <3>1. CASE Matches
        <4>1. Settle(owned)
          BY <2>1, <3>1, Zenon
        <4> QED
          BY <3>1, <3>u, <4>1, SettleKeeps, Zenon DEF Matches, BrokerInv, TypeOK, Consistent,
             NoLeakedSession
      <3>2. CASE ~Matches
        <4>1. Settle(Idle) /\ owned.kind = "Binding"
          BY <2>1, <3>2, Zenon
        <4>2. ~open /\ (desired.kind = "Bind" => attempted # desired.definitions)
          BY <3>2, <3>u, <4>1, Zenon DEF Matches, BrokerInv, Consistent, NoLeakedSession
        <4> QED
          BY <1>i, <3>u, <4>1, <4>2, SettleKeeps, Zenon DEF BrokerInv, TypeOK, Consistent
      <3> QED
        BY <3>1, <3>2, Zenon
    <2>2. CASE /\ ~Matches /\ owned.kind = "Live"
               /\ pc' = "release" /\ owned' = Idle /\ lost' = FALSE
               /\ UNCHANGED <<attempted, availability, spent>>
      BY <1>1, <1>i, <2>2, ZenonT(30) DEF reconcile, Matches, BrokerInv, TypeOK, Consistent, NoLostWakeup,
         OwnedIsDesired, AvailabilityIsTrue, NoLeakedSession, policy_vars
    <2> QED
      BY <1>1, <2>1, <2>2, ZenonT(30) DEF reconcile
  <1>2. CASE reconcile_released
    <2>u. /\ UNCHANGED <<desired, shutdown, policy_vars, losses>>
          /\ pc = "release" /\ open' = FALSE /\ lost' = lost
      BY <1>2, Zenon DEF reconcile_released
    <2>1. CASE Settle(Idle)
      BY <1>i, <2>u, <2>1, SettleKeeps, ZenonT(30) DEF BrokerInv, TypeOK, Consistent
    <2>2. CASE /\ attempted' = desired.definitions /\ availability' = "Unavailable"
               /\ spent' = TRUE /\ pc' = "wait" /\ UNCHANGED owned
      BY <2>u, <2>2, ZenonT(30) DEF BrokerInv, TypeOK, Consistent, NoLostWakeup, OwnedIsDesired,
         AvailabilityIsTrue, NoLeakedSession, policy_vars
    <2> QED
      BY <1>2, <2>1, <2>2, ZenonT(30) DEF reconcile_released
  <1>3. ASSUME NEW channel \in Channels, Control(channel) PROVE BrokerInv'
    <2>1. desired' = desired_binding(policy) /\ policy' = policy
      BY <1>3, Zenon DEF Control
    <2>2. /\ desired'.kind \in {"Disabled", "Invalid", "Bind"}
          /\ desired'.kind = "Bind" <=> desired'.definitions # <<>>
      BY <2>1, DesiredShape, Zenon
    <2>3. desired' = desired_binding(policy)'
      BY <2>1, Zenon DEF desired_binding, wanted_shortcuts
    <2>4. spent' \in BOOLEAN /\ (spent' => spent /\ desired' = desired)
      BY <1>3, ZenonT(30) DEF Control, BrokerInv, TypeOK
    <2> QED
      BY <1>3, <2>2, <2>3, <2>4, ZenonT(30) DEF Control, BrokerInv, TypeOK, Consistent, NoLostWakeup,
         OwnedIsDesired, AvailabilityIsTrue, NoLeakedSession
  <1>4. CASE stream_loss
    BY <1>4, <1>i, ZenonT(30) DEF stream_loss, BrokerInv, TypeOK, Consistent, NoLostWakeup, OwnedIsDesired,
       AvailabilityIsTrue, NoLeakedSession, policy_vars
  <1>5. CASE release_after_stream_loss
    BY <1>5, ZenonT(30) DEF release_after_stream_loss, BrokerInv, TypeOK, Consistent, NoLostWakeup,
       OwnedIsDesired, AvailabilityIsTrue, NoLeakedSession, policy_vars
  <1>6. CASE begin_close
    BY <1>6, <1>i, ZenonT(30) DEF begin_close, BrokerInv, TypeOK, Consistent, NoLostWakeup, OwnedIsDesired,
       AvailabilityIsTrue, NoLeakedSession, policy_vars
  <1>7. CASE close
    BY <1>7, ZenonT(30) DEF close, BrokerInv, TypeOK, Consistent, NoLostWakeup, OwnedIsDesired,
       AvailabilityIsTrue, NoLeakedSession, policy_vars
  <1>8. CASE abort
    BY <1>8, ZenonT(30) DEF abort, BrokerInv, TypeOK, Consistent, NoLostWakeup, OwnedIsDesired,
       AvailabilityIsTrue, NoLeakedSession, policy_vars
  <1>9. CASE Bound
    <2>1. CASE owned' = Live(owned.definitions) /\ availability' = "Available" /\ open' = TRUE
      <3>1. owned'.kind = "Live" /\ owned'.definitions = owned.definitions
        BY <2>1, Zenon DEF Live
      <3> QED
        BY <1>9, <2>1, <3>1, Zenon DEF Bound, BrokerInv, TypeOK, Consistent, NoLostWakeup,
           OwnedIsDesired, AvailabilityIsTrue, NoLeakedSession, policy_vars
    <2>2. CASE owned' = Idle /\ availability' = "Unavailable" /\ UNCHANGED open
      BY <1>9, <1>i, <2>2, Zenon DEF Bound, BrokerInv, TypeOK, Consistent, NoLostWakeup,
         OwnedIsDesired, AvailabilityIsTrue, NoLeakedSession, policy_vars
    <2> QED
      BY <1>9, <2>1, <2>2, ZenonT(30) DEF Bound
  <1>10. ASSUME NEW own \in BOOLEAN, NEW id \in Ids, Activated(own, id) PROVE BrokerInv'
    <2>1. unseen' \in {unseen, unseen \cup {"snapshots"}}
      BY <1>10, Zenon DEF Activated
    <2>2. unseen' \subseteq Channels /\ (unseen # {} => unseen' # {})
      BY <2>1, Zenon DEF BrokerInv, TypeOK, Channels
    <2>3. changes' \in 0..MaxChanges
      BY <1>10, SMTT(30) DEF Activated, BrokerInv, TypeOK
    <2> QED
      BY <1>10, <2>2, <2>3, Zenon DEF Activated, BrokerInv, TypeOK, Consistent, NoLostWakeup,
         OwnedIsDesired, AvailabilityIsTrue, NoLeakedSession
  <1>11. ASSUME NEW channel \in Channels, NEW p \in Policies, send(channel, p) PROVE BrokerInv'
    <2>1. unseen' # {} /\ unseen' \subseteq Channels /\ policy' \in Policies
      BY <1>11, ZenonT(30) DEF send, BrokerInv, TypeOK
    <2>2. changes' \in 0..MaxChanges
      BY <1>11, SMTT(30) DEF send, BrokerInv, TypeOK
    <2> QED
      BY <1>11, <2>1, <2>2 DEF send, BrokerInv, TypeOK, Consistent, NoLostWakeup,
         OwnedIsDesired, AvailabilityIsTrue, NoLeakedSession
  <1>12. CASE send_shutdown
    BY <1>12, SMTT(30) DEF send_shutdown, BrokerInv, TypeOK, Consistent, NoLostWakeup, OwnedIsDesired,
       AvailabilityIsTrue, NoLeakedSession, policy_vars
  <1>13. CASE session_lost
    BY <1>13, SMTT(30) DEF session_lost, BrokerInv, TypeOK, Consistent, NoLostWakeup, OwnedIsDesired,
       AvailabilityIsTrue, NoLeakedSession, policy_vars
  <1>14. CASE UNCHANGED vars
    BY <1>14 DEF vars, BrokerInv, TypeOK, Consistent, NoLostWakeup, OwnedIsDesired,
       AvailabilityIsTrue, NoLeakedSession, policy_vars
  <1> QED
    BY <1>1, <1>2, <1>3, <1>4, <1>5, <1>6, <1>7, <1>8, <1>9, <1>10, <1>11, <1>12, <1>13, <1>14, ZenonT(30)
    DEF Next, Broker

\* BrokerInv holds in every reachable state.
THEOREM BrokerInvariant == Spec => []BrokerInv
  BY BrokerInit, BrokerStep, PTL DEF Spec

\* The state keeps its shape, and no bind is asked for without definitions.
THEOREM BrokerTypeCorrect == Spec => []TypeOK
  <1>1. BrokerInv => TypeOK
    BY Zenon DEF BrokerInv
  <1> QED
    BY <1>1, BrokerInvariant, PTL

\* No policy change is lost, whatever arrives while the broker is in a close.
THEOREM WakeupCorrect == Spec => []NoLostWakeup
  <1>1. BrokerInv => NoLostWakeup
    BY Zenon DEF BrokerInv
  <1> QED
    BY <1>1, BrokerInvariant, PTL

\* A waiting broker owns only what is desired.
THEOREM OwnershipCorrect == Spec => []OwnedIsDesired
  <1>1. BrokerInv => OwnedIsDesired
    BY Zenon DEF BrokerInv
  <1> QED
    BY <1>1, BrokerInvariant, PTL

\* A waiting broker has published what it owns.
THEOREM AvailabilityCorrect == Spec => []AvailabilityIsTrue
  <1>1. BrokerInv => AvailabilityIsTrue
    BY Zenon DEF BrokerInv
  <1> QED
    BY <1>1, BrokerInvariant, PTL

\* Every session is closed on every path but an abort by main.
THEOREM SessionsCorrect == Spec => []NoLeakedSession
  <1>1. BrokerInv => NoLeakedSession
    BY Zenon DEF BrokerInv
  <1> QED
    BY <1>1, BrokerInvariant, PTL

\* A desired binding is tried once: only Settle starts a bind, and only with
\* definitions that are not the attempted ones.
THEOREM AttemptCorrect == Spec => OneAttemptPerPolicy
  <1>1. BrokerInv /\ [Next]_vars =>
            [owned.kind # "Binding" /\ owned'.kind = "Binding" => ~spent]_vars
    <2> SUFFICES ASSUME BrokerInv, Next, owned.kind # "Binding", owned'.kind = "Binding"
                 PROVE  ~spent
      BY Zenon
    <2>i. Idle.kind = "Idle" /\ \A ds : Live(ds).kind = "Live"
      BY Zenon DEF Idle, Live
    <2>1. PICK o \in {owned, Idle} : Settle(o)
      BY <2>i, Zenon DEF Next, Broker, reconcile, reconcile_released, Control, stream_loss,
         release_after_stream_loss, begin_close, close, abort, Bound, Activated, send,
         send_shutdown, session_lost
    <2>2. desired.kind = "Bind" /\ attempted # desired.definitions
      BY <2>1, <2>i, Zenon DEF Settle
    <2> QED
      BY <2>2, Zenon DEF BrokerInv, Consistent
  <1> QED
    BY <1>1, BrokerInvariant, PTL DEF Spec, OneAttemptPerPolicy

\* All the state invariants of the broker together.
THEOREM BrokerSafe == Spec => []BrokerIsSafe
  <1>1. TypeOK /\ NoLostWakeup /\ OwnedIsDesired /\ AvailabilityIsTrue /\ NoLeakedSession
        => BrokerIsSafe
    BY Zenon DEF BrokerIsSafe
  <1> QED
    BY <1>1, BrokerTypeCorrect, WakeupCorrect, OwnershipCorrect, AvailabilityCorrect,
       SessionsCorrect, PTL

------------------------------------------------------------------------------
(* overcrow-core/src/shortcut.rs: a shortcut session of the portal.        *)

PortalSteps == {"idle", "watch", "register", "create", "creating", "activated", "closed",
                "bind", "binding", "bound"}
PortalPaths == {"predicted", "legacy", "foreign"}
PortalCodes == {"ok", "partial", "denied"}
PortalSignal == [path : PortalPaths, code : PortalCodes]
PortalRead == [source : {"predicted", "any"}, path : PortalPaths, code : PortalCodes]

PortalTypes ==
    /\ portal_pc \in PortalSteps /\ portal_session \in {"none", "made", "bound"} /\ asked \in {"create", "bind"}
    /\ predicted \in Seq(PortalSignal) /\ any \in Seq(PortalSignal)
    /\ buffered \in Seq(PortalRead) /\ owners \in Seq(Nat \X Nat)
    /\ closed \in Nat /\ activations \in Nat /\ owner \in Nat /\ names \in Nat

\* The response to request `path` is among these, and the request was granted.
Granted(q, path) == \E k \in DOMAIN q : q[k].path = path /\ q[k].code = "ok"
GrantIsRead ==
    \/ Granted(predicted, Portal!Returned) \/ Granted(any, Portal!Returned)
    \/ Granted(buffered, Portal!Returned)

LostAmong(q) == \E k \in DOMAIN q : Portal!OwnerLost(q[k])
PortalAlive == portal_session = "bound" \/ closed > 0 \/ LostAmong(owners)

\* The streams that are open at each step.
StreamsAreOpen ==
    /\ portal_pc \notin {"idle", "watch"} => "owner" \in watching
    /\ portal_pc \in {"closed", "bind", "binding", "bound"} => "activated" \in watching
    /\ portal_pc \in {"bind", "binding", "bound"} => "closed" \in watching
AskedToBind == portal_pc \in {"binding", "bound"} => asked = "bind"

\* The portal has a session, or works on a request, only while it runs; and binds only
\* for a client that listens to the activations.
PortalRuns == portal_session # "none" \/ request # {} => owner # 0
PortalIsHeard == portal_session = "bound" \/ (request # {} /\ asked = "bind") => "activated" \in watching

\* The inductive invariant: a grant that is on its way is of a session that is alive.
PortalInv ==
    /\ PortalTypes /\ StreamsAreOpen /\ AskedToBind /\ PortalRuns /\ PortalIsHeard
    /\ portal_pc = "binding" /\ GrantIsRead => PortalAlive
    /\ portal_pc = "bound" => PortalAlive
    /\ ~missed

\* A message that is taken from a stream, and one that is added to it.
LEMMA TakenAndAdded ==
    ASSUME NEW S, NEW q \in Seq(S), NEW x \in S, NEW path
    PROVE  /\ Append(q, x) \in Seq(S) /\ <<>> \in Seq(S)
           /\ Granted(Append(q, x), path) => Granted(q, path) \/ (x.path = path /\ x.code = "ok")
           /\ LostAmong(q) \/ Portal!OwnerLost(x) => LostAmong(Append(q, x))
           /\ ~Granted(<<>>, path)
           /\ q # <<>> => /\ Head(q) \in S /\ Tail(q) \in Seq(S)
                          /\ Granted(Tail(q), path) => Granted(q, path)
                          /\ Head(q).path = path /\ Head(q).code = "ok" => Granted(q, path)
                          /\ LostAmong(q) /\ ~Portal!OwnerLost(Head(q)) => LostAmong(Tail(q))
  <1>1. Append(q, x) \in Seq(S) /\ <<>> \in Seq(S)
    OBVIOUS
  <1>2. /\ DOMAIN Append(q, x) = 1..Len(q) + 1 /\ DOMAIN q = 1..Len(q)
        /\ \A k \in 1..Len(q) : Append(q, x)[k] = q[k]
        /\ Append(q, x)[Len(q) + 1] = x /\ Len(q) \in Nat
    OBVIOUS
  <1>3. \A k \in 1..Len(q) + 1 : k \in 1..Len(q) \/ k = Len(q) + 1
    BY <1>2
  <1>4. 1..Len(q) \subseteq 1..Len(q) + 1 /\ Len(q) + 1 \in 1..Len(q) + 1
    BY <1>2
  <1>5. Granted(Append(q, x), path) => Granted(q, path) \/ (x.path = path /\ x.code = "ok")
    BY <1>2, <1>3, Zenon DEF Granted
  <1>6. LostAmong(q) \/ Portal!OwnerLost(x) => LostAmong(Append(q, x))
    BY <1>2, <1>4, Zenon DEF LostAmong
  <1>7. ~Granted(<<>>, path)
    BY DEF Granted
  <1>8. ASSUME q # <<>>
        PROVE  /\ Head(q) \in S /\ Tail(q) \in Seq(S)
               /\ Granted(Tail(q), path) => Granted(q, path)
               /\ Head(q).path = path /\ Head(q).code = "ok" => Granted(q, path)
               /\ LostAmong(q) /\ ~Portal!OwnerLost(Head(q)) => LostAmong(Tail(q))
    <2>1. Head(q) \in S /\ Tail(q) \in Seq(S) /\ Head(q) = q[1] /\ 1 \in DOMAIN q
      BY <1>8
    <2>2. \A k \in DOMAIN Tail(q) : k + 1 \in DOMAIN q /\ Tail(q)[k] = q[k + 1]
      BY <1>8
    <2>3. \A k \in DOMAIN q : k = 1 \/ (k - 1 \in DOMAIN Tail(q) /\ Tail(q)[k - 1] = q[k])
      BY <1>8
    <2>4. Granted(Tail(q), path) => Granted(q, path)
      BY <2>2, Zenon DEF Granted
    <2>5. Head(q).path = path /\ Head(q).code = "ok" => Granted(q, path)
      BY <2>1, Zenon DEF Granted
    <2>6. LostAmong(q) /\ ~Portal!OwnerLost(Head(q)) => LostAmong(Tail(q))
      BY <2>1, <2>3, Zenon DEF LostAmong
    <2> QED
      BY <2>1, <2>4, <2>5, <2>6, ZenonT(30)
  <1> QED
    BY <1>1, <1>5, <1>6, <1>7, <1>8, ZenonT(30)

\* The connection is dropped: nothing is left to be wrong about.
LEMMA PortalDrops ==
    ASSUME PortalInv, Portal!Dropped
    PROVE  PortalInv'
  <1>1. /\ portal_pc' = "idle" /\ buffered' = <<>> /\ predicted' = <<>> /\ any' = <<>>
        /\ owners' = <<>> /\ activations' = 0 /\ closed' = 0
        /\ request' = {} /\ portal_session' = "none" /\ UNCHANGED <<owner, names, asked, missed>>
    BY Zenon DEF Portal!Dropped
  <1>2. PortalTypes'
    BY <1>1 DEF PortalTypes, PortalInv, PortalSteps
  <1> QED
    BY <1>1, <1>2, Zenon DEF PortalInv, StreamsAreOpen, AskedToBind, PortalRuns, PortalIsHeard

\* The steps of bind_portal_session before a response is awaited.
LEMMA PortalPrepares ==
    ASSUME PortalInv,
           \/ Portal!Connect \/ Portal!PortalOwnerChangeStream
           \/ Portal!ReceiveActivated \/ Portal!ReceiveClosed
    PROVE  PortalInv'
  <1>1. UNCHANGED <<returned, buffered, predicted, any, owners, activations, closed, reply,
                    owner, names, legacy, asked, request, portal_session, missed>>
    BY Zenon DEF Portal!Connect, Portal!PortalOwnerChangeStream, Portal!ReceiveActivated,
       Portal!ReceiveClosed, Portal!Subscribe, Portal!streams, Portal!portal
  <1>2. \/ portal_pc = "idle" /\ portal_pc' = "watch" /\ watching' = watching
        \/ portal_pc = "watch" /\ portal_pc' = "register" /\ watching' = watching \cup {"owner"}
        \/ portal_pc = "activated" /\ portal_pc' = "closed" /\ watching' = watching \cup {"activated"}
        \/ portal_pc = "closed" /\ portal_pc' = "bind" /\ watching' = watching \cup {"closed"}
    BY Zenon DEF Portal!Connect, Portal!PortalOwnerChangeStream, Portal!ReceiveActivated,
       Portal!ReceiveClosed, Portal!Subscribe, Portal!streams
  <1>3. PortalTypes'
    BY <1>1, <1>2, Zenon DEF PortalInv, PortalTypes, PortalSteps
  <1>4. StreamsAreOpen' /\ AskedToBind' /\ PortalRuns' /\ PortalIsHeard'
    BY <1>1, <1>2, Zenon DEF PortalInv, StreamsAreOpen, AskedToBind, PortalRuns, PortalIsHeard
  <1>5. portal_pc' \notin {"binding", "bound"}
    BY <1>2, Zenon
  <1> QED
    BY <1>1, <1>3, <1>4, <1>5, ZenonT(30) DEF PortalInv

LEMMA PortalRegisters ==
    ASSUME PortalInv, Portal!Register
    PROVE  PortalInv'
  <1>1. CASE Portal!Dropped
    BY <1>1, PortalDrops
  <1>2. CASE ~Portal!Dropped
    <2>1. /\ portal_pc = "register" /\ portal_pc' = "create"
          /\ UNCHANGED <<buffered, watching, predicted, any, activations, closed, asked,
                         request, portal_session, missed>>
          /\ \/ UNCHANGED <<owner, names, owners>>
             \/ /\ owner' = names + 1 /\ names' = names + 1
                /\ owners' = Append(owners, <<0, names + 1>>)
      BY <1>2, Zenon DEF Portal!Register
    <2>2. names \in Nat /\ owner \in Nat /\ owners \in Seq(Nat \X Nat)
      BY Zenon DEF PortalInv, PortalTypes
    <2>3. names + 1 \in Nat /\ names + 1 # 0 /\ <<0, names + 1>> \in Nat \X Nat
      BY <2>2
    <2>4. Append(owners, <<0, names + 1>>) \in Seq(Nat \X Nat)
      BY <2>2, <2>3
    <2>5. owners' \in Seq(Nat \X Nat) /\ owner' \in Nat /\ names' \in Nat
      BY <2>1, <2>2, <2>3, <2>4, Zenon
    <2>6. PortalTypes'
      BY <2>1, <2>5, Zenon DEF PortalInv, PortalTypes, PortalSteps
    <2>7. owner' = owner \/ owner' # 0
      BY <2>1, <2>3, Zenon
    <2> QED
      BY <2>1, <2>6, <2>7, Zenon DEF PortalInv, StreamsAreOpen, AskedToBind, PortalRuns,
         PortalIsHeard
  <1> QED
    BY <1>1, <1>2

\* await_request_response starts with empty streams.
LEMMA PortalCalls ==
    ASSUME PortalInv, Portal!CreateSession \/ Portal!BindShortcuts
    PROVE  PortalInv'
  <1>1. /\ buffered' = <<>> /\ predicted' = <<>> /\ any' = <<>>
        /\ request' = (IF owner = 0 THEN {} ELSE {"reply", "response"})
        /\ UNCHANGED <<watching, owners, activations, closed, owner, names, legacy, portal_session,
                       missed>>
    BY Zenon DEF Portal!CreateSession, Portal!BindShortcuts, Portal!AwaitRequestResponse
  <1>2. \/ portal_pc = "create" /\ portal_pc' = "creating" /\ asked' = "create"
        \/ portal_pc = "bind" /\ portal_pc' = "binding" /\ asked' = "bind"
    BY Zenon DEF Portal!CreateSession, Portal!BindShortcuts, Portal!AwaitRequestResponse
  <1>3. PortalTypes'
    <2>1. <<>> \in Seq(PortalSignal) /\ <<>> \in Seq(PortalRead)
      OBVIOUS
    <2> QED
      BY <1>1, <1>2, <2>1, Zenon DEF PortalInv, PortalTypes, PortalSteps
  <1>4. StreamsAreOpen' /\ AskedToBind' /\ PortalRuns' /\ PortalIsHeard'
    BY <1>1, <1>2, ZenonT(30) DEF PortalInv, StreamsAreOpen, AskedToBind, PortalRuns, PortalIsHeard
  <1>5. ~GrantIsRead'
    BY <1>1 DEF GrantIsRead, Granted
  <1> QED
    BY <1>1, <1>2, <1>3, <1>4, <1>5, ZenonT(30) DEF PortalInv

\* A response is taken for the answer: the session it grants is alive.
LEMMA PortalAccepts ==
    ASSUME PortalInv, portal_pc \in {"creating", "binding"}, NEW r, Portal!Accept(r),
           r.path = Portal!Returned, r.code = "ok" => GrantIsRead
    PROVE  PortalInv'
  <1>1. CASE r.code # "ok"
    BY <1>1, PortalDrops, Zenon DEF Portal!Accept
  <1>2. CASE r.code = "ok"
    <2>1. /\ portal_pc' = Portal!After[portal_pc] /\ buffered' = <<>> /\ predicted' = <<>> /\ any' = <<>>
          /\ UNCHANGED <<watching, owners, activations, closed, owner, names, asked, request,
                         portal_session, missed>>
      BY <1>2, Zenon DEF Portal!Accept, Portal!portal
    <2>2. \/ portal_pc = "creating" /\ portal_pc' = "activated"
          \/ portal_pc = "binding" /\ portal_pc' = "bound"
      BY <2>1 DEF Portal!After
    <2>3. PortalTypes'
      <3>1. <<>> \in Seq(PortalSignal) /\ <<>> \in Seq(PortalRead)
        OBVIOUS
      <3> QED
        BY <2>1, <2>2, <3>1, Zenon DEF PortalInv, PortalTypes, PortalSteps
    <2>4. StreamsAreOpen' /\ AskedToBind' /\ PortalRuns' /\ PortalIsHeard'
      BY <2>1, <2>2, Zenon DEF PortalInv, StreamsAreOpen, AskedToBind, PortalRuns, PortalIsHeard
    <2>5. portal_pc = "binding" => PortalAlive'
      BY <1>2, <2>1, Zenon DEF PortalInv, PortalAlive
    <2> QED
      BY <2>1, <2>2, <2>3, <2>4, <2>5, ZenonT(30) DEF PortalInv
  <1> QED
    BY <1>1, <1>2

LEMMA PortalCallReturns ==
    ASSUME PortalInv, Portal!CallReturns
    PROVE  PortalInv'
  <1> DEFINE hits == {k \in DOMAIN buffered : Portal!ResponseMatches(buffered[k])}
  <1>1. CASE Portal!Dropped
    BY <1>1, PortalDrops
  <1>2. ASSUME NEW k \in hits, Portal!Accept(buffered[k]) PROVE PortalInv'
    <2>1. /\ buffered[k].path = Portal!Returned
          /\ buffered[k].code = "ok" => Granted(buffered, Portal!Returned)
      BY Zenon DEF Granted, Portal!ResponseMatches
    <2>2. portal_pc \in {"creating", "binding"}
      BY DEF Portal!CallReturns, Portal!After
    <2> QED
      BY <1>2, <2>1, <2>2, PortalAccepts, Zenon DEF GrantIsRead
  <1>3. CASE UNCHANGED <<portal_pc, buffered, Portal!streams, Portal!portal, missed, steps>>
    <2>1. UNCHANGED <<portal_pc, buffered, watching, predicted, any, owners, activations, closed,
                      owner, names, legacy, asked, request, portal_session, missed>>
      BY <1>3, Zenon DEF Portal!streams, Portal!portal
    <2> QED
      BY <2>1, Zenon DEF PortalInv, PortalTypes, StreamsAreOpen, AskedToBind, PortalRuns,
         PortalIsHeard, GrantIsRead, PortalAlive, Portal!Returned
  <1> QED
    BY <1>1, <1>2, <1>3, Zenon DEF Portal!CallReturns

\* A response is read before the call has returned, or is taken for the answer.
LEMMA PortalReads ==
    ASSUME PortalInv, portal_pc \in {"creating", "binding"}, NEW r \in PortalRead, Portal!Read(r),
           ~Portal!Ends(r) => /\ predicted' \in Seq(PortalSignal) /\ any' \in Seq(PortalSignal)
                              /\ Granted(predicted', Portal!Returned) => GrantIsRead
                              /\ Granted(any', Portal!Returned) => GrantIsRead,
           r.path = Portal!Returned /\ r.code = "ok" => GrantIsRead
    PROVE  PortalInv'
  <1>1. CASE returned /\ Portal!ResponseMatches(r)
    <2>1. Portal!Accept(r)
      BY <1>1, Zenon DEF Portal!Read
    <2>2. r.path = Portal!Returned
      BY <1>1, Zenon DEF Portal!ResponseMatches
    <2> QED
      BY <2>1, <2>2, PortalAccepts, Zenon
  <1>2. CASE Portal!Dropped
    BY <1>2, PortalDrops
  <1>3. CASE /\ ~Portal!Ends(r)
             /\ UNCHANGED <<portal_pc, watching, owners, activations, closed, Portal!portal, missed>>
             /\ buffered' \in {buffered, Append(buffered, r)}
    <2>1. /\ buffered \in Seq(PortalRead)
          /\ Granted(Append(buffered, r), Portal!Returned) => GrantIsRead
          /\ Append(buffered, r) \in Seq(PortalRead)
      BY TakenAndAdded, Zenon DEF PortalInv, PortalTypes, GrantIsRead
    <2>2. UNCHANGED <<owner, names, legacy, asked, request, portal_session>>
      BY <1>3, Zenon DEF Portal!portal
    <2>3. GrantIsRead' => GrantIsRead
      BY <1>3, <2>1, <2>2, Zenon DEF GrantIsRead, Portal!Returned
    <2>4. PortalTypes'
      BY <1>3, <2>1, <2>2, Zenon DEF PortalInv, PortalTypes
    <2> QED
      BY <1>3, <2>2, <2>3, <2>4, Zenon DEF PortalInv, StreamsAreOpen, AskedToBind, PortalRuns,
         PortalIsHeard, PortalAlive
  <1> QED
    <2>1. CASE returned /\ ~Portal!ResponseMatches(r)
      BY <1>3, <2>1, Zenon DEF Portal!Read, Portal!Ends, Portal!client
    <2>2. CASE ~returned /\ Len(buffered) < BufferMax
      <3>1. ~Portal!Ends(r)
        BY <2>2 DEF Portal!Ends, PortalInv, PortalTypes
      <3> QED
        BY <1>3, <2>2, <3>1, Zenon DEF Portal!Read
    <2>3. CASE ~returned /\ ~(Len(buffered) < BufferMax)
      BY <1>2, <2>3, Zenon DEF Portal!Read
    <2> QED
      BY <1>1, <2>1, <2>2, <2>3, Zenon

LEMMA PortalReadsResponse ==
    ASSUME PortalInv, Portal!ReadResponse
    PROVE  PortalInv'
  <1>1. portal_pc \in {"creating", "binding"}
    BY DEF Portal!ReadResponse, Portal!After
  <1>2. predicted \in Seq(PortalSignal) /\ any \in Seq(PortalSignal)
    BY Zenon DEF PortalInv, PortalTypes
  <1> DEFINE From(source, q) == [source |-> source, path |-> Head(q).path, code |-> Head(q).code]
  <1>3. ASSUME NEW source \in {"predicted", "any"}, NEW q \in Seq(PortalSignal), q # <<>>,
               Granted(q, Portal!Returned) => GrantIsRead
        PROVE  /\ From(source, q) \in PortalRead
               /\ From(source, q).path = Portal!Returned /\ From(source, q).code = "ok"
                    => GrantIsRead
               /\ Tail(q) \in Seq(PortalSignal)
               /\ Granted(Tail(q), Portal!Returned) => GrantIsRead
    <2>1. Head(q) \in PortalSignal
      BY <1>3
    <2>2. Head(q).path \in PortalPaths /\ Head(q).code \in PortalCodes
      BY <2>1 DEF PortalSignal
    <2>3. From(source, q) \in PortalRead
      BY <2>2 DEF PortalRead
    <2>4. From(source, q).path = Head(q).path /\ From(source, q).code = Head(q).code
      OBVIOUS
    <2> QED
      BY <1>3, <2>1, <2>3, <2>4, TakenAndAdded, ZenonT(30)
  <1>4. /\ Granted(predicted, Portal!Returned) => GrantIsRead
        /\ Granted(any, Portal!Returned) => GrantIsRead
    BY Zenon DEF GrantIsRead
  <1> HIDE DEF From
  <1>5. ASSUME predicted # <<>>, Portal!Read(From("predicted", predicted)),
               ~Portal!Ends(From("predicted", predicted))
                  => predicted' = Tail(predicted) /\ any' = any
        PROVE  PortalInv'
    BY <1>1, <1>2, <1>3, <1>4, <1>5, PortalReads, Zenon
  <1>6. ASSUME any # <<>>, Portal!Read(From("any", any)),
               ~Portal!Ends(From("any", any)) => any' = Tail(any) /\ predicted' = predicted
        PROVE  PortalInv'
    BY <1>1, <1>2, <1>3, <1>4, <1>6, PortalReads, ZenonT(30)
  <1> QED
    BY <1>5, <1>6, ZenonT(30) DEF Portal!ReadResponse, From

\* The owner stream: a loss ends the session, another change hides none.
LEMMA PortalReadsOwner ==
    ASSUME PortalInv, Portal!ReadOwner
    PROVE  PortalInv'
  <1>1. CASE Portal!Dropped
    BY <1>1, PortalDrops
  <1>2. CASE /\ ~Portal!OwnerLost(Head(owners)) /\ owners # <<>> /\ owners' = Tail(owners)
             /\ UNCHANGED <<Portal!client, watching, predicted, any, activations, closed,
                            Portal!portal, missed>>
    <2>1. owners \in Seq(Nat \X Nat) /\ <<0, 0>> \in Nat \X Nat
      BY DEF PortalInv, PortalTypes
    <2>2. owners' \in Seq(Nat \X Nat) /\ (LostAmong(owners) => LostAmong(owners)')
      BY <1>2, <2>1, TakenAndAdded, Zenon
    <2>3. UNCHANGED <<portal_pc, buffered, owner, names, legacy, asked, request, portal_session>>
      BY <1>2, Zenon DEF Portal!portal, Portal!client
    <2>4. PortalTypes'
      BY <1>2, <2>2, <2>3, Zenon DEF PortalInv, PortalTypes
    <2>5. (PortalAlive => PortalAlive') /\ (GrantIsRead' => GrantIsRead)
      BY <1>2, <2>2, <2>3, Zenon DEF PortalAlive, GrantIsRead, Portal!Returned
    <2> QED
      BY <1>2, <2>3, <2>4, <2>5, Zenon DEF PortalInv, StreamsAreOpen, AskedToBind, PortalRuns,
         PortalIsHeard
  <1> QED
    BY <1>1, <1>2, Zenon DEF Portal!ReadOwner

\* The portal sends a Response, of this client's request or of another one's.
LEMMA PortalSends ==
    ASSUME PortalInv, NEW path \in PortalPaths, NEW code \in PortalCodes,
           Portal!Send(path, code)
    PROVE  /\ predicted' \in Seq(PortalSignal) /\ any' \in Seq(PortalSignal)
           /\ path # Portal!Returned \/ code # "ok" =>
                /\ Granted(predicted', Portal!Returned) => GrantIsRead
                /\ Granted(any', Portal!Returned) => GrantIsRead
  <1> DEFINE m == [path |-> path, code |-> code]
  <1>1. m \in PortalSignal /\ m.path = path /\ m.code = code
    BY DEF PortalSignal
  <1>2. predicted \in Seq(PortalSignal) /\ any \in Seq(PortalSignal)
    BY Zenon DEF PortalInv, PortalTypes
  <1>3. any' = Append(any, m) /\ predicted' \in {Append(predicted, m), predicted}
    BY Zenon DEF Portal!Send
  <1> HIDE DEF m
  <1>4. /\ Granted(predicted, Portal!Returned) => GrantIsRead
        /\ Granted(any, Portal!Returned) => GrantIsRead
    BY Zenon DEF GrantIsRead
  <1>5. ASSUME NEW q \in Seq(PortalSignal), Granted(q, Portal!Returned) => GrantIsRead
        PROVE  /\ Append(q, m) \in Seq(PortalSignal)
               /\ path # Portal!Returned \/ code # "ok" =>
                    (Granted(Append(q, m), Portal!Returned) => GrantIsRead)
    BY <1>1, <1>5, TakenAndAdded, Zenon
  <1> QED
    BY <1>2, <1>3, <1>4, <1>5, Zenon

LEMMA PortalAnswers ==
    ASSUME PortalInv, NEW code \in {"ok", "partial", "denied"}, Portal!PortalResponds(code)
    PROVE  PortalInv'
  <1>1. /\ "response" \in request /\ request' \subseteq request
        /\ UNCHANGED <<portal_pc, buffered, watching, owners, activations, closed, owner, names,
                       legacy, asked, missed>>
        /\ Portal!Send(Portal!Returned, code)
    BY Zenon DEF Portal!PortalResponds, Portal!client
  <1>2. /\ portal_session' \in {portal_session, "made", "bound"}
        /\ portal_session' = "bound" => portal_session = "bound" \/ asked = "bind"
        /\ asked = "bind" => portal_session' \in {portal_session, "bound"}
        /\ asked = "bind" /\ code = "ok" => portal_session' = "bound"
    <2>1. CASE code = "denied"
      BY <2>1 DEF Portal!PortalResponds
    <2>2. CASE code # "denied" /\ asked = "create"
      BY <2>2 DEF Portal!PortalResponds
    <2>3. CASE code # "denied" /\ asked # "create"
      BY <2>3 DEF Portal!PortalResponds, PortalInv, PortalTypes
    <2> QED
      BY <2>1, <2>2, <2>3
  <1>3. Portal!Returned \in PortalPaths /\ code \in PortalCodes
    BY Zenon DEF Portal!Returned, PortalPaths, PortalCodes
  <1>4. /\ predicted' \in Seq(PortalSignal) /\ any' \in Seq(PortalSignal)
        /\ code # "ok" => /\ Granted(predicted', Portal!Returned) => GrantIsRead
                          /\ Granted(any', Portal!Returned) => GrantIsRead
    BY <1>1, <1>3, PortalSends, Zenon
  <1>5. PortalTypes'
    BY <1>1, <1>2, <1>4, Zenon DEF PortalInv, PortalTypes
  <1>6. StreamsAreOpen' /\ AskedToBind' /\ PortalRuns' /\ PortalIsHeard'
    BY <1>1, <1>2, Zenon DEF PortalInv, StreamsAreOpen, AskedToBind, PortalRuns, PortalIsHeard
  <1>7. portal_pc \in {"binding", "bound"} => asked = "bind"
    BY Zenon DEF PortalInv, AskedToBind
  <1>8. portal_pc \in {"binding", "bound"} /\ PortalAlive => PortalAlive'
    BY <1>1, <1>2, <1>7, Zenon DEF PortalAlive
  <1>9. code # "ok" => (GrantIsRead' => GrantIsRead)
    BY <1>1, <1>4, Zenon DEF GrantIsRead, Portal!Returned
  <1>10. portal_pc = "binding" /\ code = "ok" => PortalAlive'
    BY <1>2, <1>7, Zenon DEF PortalAlive
  <1> QED
    BY <1>1, <1>5, <1>6, <1>8, <1>9, <1>10, Zenon DEF PortalInv

LEMMA PortalHearsNoise ==
    ASSUME PortalInv, Portal!Noise
    PROVE  PortalInv'
  <1>1. /\ UNCHANGED <<portal_pc, buffered, watching, owners, activations, closed, owner, names,
                       legacy, asked, request, portal_session, missed>>
        /\ Portal!Send("foreign", "ok")
    BY Zenon DEF Portal!Noise, Portal!client, Portal!portal
  <1>2. "foreign" # Portal!Returned /\ "foreign" \in PortalPaths /\ "ok" \in PortalCodes
    BY Zenon DEF Portal!Returned, PortalPaths, PortalCodes
  <1>3. /\ predicted' \in Seq(PortalSignal) /\ any' \in Seq(PortalSignal)
        /\ Granted(predicted', Portal!Returned) => GrantIsRead
        /\ Granted(any', Portal!Returned) => GrantIsRead
    BY <1>1, <1>2, PortalSends, Zenon
  <1>4. GrantIsRead' => GrantIsRead
    BY <1>1, <1>3, Zenon DEF GrantIsRead, Portal!Returned
  <1>5. PortalTypes'
    BY <1>1, <1>3, Zenon DEF PortalInv, PortalTypes
  <1> QED
    BY <1>1, <1>4, <1>5, Zenon DEF PortalInv, StreamsAreOpen, AskedToBind, PortalRuns,
       PortalIsHeard, PortalAlive

\* The portal is replaced: who has a session is told, as it was running.
LEMMA PortalIsReplaced ==
    ASSUME PortalInv, NEW n \in {0, names + 1}, Portal!OwnerChanges(n)
    PROVE  PortalInv'
  <1>1. /\ UNCHANGED <<portal_pc, buffered, watching, predicted, any, activations, closed, legacy,
                       asked, missed>>
        /\ owner' = n /\ names' \in {names, n}
        /\ owners' = (IF "owner" \in watching THEN Append(owners, <<owner, n>>) ELSE owners)
        /\ portal_session' = "none" /\ request' = {}
    BY Zenon DEF Portal!OwnerChanges, Portal!client
  <1>2. owners \in Seq(Nat \X Nat) /\ owner \in Nat /\ names \in Nat /\ n \in Nat
    BY DEF PortalInv, PortalTypes
  <1>3. <<owner, n>> \in Nat \X Nat /\ <<owner, n>>[1] = owner
    BY <1>2
  <1>4. /\ Append(owners, <<owner, n>>) \in Seq(Nat \X Nat)
        /\ LostAmong(owners) => LostAmong(Append(owners, <<owner, n>>))
        /\ owner # 0 => LostAmong(Append(owners, <<owner, n>>))
    <2> DEFINE x == <<owner, n>>
    <2>1. Append(owners, x) \in Seq(Nat \X Nat)
      BY <1>2, <1>3
    <2>2. owner # 0 => Portal!OwnerLost(x)
      BY <1>3 DEF Portal!OwnerLost
    <2>3. x \in Nat \X Nat
      BY <1>3
    <2> HIDE DEF x
    <2>4. LostAmong(owners) \/ Portal!OwnerLost(x) => LostAmong(Append(owners, x))
      BY <1>2, <2>3, TakenAndAdded, Zenon
    <2> QED
      BY <2>1, <2>2, <2>4, Zenon DEF x
  <1>5. PortalTypes'
    BY <1>1, <1>2, <1>4, Zenon DEF PortalInv, PortalTypes
  <1>6. portal_pc \in {"binding", "bound"} => "owner" \in watching
    BY Zenon DEF PortalInv, StreamsAreOpen
  <1>7. portal_pc \in {"binding", "bound"} /\ PortalAlive => PortalAlive'
    <2>1. portal_session = "bound" => owner # 0
      BY Zenon DEF PortalInv, PortalRuns
    <2> QED
      BY <1>1, <1>4, <1>6, <2>1, ZenonT(30) DEF PortalAlive
  <1>8. GrantIsRead' => GrantIsRead
    BY <1>1, Zenon DEF GrantIsRead, Portal!Returned
  <1> QED
    BY <1>1, <1>5, <1>7, <1>8, Zenon DEF PortalInv, StreamsAreOpen, AskedToBind, PortalRuns,
       PortalIsHeard

\* The portal closes the session: the stream is there before it can be bound.
LEMMA PortalClosesSession ==
    ASSUME PortalInv, Portal!PortalCloses
    PROVE  PortalInv'
  <1>1. /\ UNCHANGED <<portal_pc, buffered, watching, predicted, any, owners, activations, owner,
                       names, legacy, asked, request, missed>>
        /\ portal_session' = "none"
        /\ closed' = IF "closed" \in watching THEN closed + 1 ELSE closed
    BY Zenon DEF Portal!PortalCloses, Portal!client
  <1>2. closed \in Nat /\ closed + 1 \in Nat /\ closed + 1 > 0
    BY DEF PortalInv, PortalTypes
  <1>3. PortalTypes'
    BY <1>1, <1>2, Zenon DEF PortalInv, PortalTypes
  <1>4. portal_pc \in {"binding", "bound"} => PortalAlive'
    BY <1>1, <1>2, Zenon DEF PortalInv, StreamsAreOpen, PortalAlive
  <1> QED
    BY <1>1, <1>3, <1>4, Zenon DEF PortalInv, StreamsAreOpen, AskedToBind, PortalRuns,
       PortalIsHeard

\* A press, and the activation that is read: a bound session has the stream.
LEMMA PortalIsPressed ==
    ASSUME PortalInv, Portal!Press \/ Portal!NextActivated
    PROVE  PortalInv'
  <1>1. /\ UNCHANGED <<portal_pc, buffered, watching, predicted, any, owners, closed, owner, names,
                       legacy, asked, request, portal_session>>
    BY Zenon DEF Portal!Press, Portal!NextActivated, Portal!client, Portal!portal
  <1>2. activations \in Nat
    BY Zenon DEF PortalInv, PortalTypes
  <1>3. activations' \in Nat
    BY <1>2 DEF Portal!Press, Portal!NextActivated
  <1>4. ~missed'
    BY Zenon DEF PortalInv, PortalIsHeard, Portal!Press, Portal!NextActivated
  <1>5. PortalTypes'
    BY <1>1, <1>3, Zenon DEF PortalInv, PortalTypes
  <1> QED
    BY <1>1, <1>4, <1>5, Zenon DEF PortalInv, StreamsAreOpen, AskedToBind, PortalRuns,
       PortalIsHeard, PortalAlive, GrantIsRead, Portal!Returned

LEMMA PortalStep ==
    ASSUME PortalInv, [Portal!Next]_(Portal!vars)
    PROVE  PortalInv'
  <1>1. CASE \/ Portal!Connect \/ Portal!PortalOwnerChangeStream
             \/ Portal!ReceiveActivated \/ Portal!ReceiveClosed
    BY <1>1, PortalPrepares
  <1>2. CASE Portal!Register
    BY <1>2, PortalRegisters
  <1>3. CASE Portal!CreateSession \/ Portal!BindShortcuts
    BY <1>3, PortalCalls
  <1>4. CASE Portal!CallReturns
    BY <1>4, PortalCallReturns
  <1>5. CASE Portal!ReadResponse
    BY <1>5, PortalReadsResponse
  <1>6. CASE Portal!ReadOwner
    BY <1>6, PortalReadsOwner
  <1>7. CASE Portal!NextClosed \/ Portal!Close
    BY <1>7, PortalDrops, Zenon DEF Portal!NextClosed, Portal!Close
  <1>8. CASE Portal!PortalReplies
    <2>1. /\ UNCHANGED <<portal_pc, buffered, watching, predicted, any, owners, activations, closed,
                         owner, names, legacy, asked, portal_session, missed>>
          /\ request # {}
      BY <1>8, Zenon DEF Portal!PortalReplies, Portal!client
    <2> QED
      BY <2>1, Zenon DEF PortalInv, PortalTypes, StreamsAreOpen, AskedToBind, PortalRuns,
         PortalIsHeard, PortalAlive, GrantIsRead, Portal!Returned
  <1>9. ASSUME NEW code \in {"ok", "partial", "denied"}, Portal!PortalResponds(code)
        PROVE  PortalInv'
    BY <1>9, PortalAnswers
  <1>10. CASE Portal!Noise
    BY <1>10, PortalHearsNoise
  <1>11. ASSUME NEW n \in {0, names + 1}, Portal!OwnerChanges(n) PROVE PortalInv'
    BY <1>11, PortalIsReplaced
  <1>12. CASE Portal!PortalCloses
    BY <1>12, PortalClosesSession
  <1>13. CASE Portal!Press \/ Portal!NextActivated
    BY <1>13, PortalIsPressed
  <1>14. CASE UNCHANGED Portal!vars
    <2>1. UNCHANGED <<portal_pc, buffered, watching, predicted, any, owners, activations, closed,
                      owner, names, legacy, asked, request, portal_session, missed>>
      BY <1>14, Zenon DEF Portal!vars, Portal!client, Portal!streams, Portal!portal
    <2> QED
      BY <2>1, Zenon DEF PortalInv, PortalTypes, StreamsAreOpen, AskedToBind, PortalRuns,
         PortalIsHeard, PortalAlive, GrantIsRead, Portal!Returned
  <1> QED
    BY <1>1, <1>2, <1>3, <1>4, <1>5, <1>6, <1>7, <1>8, <1>9, <1>10, <1>11, <1>12, <1>13, <1>14,
       ZenonT(30) DEF Portal!Next

\* A session the broker counts as bound is bound at the portal, or the news of its end is
\* waiting on a stream that is read, and no activation is missed: for any size of the
\* buffer and any number of attempts, restarts, closings and foreign responses.
THEOREM PortalCorrect == Portal!Spec => []PortalBindingIsLive
  <1>1. Portal!Init => PortalInv
    <2> SUFFICES ASSUME Portal!Init PROVE PortalInv
      OBVIOUS
    <2>1. PortalTypes
      BY DEF Portal!Init, PortalTypes, PortalSteps
    <2> QED
      BY <2>1, Zenon DEF Portal!Init, PortalInv, StreamsAreOpen, AskedToBind, PortalRuns,
         PortalIsHeard
  <1>2. PortalInv /\ [Portal!Next]_(Portal!vars) => PortalInv'
    BY PortalStep
  <1>3. PortalInv => Portal!PortalBindingIsLive
    BY Zenon DEF PortalInv, PortalAlive, LostAmong, Portal!PortalBindingIsLive,
       Portal!BoundIsAlive, Portal!ActivationsAreHeard
  <1> QED
    BY <1>1, <1>2, <1>3, PTL DEF Portal!Spec, PortalBindingIsLive
===============================================================================
