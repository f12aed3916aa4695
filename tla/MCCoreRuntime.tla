---------------------------- MODULE MCCoreRuntime ----------------------------
(***************************************************************************)
(* Four small instances of CoreRuntime for TLC, each wide where the       *)
(* others are narrow: two processes and every kind of identity without a   *)
(* clock, one silent bridge over a long time, one process that is          *)
(* restarted while its age is measured, and an X11 session, where polls    *)
(* take the place of the bridge.  The behaviour picks one of them.         *)
(***************************************************************************)
EXTENDS CoreRuntime

CONSTANTS p1, p2, s1, s2, steam, native

\* A Steam game, a manually added game, and a process that is neither.
SteamIdentity  == [app |-> steam, exes |-> {}]
NativeIdentity == [app |-> None, exes |-> {native}]
OtherIdentity  == [app |-> None, exes |-> {}]

AllIdentities == {SteamIdentity, NativeIdentity, OtherIdentity}

BothGames == [apps |-> {steam}, exes |-> {native}]
OnlySteam == [apps |-> {steam}, exes |-> {}]

TwoSettings == {BothGames, OnlySteam}

VARIABLE instance

Authority == INSTANCE CoreRuntime WITH
    ElapsedSamples <- {}, MaxLag <- 0, MaxTime <- 0, Backends <- {"bridge"}
Lease == INSTANCE CoreRuntime WITH
    Pids <- {p1}, StartTicks <- {s1}, Identities <- {SteamIdentity},
    WidgetProfiles <- {FALSE}, Settings <- {OnlySteam}, Views <- {"v1"},
    ElapsedSamples <- {}, Backends <- {"bridge"}
Clock == INSTANCE CoreRuntime WITH
    Pids <- {p1}, Identities <- {SteamIdentity}, WidgetProfiles <- {TRUE},
    Settings <- {OnlySteam}, Views <- {"v1"}, MaxTime <- 2, MaxElapsed <- 2,
    Backends <- {"bridge"}
Polled == INSTANCE CoreRuntime WITH
    Pids <- {p1}, WidgetProfiles <- {TRUE}, Views <- {"v1"}, ElapsedSamples <- {},
    MaxTime <- 2, Backends <- {"x11"}

MCInit ==
    \/ instance = "authority" /\ Authority!Init
    \/ instance = "lease" /\ Lease!Init
    \/ instance = "clock" /\ Clock!Init
    \/ instance = "polled" /\ Polled!Init

AuthorityNext == instance = "authority" /\ Authority!Next /\ UNCHANGED instance
LeaseNext == instance = "lease" /\ Lease!Next /\ UNCHANGED instance
ClockNext == instance = "clock" /\ Clock!Next /\ UNCHANGED instance
PolledNext == instance = "polled" /\ Polled!Next /\ UNCHANGED instance

MCNext == AuthorityNext \/ LeaseNext \/ ClockNext \/ PolledNext
MCSpec == MCInit /\ [][MCNext]_<<vars, instance>>
=============================================================================
