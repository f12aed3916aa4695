---------------------------- MODULE ProviderProofs ----------------------------
(***************************************************************************)
(* Theorems about the providers of the overlay, one instance each: the     *)
(* OAuth machine of the Twitch chat, the media widget, the Warframe market *)
(* and the Warframe worldstate.  The providers share no state.  Some share *)
(* names of variables and constants (worker, budget...), and so do the     *)
(* instances here: no theorem speaks of two, so that each is about any     *)
(* values these names may have in its own module.                          *)
(* Every section ends with its theorems: the inductive invariant comes     *)
(* first, then a lemma per operation, then the step.                       *)
(***************************************************************************)
EXTENDS Naturals, Sequences, Providers, TLAPS

------------------------------------------------------------------------------
(* twitch/auth.rs: the stored token against the one Twitch accepts.        *)

\* What the operations of the OAuth machine work on.
AuthMachine ==
    [credentials: Nat, pending: {"none", "waiting", "due", "expired"},
     presentation: {"Disconnected", "AwaitingUser", "Connected", "Failed"},
     fresh: BOOLEAN, expiring: BOOLEAN, retry: {"none", "waiting", "due"},
     persisted: BOOLEAN, needPersist: BOOLEAN, mayContain: BOOLEAN]
AuthWorld ==
    [m: AuthMachine, stored: Nat, grant: Nat, issued: Nat, excused: BOOLEAN, faults: Nat]

\* The store against what Twitch accepts and what the machine says of it.
StoredIsCurrent(w) == w.stored # 0 /\ w.grant # 0 /\ w.stored # w.grant => w.excused
PersistedIsStored(w) == w.m.persisted => w.stored = w.m.credentials
PendingIsFirst(w) == w.m.pending # "none" => w.stored = 0
AbsentIsTold(w) == w.m.credentials = 0 /\ ~w.m.mayContain => w.stored = 0

\* A save that is still due would store the token Twitch accepts.
SavesTheGrant(w) == w.m.needPersist => w.m.credentials = w.grant \/ w.grant = 0

\* What an operation may start from, and what it leaves.
Truthful(w) == StoredIsCurrent(w) /\ PersistedIsStored(w) /\ PendingIsFirst(w)
Settled(w) == AbsentIsTold(w) /\ (SavesTheGrant(w) \/ w.m.expiring)
Left(w) == w \in AuthWorld /\ Truthful(w) /\ Settled(w)

\* A store operation that fails changes nothing but the faults left.
LEMMA AuthFails ==
    ASSUME NEW w \in AuthWorld, w.faults > 0
    PROVE  /\ Auth!Failing(w) \in AuthWorld
           /\ Auth!Failing(w).m = w.m /\ Auth!Failing(w).stored = w.stored
           /\ Auth!Failing(w).grant = w.grant /\ Auth!Failing(w).excused = w.excused
           /\ Auth!Failing(w).issued = w.issued
  <1>1. w.faults - 1 \in Nat
    BY DEF AuthWorld
  <1> QED
    BY <1>1 DEF AuthWorld, Auth!Failing

\* persist_current_if_needed stores the token in use, or fails and is due again.
LEMMA AuthPersists ==
    ASSUME NEW w \in AuthWorld, StoredIsCurrent(w) \/ w.m.needPersist, PersistedIsStored(w),
           AbsentIsTold(w), SavesTheGrant(w), w.m.pending = "none",
           NEW v \in Auth!PersistCurrentIfNeeded(w)
    PROVE  /\ Left(v) /\ SavesTheGrant(v)
           /\ v.m.pending = "none" /\ v.m.credentials = w.m.credentials
  <1>1. CASE v = w /\ ~w.m.needPersist
    BY <1>1, Zenon DEF Left, Settled, Truthful, PendingIsFirst
  <1>2. CASE v = [w EXCEPT !.stored = w.m.credentials, !.excused = FALSE, !.m.persisted = TRUE,
                           !.m.needPersist = FALSE, !.m.mayContain = TRUE]
             /\ w.m.needPersist
    <2>1. v \in AuthWorld
      BY <1>2, Zenon DEF AuthWorld, AuthMachine
    <2>2. /\ v.stored = w.m.credentials /\ v.grant = w.grant /\ v.m.credentials = w.m.credentials
          /\ v.m.needPersist = FALSE /\ v.m.mayContain = TRUE /\ v.m.pending = w.m.pending
      BY <1>2, Zenon DEF AuthWorld, AuthMachine
    <2> QED
      BY <1>2, <2>1, <2>2, Zenon DEF Left, Settled, Truthful, AbsentIsTold, SavesTheGrant,
         StoredIsCurrent, PersistedIsStored, PendingIsFirst
  <1>3. CASE v = [Auth!Failing(w) EXCEPT !.excused = TRUE, !.m.persisted = FALSE,
                                         !.m.mayContain = TRUE]
             /\ w.faults > 0
    <2> DEFINE f == Auth!Failing(w)
    <2>1. f \in AuthWorld /\ f.m = w.m /\ f.stored = w.stored /\ f.grant = w.grant
      BY <1>3, AuthFails, Zenon
    <2>2. v = [f EXCEPT !.excused = TRUE, !.m.persisted = FALSE, !.m.mayContain = TRUE]
      BY <1>3, Zenon
    <2> HIDE DEF f
    <2>3. /\ v \in AuthWorld
          /\ v.stored = f.stored /\ v.grant = f.grant /\ v.excused = TRUE
          /\ v.m.credentials = f.m.credentials /\ v.m.persisted = FALSE
          /\ v.m.needPersist = f.m.needPersist
          /\ v.m.mayContain = TRUE /\ v.m.pending = f.m.pending
      BY <2>1, <2>2, Zenon DEF AuthWorld, AuthMachine
    <2>4. SavesTheGrant(v)
      BY <2>1, <2>3, Zenon DEF SavesTheGrant
    <2> QED
      BY <2>1, <2>3, <2>4, Zenon DEF Left, Settled, Truthful, AbsentIsTold,
         StoredIsCurrent, PersistedIsStored, PendingIsFirst
  <1> QED
    BY <1>1, <1>2, <1>3, Zenon DEF Auth!PersistCurrentIfNeeded, Auth!When

\* A failed store operation keeps what the store and the machine say of each other.
LEMMA AuthFailsKeeps ==
    ASSUME NEW w \in AuthWorld, w.faults > 0
    PROVE  /\ Auth!Failing(w) \in AuthWorld /\ Auth!Failing(w).m = w.m
           /\ Auth!Failing(w).grant = w.grant /\ Auth!Failing(w).issued = w.issued
           /\ StoredIsCurrent(w) => StoredIsCurrent(Auth!Failing(w))
           /\ Truthful(w) => Truthful(Auth!Failing(w))
           /\ AbsentIsTold(w) => AbsentIsTold(Auth!Failing(w))
           /\ SavesTheGrant(w) => SavesTheGrant(Auth!Failing(w))
           /\ Left(w) => Left(Auth!Failing(w))
  <1> DEFINE f == Auth!Failing(w)
  <1>1. /\ f \in AuthWorld /\ f.m = w.m /\ f.stored = w.stored /\ f.grant = w.grant
        /\ f.excused = w.excused /\ f.issued = w.issued
    BY AuthFails, Zenon
  <1> HIDE DEF f
  <1>2. /\ StoredIsCurrent(w) => StoredIsCurrent(f)
        /\ PersistedIsStored(w) => PersistedIsStored(f)
        /\ PendingIsFirst(w) => PendingIsFirst(f)
        /\ AbsentIsTold(w) => AbsentIsTold(f)
        /\ SavesTheGrant(w) => SavesTheGrant(f)
    BY <1>1, Zenon DEF StoredIsCurrent, PersistedIsStored, PendingIsFirst, AbsentIsTold,
       SavesTheGrant
  <1>3. f.m.expiring = w.m.expiring
    BY <1>1, Zenon
  <1> QED
    BY <1>1, <1>2, <1>3, Zenon DEF Truthful, Left, Settled, f

\* What the presentation, the freshness and the retry are makes no difference, and a code
\* that is given up makes none either.
LEMMA AuthKeeps ==
    ASSUME NEW w \in AuthWorld, Left(w), NEW v \in AuthWorld,
           v.stored = w.stored, v.grant = w.grant, v.excused = w.excused,
           v.m.pending # "none" => w.m.pending # "none",
           w.m.expiring => v.m.expiring, v.m.mayContain = w.m.mayContain,
           v.m.credentials = w.m.credentials, v.m.persisted = w.m.persisted,
           v.m.needPersist = w.m.needPersist
    PROVE  Left(v)
  <1>1. StoredIsCurrent(v) /\ PersistedIsStored(v) /\ PendingIsFirst(v)
    BY Zenon DEF Left, Truthful, StoredIsCurrent, PersistedIsStored, PendingIsFirst
  <1>2. AbsentIsTold(v) /\ (SavesTheGrant(v) \/ v.m.expiring)
    BY Zenon DEF Left, Settled, AbsentIsTold, SavesTheGrant
  <1> QED
    BY <1>1, <1>2, Zenon DEF Left, Truthful, Settled

\* Deleting the stored token leaves nothing stored, or fails and says so.
LEMMA AuthDeletes ==
    ASSUME NEW w \in AuthWorld, NEW d \in Auth!Delete(w)
    PROVE  /\ d.w \in AuthWorld /\ d.ok \in BOOLEAN
           /\ d.w.m = w.m /\ d.w.grant = w.grant /\ d.w.excused = w.excused
           /\ d.ok => d.w.stored = 0
           /\ ~d.ok => d.w.stored = w.stored
  <1>1. CASE d = [w |-> [w EXCEPT !.stored = 0], ok |-> TRUE]
    BY <1>1 DEF AuthWorld
  <1>2. CASE d = [w |-> Auth!Failing(w), ok |-> FALSE] /\ w.faults > 0
    <2>1. d.w = Auth!Failing(w) /\ d.ok = FALSE
      BY <1>2
    <2> QED
      BY <1>2, <2>1, AuthFails, Zenon
  <1> QED
    BY <1>1, <1>2 DEF Auth!Delete, Auth!When

\* Forgetting the credentials after the store was cleared.
LEMMA AuthClears ==
    ASSUME NEW w \in AuthWorld, StoredIsCurrent(w), NEW v \in Auth!ClearInvalidCredentials(w)
    PROVE  Left(v) /\ v.m.pending = "none"
  <1>1. PICK d \in Auth!Delete(w) :
            v = [d.w EXCEPT !.m = [Auth!NewMachine EXCEPT !.presentation = "Failed",
                                                          !.mayContain = ~d.ok]]
    BY Zenon DEF Auth!ClearInvalidCredentials
  <1>2. /\ d.w \in AuthWorld /\ d.ok \in BOOLEAN
        /\ d.w.grant = w.grant /\ d.w.excused = w.excused
        /\ d.ok => d.w.stored = 0
        /\ ~d.ok => d.w.stored = w.stored
    BY AuthDeletes, Zenon
  <1> DEFINE n == [Auth!NewMachine EXCEPT !.presentation = "Failed", !.mayContain = ~d.ok]
  <1>3. /\ n \in AuthMachine /\ n.credentials = 0 /\ n.pending = "none" /\ n.persisted = FALSE
        /\ n.needPersist = FALSE /\ n.mayContain = ~d.ok
    BY <1>2, Zenon DEF Auth!NewMachine, AuthMachine
  <1> HIDE DEF n
  <1>4. v = [d.w EXCEPT !.m = n]
    BY <1>1, Zenon DEF n
  <1>5. /\ v \in AuthWorld /\ v.m = n /\ v.stored = d.w.stored /\ v.grant = d.w.grant
        /\ v.excused = d.w.excused
    BY <1>2, <1>3, <1>4 DEF AuthWorld
  <1>6. StoredIsCurrent(v)
    BY <1>2, <1>5, Zenon DEF StoredIsCurrent
  <1> QED
    BY <1>2, <1>3, <1>5, <1>6, Zenon DEF Left, Settled, Truthful, AbsentIsTold, SavesTheGrant,
       PersistedIsStored, PendingIsFirst

\* disconnect, whether the store lets go of the token or not.
LEMMA AuthDisconnects ==
    ASSUME NEW w \in AuthWorld, Truthful(w), SavesTheGrant(w) \/ w.m.expiring,
           NEW v \in Auth!DisconnectLocal(w)
    PROVE  Left(v) /\ v.m.pending = "none" /\ (w.m.credentials = 0 => v.m.credentials = 0)
  <1>1. PICK d \in Auth!Delete(w) :
            v = IF d.ok
                THEN [d.w EXCEPT !.m = Auth!NewMachine]
                ELSE [d.w EXCEPT !.m.pending = "none", !.m.mayContain = TRUE,
                                 !.m.presentation = "Failed", !.m.fresh = FALSE,
                                 !.m.retry = "none"]
    BY Zenon DEF Auth!DisconnectLocal
  <1>2. /\ d.w \in AuthWorld /\ d.ok \in BOOLEAN
        /\ d.w.m = w.m /\ d.w.grant = w.grant /\ d.w.excused = w.excused
        /\ d.ok => d.w.stored = 0
        /\ ~d.ok => d.w.stored = w.stored
    BY AuthDeletes, Zenon
  <1>3. CASE d.ok
    <2>1. v = [d.w EXCEPT !.m = Auth!NewMachine]
      BY <1>1, <1>3, Zenon
    <2>2. /\ v \in AuthWorld /\ v.m = Auth!NewMachine /\ v.stored = d.w.stored
      BY <1>2, <2>1, Zenon DEF AuthWorld, AuthMachine, Auth!NewMachine
    <2>3. /\ v.m.pending = "none" /\ v.m.credentials = 0 /\ v.m.persisted = FALSE
          /\ v.m.needPersist = FALSE /\ v.stored = 0
      BY <1>2, <1>3, <2>2 DEF Auth!NewMachine
    <2> QED
      BY <2>2, <2>3, Zenon DEF Left, Settled, Truthful, AbsentIsTold, SavesTheGrant,
         StoredIsCurrent, PersistedIsStored, PendingIsFirst
  <1>4. CASE ~d.ok
    <2>1. v = [d.w EXCEPT !.m.pending = "none", !.m.mayContain = TRUE,
                          !.m.presentation = "Failed", !.m.fresh = FALSE, !.m.retry = "none"]
      BY <1>1, <1>4, Zenon
    <2>2. /\ v \in AuthWorld /\ v.stored = d.w.stored /\ v.grant = d.w.grant
          /\ v.excused = d.w.excused
          /\ v.m.pending = "none" /\ v.m.mayContain = TRUE
          /\ v.m.credentials = d.w.m.credentials /\ v.m.persisted = d.w.m.persisted
          /\ v.m.needPersist = d.w.m.needPersist /\ v.m.expiring = d.w.m.expiring
      <3>1. PICK e \in AuthWorld : e = d.w
        BY <1>2, Zenon
      <3>2. v = [e EXCEPT !.m.pending = "none", !.m.mayContain = TRUE,
                          !.m.presentation = "Failed", !.m.fresh = FALSE, !.m.retry = "none"]
        BY <2>1, <3>1, Zenon
      <3>3. v \in AuthWorld
        <4>1. PICK n : n = [e.m EXCEPT !.pending = "none", !.mayContain = TRUE,
                              !.presentation = "Failed", !.fresh = FALSE, !.retry = "none"]
          OBVIOUS
        <4>2. n \in AuthMachine
          BY <4>1, Zenon DEF AuthWorld, AuthMachine
        <4>3. v = [e EXCEPT !.m = n]
          BY <3>2, <4>1, Zenon DEF AuthWorld
        <4> QED
          BY <4>2, <4>3 DEF AuthWorld
      <3>4. /\ v.stored = e.stored /\ v.grant = e.grant /\ v.excused = e.excused
            /\ v.m.pending = "none" /\ v.m.mayContain = TRUE
        BY <3>2, Zenon DEF AuthWorld, AuthMachine
      <3>5. /\ v.m.credentials = e.m.credentials /\ v.m.persisted = e.m.persisted
            /\ v.m.needPersist = e.m.needPersist /\ v.m.expiring = e.m.expiring
        BY <3>2, Zenon DEF AuthWorld, AuthMachine
      <3> QED
        BY <3>1, <3>3, <3>4, <3>5, Zenon
    <2>3. StoredIsCurrent(v) /\ PersistedIsStored(v) /\ (SavesTheGrant(v) \/ v.m.expiring)
      BY <1>2, <1>4, <2>2, Zenon DEF Truthful, StoredIsCurrent, PersistedIsStored, SavesTheGrant
    <2>4. v.m.credentials = w.m.credentials
      BY <1>2, <2>2, Zenon
    <2> QED
      BY <2>2, <2>3, <2>4, Zenon DEF Left, Settled, Truthful, AbsentIsTold, PendingIsFirst
  <1> QED
    BY <1>2, <1>3, <1>4, Zenon

\* An operation that only waits for its time.
LEMMA AuthWaits ==
    ASSUME NEW w \in AuthWorld, Truthful(w), w.m.credentials # 0,
           SavesTheGrant(w) \/ w.m.expiring, w.m.pending = "none"
    PROVE  Left(Auth!Transient(w)) /\ Auth!Transient(w).m.pending = "none"
  <1> DEFINE v == Auth!Transient(w)
  <1>1. /\ v \in AuthWorld /\ v.stored = w.stored /\ v.grant = w.grant /\ v.excused = w.excused
        /\ v.m.pending = w.m.pending /\ v.m.mayContain = w.m.mayContain
        /\ v.m.credentials = w.m.credentials /\ v.m.persisted = w.m.persisted
        /\ v.m.needPersist = w.m.needPersist /\ v.m.expiring = w.m.expiring
    BY Zenon DEF AuthWorld, AuthMachine, Auth!Transient
  <1> HIDE DEF v
  <1>2. StoredIsCurrent(v) /\ PersistedIsStored(v) /\ (SavesTheGrant(v) \/ v.m.expiring)
    BY <1>1, Zenon DEF Truthful, StoredIsCurrent, PersistedIsStored, SavesTheGrant
  <1>3. Left(v) /\ v.m.pending = "none"
    BY <1>1, <1>2, Zenon DEF Left, Settled, Truthful, AbsentIsTold, PendingIsFirst
  <1> QED
    BY <1>3, Zenon DEF v

\* Twitch refuses the token: the machine ends without credentials.
LEMMA AuthRefused ==
    ASSUME NEW w \in AuthWorld, Truthful(w), w.m.credentials # 0,
           SavesTheGrant(w) \/ w.m.expiring, w.m.pending = "none", NEW v \in Auth!Refused(w)
    PROVE  Left(v) /\ v.m.pending = "none"
  <1>1. StoredIsCurrent(w)
    BY Zenon DEF Truthful
  <1>2. CASE v \in Auth!ClearInvalidCredentials(w)
    BY <1>1, <1>2, AuthClears, Zenon
  <1>3. CASE w.faults > 0 /\ v \in {Auth!Transient(Auth!Failing(w))}
                                    \cup Auth!ClearInvalidCredentials(Auth!Failing(w))
    <2> DEFINE f == Auth!Failing(w)
    <2>1. /\ f \in AuthWorld /\ f.m = w.m /\ Truthful(f) /\ StoredIsCurrent(f)
          /\ SavesTheGrant(w) => SavesTheGrant(f)
      BY <1>1, <1>3, AuthFailsKeeps, Zenon
    <2>2. v = Auth!Transient(f) \/ v \in Auth!ClearInvalidCredentials(f)
      BY <1>3, Zenon
    <2> HIDE DEF f
    <2>3. SavesTheGrant(f) \/ f.m.expiring
      BY <2>1, Zenon
    <2>4. Left(Auth!Transient(f)) /\ Auth!Transient(f).m.pending = "none"
      BY <2>1, <2>3, AuthWaits, Zenon
    <2> QED
      BY <2>1, <2>2, <2>4, AuthClears, Zenon
  <1> QED
    BY <1>2, <1>3, Zenon DEF Auth!Refused, Auth!When

\* Validation of the token in use.
LEMMA AuthValidates ==
    ASSUME NEW w \in AuthWorld, Truthful(w), w.m.credentials # 0, SavesTheGrant(w),
           w.m.pending = "none", NEW v \in Auth!ValidateCurrent(w)
    PROVE  Left(v) /\ v.m.pending = "none"
  <1> DEFINE x == [w EXCEPT !.m.presentation = "Connected", !.m.fresh = TRUE,
                            !.m.expiring = FALSE, !.m.retry = "none"]
  <1>1. CASE v \in Auth!Refused(w)
    BY <1>1, AuthRefused, Zenon
  <1>2. CASE v \in Auth!PersistCurrentIfNeeded(x)
    <2>1. /\ x \in AuthWorld /\ x.stored = w.stored /\ x.grant = w.grant /\ x.excused = w.excused
          /\ x.m.pending = w.m.pending /\ x.m.mayContain = w.m.mayContain
          /\ x.m.credentials = w.m.credentials /\ x.m.persisted = w.m.persisted
          /\ x.m.needPersist = w.m.needPersist
      BY Zenon DEF AuthWorld, AuthMachine
    <2> HIDE DEF x
    <2>2. StoredIsCurrent(x) /\ PersistedIsStored(x) /\ SavesTheGrant(x) /\ AbsentIsTold(x)
      BY <2>1, Zenon DEF Truthful, StoredIsCurrent, PersistedIsStored, SavesTheGrant, AbsentIsTold
    <2> QED
      BY <1>2, <2>1, <2>2, AuthPersists, Zenon
  <1> QED
    BY <1>1, <1>2, Zenon DEF Auth!ValidateCurrent, Auth!When

\* A token Twitch has just issued is accepted and stored.
LEMMA AuthAccepts ==
    ASSUME NEW w \in AuthWorld
    PROVE  /\ Auth!Accepted(w) \in AuthWorld
           /\ Auth!Accepted(w).m.credentials # 0
           /\ Auth!Accepted(w).grant = Auth!Accepted(w).m.credentials
           /\ Auth!Accepted(w).m.persisted = FALSE /\ Auth!Accepted(w).m.needPersist = TRUE
           /\ Auth!Accepted(w).stored = w.stored
           /\ Auth!Accepted(w).m.pending = w.m.pending
  <1>1. PICK k \in Nat \ {0} : k = w.issued + 1
    BY DEF AuthWorld
  <1> DEFINE x == Auth!Accepted(w)
  <1>2. x = [w EXCEPT !.issued = k, !.grant = k, !.m.credentials = k, !.m.persisted = FALSE,
                      !.m.needPersist = TRUE]
    BY <1>1 DEF Auth!Accepted, AuthWorld
  <1> HIDE DEF x
  <1>3. /\ x \in AuthWorld /\ x.m.credentials = k /\ x.grant = k
        /\ x.m.persisted = FALSE /\ x.m.needPersist = TRUE /\ x.stored = w.stored
        /\ x.m.pending = w.m.pending
    BY <1>2, ZenonT(30) DEF AuthWorld, AuthMachine
  <1>4. k # 0
    OBVIOUS
  <1> QED
    BY <1>3, <1>4, Zenon DEF x

\* A refresh replaces the token at Twitch and stores the successor.
LEMMA AuthRefreshes ==
    ASSUME NEW w \in AuthWorld, w.m.pending = "none", NEW v \in Auth!RefreshToken(w)
    PROVE  Left(v) /\ SavesTheGrant(v) /\ v.m.pending = "none" /\ v.m.credentials # 0
  <1> DEFINE x == Auth!Accepted(w)
  <1>1. /\ x \in AuthWorld /\ x.m.credentials # 0 /\ x.grant = x.m.credentials
        /\ x.m.persisted = FALSE /\ x.m.needPersist = TRUE /\ x.m.pending = "none"
    BY AuthAccepts, Zenon
  <1>2. v \in Auth!PersistCurrentIfNeeded(x)
    BY Zenon DEF Auth!RefreshToken
  <1> HIDE DEF x
  <1>3. PersistedIsStored(x) /\ SavesTheGrant(x) /\ AbsentIsTold(x)
    BY <1>1, Zenon DEF PersistedIsStored, SavesTheGrant, AbsentIsTold
  <1> QED
    BY <1>1, <1>2, <1>3, AuthPersists, Zenon

\* A refresh that fails keeps the token and what is said of it.
LEMMA AuthRefreshFails ==
    ASSUME NEW w \in AuthWorld, Truthful(w), w.m.credentials # 0, w.m.expiring,
           w.m.pending = "none", NEW v \in Auth!RefreshFails(w)
    PROVE  Left(v) /\ v.m.pending = "none"
  <1> DEFINE y == [w EXCEPT !.issued = @ + 1, !.grant = w.issued + 1, !.excused = TRUE]
  <1>1. CASE v \in Auth!Refused(w)
    BY <1>1, AuthRefused, Zenon
  <1>2. CASE w.faults > 0 /\ v = Auth!Transient(Auth!Failing(y))
    <2>1. /\ y \in AuthWorld /\ y.excused = TRUE /\ y.stored = w.stored /\ y.m = w.m
          /\ y.faults = w.faults
      <3>1. w.issued + 1 \in Nat
        BY DEF AuthWorld
      <3> QED
        BY <3>1, Zenon DEF AuthWorld
    <2>2. v = Auth!Transient(Auth!Failing(y))
      BY <1>2, Zenon
    <2> HIDE DEF y
    <2>3. Truthful(y)
      BY <2>1, Zenon DEF Truthful, StoredIsCurrent, PersistedIsStored, PendingIsFirst
    <2>4. y.faults > 0
      BY <1>2, <2>1, Zenon
    <2>5. Auth!Failing(y) \in AuthWorld /\ Truthful(Auth!Failing(y)) /\ Auth!Failing(y).m = w.m
      BY <2>1, <2>3, <2>4, AuthFailsKeeps, Zenon
    <2> QED
      BY <2>2, <2>5, AuthWaits, Zenon
  <1> QED
    BY <1>1, <1>2, Zenon DEF Auth!RefreshFails, Auth!When

\* restore reads the store once at start.
LEMMA AuthRestores ==
    ASSUME NEW w \in AuthWorld, Truthful(w), SavesTheGrant(w) \/ w.m.expiring,
           w.m.pending = "none", w.m.credentials = 0, NEW v \in Auth!RestoreSession(w)
    PROVE  Left(v) /\ v.m.pending = "none"
  <1>1. CASE w.stored = 0 /\ v = [w EXCEPT !.m.mayContain = FALSE, !.m.retry = "none",
                                           !.m.presentation = "Disconnected"]
    <2>1. /\ v \in AuthWorld /\ v.stored = w.stored /\ v.grant = w.grant /\ v.excused = w.excused
          /\ v.m.pending = w.m.pending /\ v.m.expiring = w.m.expiring
          /\ v.m.credentials = w.m.credentials /\ v.m.persisted = w.m.persisted
          /\ v.m.needPersist = w.m.needPersist
      BY <1>1, Zenon DEF AuthWorld, AuthMachine
    <2>2. SavesTheGrant(v) \/ v.m.expiring
      BY <2>1, Zenon DEF SavesTheGrant
    <2> QED
      BY <1>1, <2>1, <2>2, Zenon DEF Left, Settled, Truthful, AbsentIsTold, StoredIsCurrent,
         PersistedIsStored, PendingIsFirst
  <1>2. ASSUME NEW x, w.stored # 0, v \in Auth!ValidateCurrent(x),
               x = [w EXCEPT !.m.credentials = w.stored, !.m.persisted = TRUE,
                             !.m.needPersist = FALSE, !.m.mayContain = TRUE, !.m.retry = "none"]
        PROVE  Left(v) /\ v.m.pending = "none"
    <2>1. /\ x \in AuthWorld /\ x.stored = w.stored /\ x.grant = w.grant /\ x.excused = w.excused
          /\ x.m.pending = w.m.pending /\ x.m.credentials = w.stored /\ x.m.needPersist = FALSE
      <3>1. x = [w EXCEPT !.m.credentials = w.stored, !.m.persisted = TRUE,
                          !.m.needPersist = FALSE, !.m.mayContain = TRUE, !.m.retry = "none"]
        BY <1>2, Zenon
      <3>2. x \in AuthWorld
        <4>1. PICK n : n = [w.m EXCEPT !.credentials = w.stored, !.persisted = TRUE,
                              !.needPersist = FALSE, !.mayContain = TRUE, !.retry = "none"]
          OBVIOUS
        <4>2. n \in AuthMachine
          BY <4>1, Zenon DEF AuthWorld, AuthMachine
        <4>3. x = [w EXCEPT !.m = n]
          BY <3>1, <4>1, Zenon DEF AuthWorld
        <4> QED
          BY <4>2, <4>3 DEF AuthWorld
      <3>3. /\ x.stored = w.stored /\ x.grant = w.grant /\ x.excused = w.excused
            /\ x.m.pending = w.m.pending /\ x.m.credentials = w.stored /\ x.m.needPersist = FALSE
        BY <3>1, Zenon DEF AuthWorld, AuthMachine
      <3> QED
        BY <3>2, <3>3, Zenon
    <2>2. Truthful(x) /\ SavesTheGrant(x)
      BY <2>1, Zenon DEF Truthful, StoredIsCurrent, PersistedIsStored, PendingIsFirst, SavesTheGrant
    <2> QED
      BY <1>2, <2>1, <2>2, AuthValidates, Zenon
  <1>3. ASSUME NEW f, f = Auth!Failing(w), w.faults > 0,
               v = [f EXCEPT !.m.mayContain = TRUE, !.m.retry = "waiting",
                             !.m.presentation = "Failed"]
        PROVE  Left(v) /\ v.m.pending = "none"
    <2>1. f \in AuthWorld /\ f.m = w.m /\ Truthful(f) /\ (SavesTheGrant(w) => SavesTheGrant(f))
      BY <1>3, AuthFailsKeeps, Zenon
    <2>2. SavesTheGrant(f) \/ f.m.expiring
      BY <2>1, Zenon
    <2>3. /\ v \in AuthWorld /\ v.stored = f.stored /\ v.grant = f.grant /\ v.excused = f.excused
          /\ v.m.pending = f.m.pending /\ v.m.expiring = f.m.expiring /\ v.m.mayContain = TRUE
          /\ v.m.credentials = f.m.credentials /\ v.m.persisted = f.m.persisted
          /\ v.m.needPersist = f.m.needPersist
      <3>1. /\ f \in AuthWorld
            /\ v = [f EXCEPT !.m.mayContain = TRUE, !.m.retry = "waiting",
                             !.m.presentation = "Failed"]
        BY <1>3, <2>1, Zenon
      <3>2. v \in AuthWorld
        BY <3>1, Zenon DEF AuthWorld, AuthMachine
      <3>3. /\ v.stored = f.stored /\ v.grant = f.grant /\ v.excused = f.excused
            /\ v.m.pending = f.m.pending /\ v.m.expiring = f.m.expiring /\ v.m.mayContain = TRUE
            /\ v.m.credentials = f.m.credentials /\ v.m.persisted = f.m.persisted
            /\ v.m.needPersist = f.m.needPersist
        BY <3>1, Zenon DEF AuthWorld, AuthMachine
      <3> QED
        BY <3>2, <3>3, Zenon
    <2>4. SavesTheGrant(v) \/ v.m.expiring
      BY <2>2, <2>3, Zenon DEF SavesTheGrant
    <2>5. StoredIsCurrent(v) /\ PersistedIsStored(v)
      BY <2>1, <2>3, Zenon DEF Truthful, StoredIsCurrent, PersistedIsStored
    <2>6. v.m.pending = "none"
      BY <2>1, <2>3, Zenon
    <2> QED
      BY <2>3, <2>4, <2>5, <2>6, Zenon DEF Left, Settled, Truthful, AbsentIsTold, PendingIsFirst
  <1> QED
    BY <1>1, <1>2, <1>3, Zenon DEF Auth!RestoreSession, Auth!When

\* poll, whatever is pending and whatever Twitch answers.
LEMMA AuthPolls ==
    ASSUME NEW w \in AuthWorld, Truthful(w), Settled(w), w.m.pending # "none",
           NEW v \in Auth!TickPending(w)
    PROVE  /\ Left(v)
           /\ \/ v.m.pending = "none"
              \/ v = [w EXCEPT !.m.pending = "waiting"]
  <1> DEFINE gone == [w EXCEPT !.m.pending = "none"]
             given_up == [gone EXCEPT !.m.presentation = "Failed"]
  <1>0. w.stored = 0
    BY Zenon DEF Truthful, PendingIsFirst
  <1>1. v = given_up \/ v = [w EXCEPT !.m.pending = "waiting"]
          \/ v \in Auth!ClearInvalidCredentials(gone)
          \/ v \in Auth!ValidateCurrent(Auth!Accepted(gone))
    BY Zenon DEF Auth!TickPending, Auth!When
  <1>2. /\ gone \in AuthWorld /\ gone.stored = w.stored /\ gone.m.pending = "none"
    BY DEF AuthWorld, AuthMachine
  <1>3. CASE v = given_up \/ v = [w EXCEPT !.m.pending = "waiting"]
    <2>1. /\ v \in AuthWorld /\ v.stored = w.stored /\ v.grant = w.grant
          /\ v.m.expiring = w.m.expiring /\ v.m.mayContain = w.m.mayContain
          /\ v.m.credentials = w.m.credentials /\ v.m.persisted = w.m.persisted
          /\ v.m.needPersist = w.m.needPersist
          /\ \/ v.m.pending = "none"
             \/ v = [w EXCEPT !.m.pending = "waiting"]
      <3>1. CASE v = [w EXCEPT !.m.pending = "waiting"]
        BY <3>1 DEF AuthWorld, AuthMachine
      <3>2. CASE v = given_up
        <4>1. v = [w EXCEPT !.m.pending = "none", !.m.presentation = "Failed"]
          BY <3>2 DEF AuthWorld, AuthMachine
        <4> HIDE DEF given_up
        <4> QED
          BY <4>1, Zenon DEF AuthWorld, AuthMachine
      <3> QED
        BY <1>3, <3>1, <3>2, Zenon
    <2>2. SavesTheGrant(v) \/ v.m.expiring
      BY <2>1, Zenon DEF Settled, SavesTheGrant
    <2>3. PersistedIsStored(v)
      BY <2>1, Zenon DEF Truthful, PersistedIsStored
    <2> QED
      BY <1>0, <2>1, <2>2, <2>3, Zenon DEF Left, Settled, Truthful, AbsentIsTold, StoredIsCurrent,
         PendingIsFirst
  <1> HIDE DEF gone, given_up
  <1>4. CASE v \in Auth!ClearInvalidCredentials(gone)
    <2>1. StoredIsCurrent(gone)
      BY <1>0, <1>2, Zenon DEF StoredIsCurrent
    <2> QED
      BY <1>2, <1>4, <2>1, AuthClears, Zenon
  <1>5. CASE v \in Auth!ValidateCurrent(Auth!Accepted(gone))
    <2> DEFINE x == Auth!Accepted(gone)
    <2>1. /\ x \in AuthWorld /\ x.m.credentials # 0 /\ x.grant = x.m.credentials
          /\ x.m.persisted = FALSE /\ x.stored = 0 /\ x.m.pending = "none"
      BY <1>0, <1>2, AuthAccepts, Zenon
    <2>2. v \in Auth!ValidateCurrent(x)
      BY <1>5, Zenon
    <2> HIDE DEF x
    <2>3. Truthful(x) /\ SavesTheGrant(x)
      BY <2>1, Zenon DEF Truthful, StoredIsCurrent, PersistedIsStored, PendingIsFirst, SavesTheGrant
    <2> QED
      BY <2>1, <2>2, <2>3, AuthValidates, Zenon
  <1> QED
    BY <1>1, <1>3, <1>4, <1>5, Zenon

\* The inductive invariant.
AuthInv ==
    /\ Auth!Now \in AuthWorld /\ restored \in BOOLEAN /\ phase \in {"idle", "refreshed"}
    /\ Truthful(Auth!Now)
    /\ SavesTheGrant(Auth!Now) \/ machine.expiring
    /\ restored => AbsentIsTold(Auth!Now)
    /\ ~restored => machine.pending = "none" /\ machine.credentials = 0 /\ phase = "idle"
    /\ phase = "refreshed" =>
         machine.pending = "none" /\ machine.credentials # 0 /\ SavesTheGrant(Auth!Now)

Leads(v) ==
    /\ machine' = v.m /\ stored' = v.stored /\ grant' = v.grant
    /\ issued' = v.issued /\ excused' = v.excused /\ faults' = v.faults

\* What an operation leaves is what the variables say.
LEMMA AuthLeads ==
    ASSUME NEW v \in AuthWorld, Leads(v)
    PROVE  Auth!Now' = v /\ machine' = v.m
  BY DEF AuthWorld, Leads, Auth!Now

\* A state that an operation left satisfies the invariant.
LEMMA AuthSettles ==
    ASSUME NEW v, Left(v), Leads(v), restored' \in BOOLEAN, phase' = "idle",
           ~restored' => v.m.pending = "none" /\ v.m.credentials = 0
    PROVE  AuthInv'
  <1>1. Auth!Now' = v /\ machine' = v.m /\ v \in AuthWorld
    BY AuthLeads, Zenon DEF Left
  <1>2. Auth!Now' \in AuthWorld /\ Truthful(Auth!Now')
        /\ (SavesTheGrant(Auth!Now') \/ machine'.expiring) /\ AbsentIsTold(Auth!Now')
    BY <1>1, Zenon DEF Left, Settled
  <1>3. restored' \in BOOLEAN /\ phase' \in {"idle", "refreshed"} /\ phase' # "refreshed"
    BY Zenon
  <1> QED
    BY <1>1, <1>2, <1>3, Zenon DEF AuthInv

\* The invariant holds at the start.
LEMMA AuthStarts ==
    ASSUME Faults \subseteq Nat, Auth!Init
    PROVE  AuthInv
  <1>1. Auth!Now \in AuthWorld /\ Auth!Now.m = Auth!NewMachine /\ Auth!Now.stored = stored
        /\ Auth!Now.grant = grant
    <2>1. stored \in Nat /\ grant \in Nat /\ issued \in Nat /\ faults \in Nat
      BY DEF Auth!Init
    <2>2. Auth!NewMachine \in AuthMachine
      BY DEF Auth!NewMachine, AuthMachine
    <2>3. machine = Auth!NewMachine /\ excused \in BOOLEAN
      BY Zenon DEF Auth!Init
    <2> QED
      BY <2>1, <2>2, <2>3 DEF Auth!Now, AuthWorld
  <1>2. /\ Auth!NewMachine.persisted = FALSE /\ Auth!NewMachine.pending = "none"
        /\ Auth!NewMachine.needPersist = FALSE /\ Auth!NewMachine.credentials = 0
    BY DEF Auth!NewMachine
  <1>3. grant = 0 \/ grant = stored
    BY Zenon DEF Auth!Init
  <1>4. Truthful(Auth!Now) /\ SavesTheGrant(Auth!Now)
    BY <1>1, <1>2, <1>3, Zenon DEF Truthful, StoredIsCurrent, PersistedIsStored, PendingIsFirst,
       SavesTheGrant
  <1>5. machine = Auth!NewMachine /\ restored = FALSE /\ phase = "idle" /\ phase # "refreshed"
    BY Zenon DEF Auth!Init
  <1> QED
    BY <1>1, <1>2, <1>4, <1>5, Zenon DEF AuthInv

\* The invariant is inductive: one step per operation of the machine.
LEMMA AuthSteps == AuthInv /\ [Auth!Next]_Auth!vars => AuthInv'
  <1> SUFFICES ASSUME AuthInv, [Auth!Next]_Auth!vars PROVE AuthInv'
    BY Zenon
  <1> DEFINE w == Auth!Now
  <1>w. /\ w \in AuthWorld /\ Truthful(w) /\ StoredIsCurrent(w)
        /\ SavesTheGrant(w) \/ w.m.expiring
        /\ restored => Left(w)
    BY Zenon DEF AuthInv, Truthful, Left, Settled, Auth!Now
  <1>m. /\ w.m = machine /\ w.stored = stored /\ w.grant = grant /\ w.issued = issued
        /\ w.excused = excused /\ w.faults = faults
    BY DEF Auth!Now
  <1>n. /\ Auth!NewMachine.credentials = 0 /\ Auth!NewMachine.pending = "none"
        /\ Auth!NewMachine.persisted = FALSE /\ Auth!NewMachine.needPersist = FALSE
        /\ Auth!NewMachine \in AuthMachine
    BY DEF Auth!NewMachine, AuthMachine
  <1>p. /\ ~restored => machine.pending = "none" /\ machine.credentials = 0 /\ phase = "idle"
        /\ phase = "refreshed" =>
             machine.pending = "none" /\ machine.credentials # 0 /\ SavesTheGrant(w)
    BY Zenon DEF AuthInv
  <1> HIDE DEF w
  <1>1. CASE Auth!Restore
    <2>1. PICK v \in Auth!RestoreSession(w) : Leads(v)
      BY <1>1, Zenon DEF Auth!Restore, Auth!Becomes, Leads, w
    <2>2. w.m.pending = "none" /\ w.m.credentials = 0
      BY <1>1, <1>m, <1>p, Zenon DEF Auth!Restore
    <2>3. Left(v)
      BY <1>w, <2>2, AuthRestores, Zenon
    <2>4. restored' /\ phase' = "idle"
      BY <1>1, <1>p, Zenon DEF Auth!Restore
    <2> QED
      BY <2>1, <2>3, <2>4, AuthSettles, Zenon
  <1>2. CASE Auth!Begin
    <2>0. restored /\ restored' /\ phase' = "idle"
      BY <1>2, Zenon DEF Auth!Begin, Auth!Idle, Auth!Commanded
    <2>1. PICK v : Leads(v) /\
              \/ v = [w EXCEPT !.m = [Auth!NewMachine EXCEPT !.pending = "waiting",
                                                             !.presentation = "AwaitingUser"]]
              \/ w.faults > 0 /\ v = [Auth!Failing(w) EXCEPT !.m.presentation = "Failed"]
      BY <1>2, <1>m, Zenon DEF Auth!Begin, Auth!Becomes, Auth!When, Leads, w
    <2>2. w.stored = 0
      BY <1>2, <1>m, <1>w, <2>0, Zenon DEF Auth!Begin, Auth!CredentialsAvailable, Left, Settled,
         AbsentIsTold
    <2>3. CASE v = [w EXCEPT !.m = [Auth!NewMachine EXCEPT !.pending = "waiting",
                                                           !.presentation = "AwaitingUser"]]
      <3>1. /\ v \in AuthWorld /\ v.stored = w.stored /\ v.m.persisted = FALSE
            /\ v.m.needPersist = FALSE
        BY <1>w, <2>3, Zenon DEF AuthWorld, AuthMachine, Auth!NewMachine
      <3>2. Left(v)
        BY <2>2, <3>1, Zenon DEF Left, Settled, Truthful, AbsentIsTold, SavesTheGrant,
           StoredIsCurrent, PersistedIsStored, PendingIsFirst
      <3> QED
        BY <2>0, <2>1, <3>2, AuthSettles, Zenon
    <2>4. CASE w.faults > 0 /\ v = [Auth!Failing(w) EXCEPT !.m.presentation = "Failed"]
      <3> DEFINE f == Auth!Failing(w)
      <3>1. f \in AuthWorld /\ Left(f) /\ v = [f EXCEPT !.m.presentation = "Failed"]
        BY <1>w, <2>0, <2>4, AuthFailsKeeps, Zenon
      <3> HIDE DEF f
      <3>2. /\ v \in AuthWorld /\ v.stored = f.stored /\ v.grant = f.grant
            /\ v.excused = f.excused /\ v.m.pending = f.m.pending
            /\ v.m.expiring = f.m.expiring /\ v.m.mayContain = f.m.mayContain
            /\ v.m.credentials = f.m.credentials /\ v.m.persisted = f.m.persisted
            /\ v.m.needPersist = f.m.needPersist
        BY <3>1 DEF AuthWorld, AuthMachine
      <3>3. Left(v)
        BY <3>1, <3>2, AuthKeeps, Zenon
      <3> QED
        BY <2>0, <2>1, <3>3, AuthSettles, Zenon
    <2> QED
      BY <2>1, <2>3, <2>4, Zenon
  <1>3. CASE Auth!Cancel \/ Auth!CancelPending
    <2>0. restored' = restored /\ phase = "idle" /\ phase' = "idle" /\ phase' # "refreshed"
      <3>1. Auth!Commanded
        BY <1>3, Zenon DEF Auth!Cancel, Auth!CancelPending, Auth!Idle
      <3> QED
        BY <3>1, Zenon DEF Auth!Commanded
    <2>1. PICK v : Leads(v)
                   /\ v = [w EXCEPT !.m.pending = "none", !.m.presentation = "Disconnected"]
      BY <1>3, Zenon DEF Auth!Cancel, Auth!CancelPending, Auth!Becomes, Leads, w
    <2>2. /\ v \in AuthWorld /\ v.stored = w.stored /\ v.grant = w.grant
          /\ v.excused = w.excused /\ v.m.pending = "none"
          /\ v.m.expiring = w.m.expiring /\ v.m.mayContain = w.m.mayContain
          /\ v.m.credentials = w.m.credentials /\ v.m.persisted = w.m.persisted
          /\ v.m.needPersist = w.m.needPersist
      BY <1>w, <2>1, Zenon DEF AuthWorld, AuthMachine
    <2>3. CASE restored
      <3>1. Left(v)
        BY <1>w, <2>2, <2>3, AuthKeeps, Zenon
      <3> QED
        BY <2>0, <2>1, <2>3, <3>1, AuthSettles, Zenon
    <2>4. CASE ~restored
      <3>1. Auth!Now' = v /\ machine' = v.m
        BY <2>1, <2>2, AuthLeads, Zenon
      <3>2. Truthful(v) /\ (SavesTheGrant(v) \/ v.m.expiring)
        BY <1>w, <2>2, Zenon DEF Truthful, StoredIsCurrent, PersistedIsStored, PendingIsFirst,
           SavesTheGrant
      <3>3. v.m.pending = "none" /\ v.m.credentials = 0
        BY <1>m, <1>p, <2>2, <2>4, Zenon
      <3>4. restored' = FALSE /\ restored' \in BOOLEAN /\ phase' \in {"idle", "refreshed"}
        BY <2>0, <2>4, Zenon DEF AuthInv
      <3> QED
        BY <2>0, <2>2, <3>1, <3>2, <3>3, <3>4, Zenon DEF AuthInv
    <2> QED
      BY <2>3, <2>4, Zenon
  <1>4. CASE Auth!Invalidate
    <2>0. restored' /\ phase' = "idle"
      BY <1>4, Zenon DEF Auth!Invalidate, Auth!Idle, Auth!Commanded
    <2>1. PICK v : Leads(v) /\ \/ v \in Auth!ClearInvalidCredentials(w)
                               \/ w.faults > 0 /\ v \in Auth!ClearInvalidCredentials(Auth!Failing(w))
      BY <1>4, <1>m, Zenon DEF Auth!Invalidate, Auth!Becomes, Auth!When, Leads, w
    <2>2. w.faults > 0 => Auth!Failing(w) \in AuthWorld /\ StoredIsCurrent(Auth!Failing(w))
      BY <1>w, AuthFailsKeeps, Zenon
    <2>3. Left(v)
      BY <1>w, <2>1, <2>2, AuthClears, Zenon
    <2> QED
      BY <2>0, <2>1, <2>3, AuthSettles, Zenon
  <1>5. CASE Auth!SignOut
    <2>0. restored' = restored /\ restored \in BOOLEAN /\ phase' = "idle"
      BY <1>5, Zenon DEF Auth!SignOut, Auth!Commanded, AuthInv
    <2> DEFINE x == [w EXCEPT !.grant = IF machine.credentials # 0 THEN 0 ELSE @]
    <2>1. PICK v : Leads(v) /\ \/ v \in Auth!DisconnectLocal(x)
                               \/ w.faults > 0 /\ v \in Auth!DisconnectLocal(Auth!Failing(w))
      BY <1>5, <1>m, Zenon DEF Auth!SignOut, Auth!Becomes, Auth!When, Leads, w
    <2>2. /\ x \in AuthWorld /\ x.m = w.m /\ x.stored = w.stored /\ x.excused = w.excused
          /\ x.grant = 0 \/ x.grant = w.grant
      BY <1>w DEF AuthWorld
    <2> HIDE DEF x
    <2>3. Truthful(x) /\ (SavesTheGrant(x) \/ x.m.expiring)
      BY <1>w, <2>2, Zenon DEF Truthful, StoredIsCurrent, PersistedIsStored, PendingIsFirst,
         SavesTheGrant
    <2>4. w.faults > 0 =>
            /\ Auth!Failing(w) \in AuthWorld /\ Truthful(Auth!Failing(w))
            /\ SavesTheGrant(Auth!Failing(w)) \/ Auth!Failing(w).m.expiring
      BY <1>w, AuthFailsKeeps, Zenon
    <2>5. Left(v) /\ v.m.pending = "none" /\ (w.m.credentials = 0 => v.m.credentials = 0)
      <3>1. w.faults > 0 => Auth!Failing(w).m = w.m
        BY <1>w, AuthFailsKeeps, Zenon
      <3> QED
        BY <2>1, <2>2, <2>3, <2>4, <3>1, AuthDisconnects, Zenon
    <2>6. ~restored => w.m.credentials = 0
      BY <1>m, <1>p, Zenon
    <2> QED
      BY <2>0, <2>1, <2>5, <2>6, AuthSettles, Zenon
  <1>6. CASE Auth!Tick
    <2>0. restored /\ restored' /\ phase = "idle"
      BY <1>6, Zenon DEF Auth!Tick
    <2>l. Left(w) /\ Settled(w)
      BY <1>w, <2>0, Zenon DEF Left
    <2>1. CASE machine.pending # "none" /\ Auth!Becomes(Auth!TickPending(Auth!Now))
               /\ UNCHANGED phase
      <3>1. PICK v \in Auth!TickPending(w) : Leads(v)
        BY <2>1, Zenon DEF Auth!Becomes, Leads, w
      <3>2. Left(v)
        BY <1>m, <1>w, <2>1, <2>l, AuthPolls, Zenon
      <3> QED
        BY <2>0, <2>1, <3>1, <3>2, AuthSettles, Zenon
    <2>2. CASE machine.pending = "none" /\ machine.credentials = 0
               /\ Auth!Becomes(Auth!RestoreSession(Auth!Now)) /\ UNCHANGED phase
      <3>1. PICK v \in Auth!RestoreSession(w) : Leads(v)
        BY <2>2, Zenon DEF Auth!Becomes, Leads, w
      <3>2. Left(v)
        BY <1>m, <1>w, <2>2, AuthRestores, Zenon
      <3> QED
        BY <2>0, <2>2, <3>1, <3>2, AuthSettles, Zenon
    <2>3. CASE machine.pending = "none" /\ machine.credentials # 0 /\ machine.expiring
               /\ Auth!Becomes(Auth!RefreshFails(Auth!Now)) /\ UNCHANGED phase
      <3>1. PICK v \in Auth!RefreshFails(w) : Leads(v)
        BY <2>3, Zenon DEF Auth!Becomes, Leads, w
      <3>2. Left(v)
        BY <1>m, <1>w, <2>3, AuthRefreshFails, Zenon
      <3> QED
        BY <2>0, <2>3, <3>1, <3>2, AuthSettles, Zenon
    <2>4. CASE machine.pending = "none"
               /\ Auth!Becomes(Auth!RefreshToken(Auth!Now)) /\ phase' = "refreshed"
      <3>1. PICK v \in Auth!RefreshToken(w) : Leads(v)
        BY <2>4, Zenon DEF Auth!Becomes, Leads, w
      <3>2. Left(v) /\ SavesTheGrant(v) /\ v.m.pending = "none" /\ v.m.credentials # 0
        BY <1>m, <1>w, <2>4, AuthRefreshes, Zenon
      <3>3. Auth!Now' = v /\ machine' = v.m
        BY <3>1, <3>2, AuthLeads, Zenon DEF Left
      <3>4. /\ Auth!Now' \in AuthWorld /\ Truthful(Auth!Now') /\ AbsentIsTold(Auth!Now')
            /\ SavesTheGrant(Auth!Now')
            /\ machine'.pending = "none" /\ machine'.credentials # 0
        BY <3>2, <3>3, Zenon DEF Left, Settled
      <3>5. restored' \in BOOLEAN /\ phase' \in {"idle", "refreshed"}
        BY <2>0, <2>4, Zenon
      <3> QED
        BY <2>0, <3>4, <3>5, Zenon DEF AuthInv
    <2>5. CASE machine.pending = "none" /\ machine.credentials # 0 /\ ~machine.expiring
               /\ Auth!Becomes(Auth!ValidateCurrent(Auth!Now)) /\ UNCHANGED phase
      <3>1. PICK v \in Auth!ValidateCurrent(w) : Leads(v)
        BY <2>5, Zenon DEF Auth!Becomes, Leads, w
      <3>2. Left(v)
        BY <1>m, <1>w, <2>5, AuthValidates, Zenon
      <3> QED
        BY <2>0, <2>5, <3>1, <3>2, AuthSettles, Zenon
    <2> QED
      BY <1>6, <2>1, <2>2, <2>3, <2>4, <2>5 DEF Auth!Tick
  <1>7. CASE Auth!ValidateRefreshed
    <2>1. PICK v \in Auth!ValidateCurrent(w) : Leads(v)
      BY <1>7, Zenon DEF Auth!ValidateRefreshed, Auth!Becomes, Leads, w
    <2>2. w.m.pending = "none" /\ w.m.credentials # 0 /\ SavesTheGrant(w)
      BY <1>7, <1>m, <1>p, Zenon DEF Auth!ValidateRefreshed
    <2>3. Left(v)
      BY <1>w, <2>2, AuthValidates, Zenon
    <2>4. restored' /\ phase' = "idle"
      <3>1. phase # "idle"
        BY <1>7, Zenon DEF Auth!ValidateRefreshed
      <3> QED
        BY <1>7, <1>p, <3>1, Zenon DEF Auth!ValidateRefreshed
    <2> QED
      BY <2>1, <2>3, <2>4, AuthSettles, Zenon
  <1>8. CASE Auth!TimePasses
    <2>0. restored /\ restored' /\ phase' = "idle"
      <3>1. Auth!Idle
        BY <1>8, Zenon DEF Auth!TimePasses
      <3> QED
        BY <3>1, Zenon DEF Auth!Idle, Auth!Commanded
    <2>1. /\ UNCHANGED <<stored, grant, issued, excused, faults>>
          /\ \/ machine.pending = "waiting" /\ machine' = [machine EXCEPT !.pending = "due"]
             \/ machine.pending \in {"waiting", "due"}
                /\ machine' = [machine EXCEPT !.pending = "expired"]
             \/ machine' = [machine EXCEPT !.retry = "due"]
             \/ machine' = [machine EXCEPT !.fresh = FALSE]
             \/ machine' = [machine EXCEPT !.expiring = TRUE]
      BY <1>8, Zenon DEF Auth!TimePasses
    <2>2. machine \in AuthMachine
      BY <1>w, <1>m DEF AuthWorld
    <2>3. /\ machine' \in AuthMachine
          /\ machine'.pending # "none" => machine.pending # "none"
          /\ machine.expiring => machine'.expiring
          /\ machine'.mayContain = machine.mayContain
          /\ machine'.credentials = machine.credentials
          /\ machine'.persisted = machine.persisted
          /\ machine'.needPersist = machine.needPersist
      BY <2>1, <2>2, Zenon DEF AuthMachine
    <2>4. PICK v : v = [w EXCEPT !.m = machine']
      BY Zenon
    <2>5. /\ v \in AuthWorld /\ v.m = machine' /\ v.stored = stored /\ v.grant = grant
          /\ v.issued = issued /\ v.excused = excused /\ v.faults = faults
      BY <1>m, <1>w, <2>3, <2>4 DEF AuthWorld
    <2>6. Left(v)
      BY <1>m, <1>w, <2>0, <2>3, <2>5, AuthKeeps, Zenon
    <2>7. Leads(v)
      BY <2>1, <2>5, Zenon DEF Leads
    <2> QED
      BY <2>0, <2>6, <2>7, AuthSettles, Zenon
  <1>9. CASE Auth!RevokedElsewhere
    <2>1. /\ faults' = faults - 1 /\ faults > 0 /\ grant' = 0
          /\ UNCHANGED <<machine, stored, issued, excused, restored, phase>>
      BY <1>9, Zenon DEF Auth!RevokedElsewhere
    <2>2. faults' \in Nat
      BY <1>w, <1>m, <2>1 DEF AuthWorld
    <2>3. Auth!Now' \in AuthWorld /\ Auth!Now'.m = w.m /\ Auth!Now'.stored = w.stored
          /\ Auth!Now'.grant = 0 /\ machine' = machine
      BY <1>w, <1>m, <2>1, <2>2 DEF AuthWorld, Auth!Now
    <2>4. /\ Truthful(Auth!Now') /\ SavesTheGrant(Auth!Now')
          /\ AbsentIsTold(w) => AbsentIsTold(Auth!Now')
      BY <1>w, <2>3, Zenon DEF Truthful, StoredIsCurrent, PersistedIsStored, PendingIsFirst,
         SavesTheGrant, AbsentIsTold
    <2>5. restored => AbsentIsTold(w)
      BY <1>w, Zenon DEF Left, Settled
    <2>6. restored' \in BOOLEAN /\ phase' \in {"idle", "refreshed"}
      BY <2>1, Zenon DEF AuthInv
    <2> QED
      BY <1>p, <2>1, <2>3, <2>4, <2>5, <2>6, Zenon DEF AuthInv
  <1>10. CASE Auth!Crash
    <2>1. /\ faults' = faults - 1 /\ faults > 0 /\ machine' = Auth!NewMachine
          /\ restored' = FALSE /\ phase' = "idle"
          /\ UNCHANGED <<stored, grant, issued, excused>>
      BY <1>10, Zenon DEF Auth!Crash
    <2>2. faults' \in Nat
      BY <1>w, <1>m, <2>1 DEF AuthWorld
    <2>3. /\ Auth!Now' \in AuthWorld /\ Auth!Now'.m = Auth!NewMachine
          /\ Auth!Now'.stored = w.stored /\ Auth!Now'.grant = w.grant
          /\ Auth!Now'.excused = w.excused
      BY <1>w, <1>m, <1>n, <2>1, <2>2 DEF AuthWorld, Auth!Now
    <2>4. Truthful(Auth!Now') /\ SavesTheGrant(Auth!Now')
      BY <1>w, <1>n, <2>3, Zenon DEF Truthful, StoredIsCurrent, PersistedIsStored, PendingIsFirst,
         SavesTheGrant
    <2>5. restored' \in BOOLEAN /\ phase' \in {"idle", "refreshed"} /\ phase' # "refreshed"
      BY <2>1, Zenon
    <2> QED
      BY <1>n, <2>1, <2>3, <2>4, <2>5, Zenon DEF AuthInv
  <1>11. CASE UNCHANGED Auth!vars
    <2>1. Auth!Now' = w /\ UNCHANGED <<machine, restored, phase>>
      BY <1>11, Zenon DEF Auth!vars, Auth!Now, w
    <2> QED
      BY <1>p, <2>1, Zenon DEF AuthInv, w
  <1> QED
    BY <1>1, <1>2, <1>3, <1>4, <1>5, <1>6, <1>7, <1>8, <1>9, <1>10, <1>11, Zenon DEF Auth!Next

\* Across refreshes, failed saves, lost answers and crashes at any point, a refresh token
\* that Twitch has replaced is not the one that stays stored, and what the machine says of
\* the Secret Service entry is so (refresh saves the successor before it validates).
THEOREM TokensCorrect ==
    ASSUME Faults \subseteq Nat PROVE Auth!Spec => []TokensAreTrue
  <1>1. Auth!Init => AuthInv
    BY AuthStarts, Zenon
  <1>2. AuthInv /\ [Auth!Next]_Auth!vars => AuthInv'
    BY AuthSteps, Zenon
  <1>3. AuthInv => Auth!TokensAreTrue
    <2> SUFFICES ASSUME AuthInv PROVE Auth!TokensAreTrue
      BY Zenon
    <2>1. /\ Auth!Now.m = machine /\ Auth!Now.stored = stored /\ Auth!Now.grant = grant
          /\ Auth!Now.excused = excused
      BY DEF Auth!Now
    <2>2. StoredIsCurrent(Auth!Now) /\ PersistedIsStored(Auth!Now)
          /\ (restored => AbsentIsTold(Auth!Now))
      BY Zenon DEF AuthInv, Truthful
    <2> QED
      BY <2>1, <2>2, Zenon DEF Auth!TokensAreTrue, Auth!ConsumedTokenIsNotStored,
         Auth!StoreIsTold, Auth!CredentialsAvailable, StoredIsCurrent, PersistedIsStored,
         AbsentIsTold
  <1> QED
    BY <1>1, <1>2, <1>3, PTL DEF Auth!Spec, TokensAreTrue

\* What the chat provider sees of a machine.
Answer(m) ==
    [can |-> Auth!CanConnect(m), awaiting |-> m.pending # "none",
     available |-> Auth!CredentialsAvailable(m)]

\* What an answer of the machine is to the chat provider.
LEMMA AuthAnswers ==
    ASSUME NEW m, m.pending = "none"
    PROVE  Answer(m) \in Auth!Promise!Restored
  <1>1. (m.pending # "none") = FALSE
    BY Zenon
  <1>2. CASE Auth!CanConnect(m)
    <2>1. Auth!CanConnect(m) = TRUE /\ Auth!CredentialsAvailable(m) = TRUE
      BY <1>2, Zenon DEF Auth!CanConnect, Auth!CredentialsAvailable
    <2> QED
      BY <1>1, <2>1, Zenon DEF Answer, Auth!Promise!Restored, Auth!Promise!Connected,
         Auth!Promise!Session
  <1>3. CASE ~Auth!CanConnect(m) /\ Auth!CredentialsAvailable(m)
    <2>1. Auth!CanConnect(m) = FALSE /\ Auth!CredentialsAvailable(m) = TRUE
      BY <1>3, Zenon DEF Auth!CanConnect, Auth!CredentialsAvailable
    <2> QED
      BY <1>1, <2>1, Zenon DEF Answer, Auth!Promise!Restored, Auth!Promise!Unavailable,
         Auth!Promise!Session
  <1>4. CASE ~Auth!CanConnect(m) /\ ~Auth!CredentialsAvailable(m)
    <2>1. Auth!CanConnect(m) = FALSE /\ Auth!CredentialsAvailable(m) = FALSE
      BY <1>4, Zenon DEF Auth!CanConnect, Auth!CredentialsAvailable
    <2> QED
      BY <1>1, <2>1, Zenon DEF Answer, Auth!Promise!Restored, Auth!Promise!SignedOut,
         Auth!Promise!Session
  <1> QED
    BY <1>2, <1>3, <1>4, Zenon

\* The promise sees no more of a state than its answer.
LEMMA AuthSees ==
    ASSUME NEW m, NEW n, m.pending # "none" <=> n.pending # "none",
           m.mayContain = n.mayContain, m.credentials = n.credentials,
           m.presentation = n.presentation
    PROVE  Answer(m) = Answer(n)
  <1>1. /\ (m.pending # "none") = (n.pending # "none")
        /\ Auth!CanConnect(m) = Auth!CanConnect(n)
        /\ Auth!CredentialsAvailable(m) = Auth!CredentialsAvailable(n)
    BY Zenon DEF Auth!CanConnect, Auth!CredentialsAvailable
  <1> QED
    BY <1>1, Zenon DEF Answer

\* After every step no code is polled, or one has just been asked for, or the provider sees
\* no change.
LEMMA AuthMoves ==
    ASSUME AuthInv, [Auth!Next]_Auth!vars
    PROVE  \/ machine'.pending = "none"
           \/ ~Auth!CredentialsAvailable(machine) /\ Answer(machine') = Auth!Promise!Awaiting
           \/ Answer(machine') = Answer(machine)
  <1> DEFINE w == Auth!Now
  <1>w. /\ w \in AuthWorld /\ Truthful(w) /\ StoredIsCurrent(w)
        /\ SavesTheGrant(w) \/ w.m.expiring
        /\ restored => Settled(w)
    BY Zenon DEF AuthInv, Truthful, Settled, Auth!Now
  <1>m. w.m = machine /\ w.faults = faults
    BY DEF Auth!Now
  <1>n. Auth!NewMachine.credentials = 0 /\ Auth!NewMachine.pending = "none"
    BY DEF Auth!NewMachine
  <1>p. /\ ~restored => machine.pending = "none" /\ machine.credentials = 0 /\ phase = "idle"
        /\ phase = "refreshed" =>
             machine.pending = "none" /\ machine.credentials # 0 /\ SavesTheGrant(w)
    BY Zenon DEF AuthInv
  <1>q. machine \in AuthMachine
    BY <1>w, <1>m DEF AuthWorld
  <1> HIDE DEF w
  <1>1. CASE Auth!Restore
    <2>1. PICK v \in Auth!RestoreSession(w) : Leads(v)
      BY <1>1, Zenon DEF Auth!Restore, Auth!Becomes, Leads, w
    <2>2. w.m.pending = "none" /\ w.m.credentials = 0
      BY <1>1, <1>m, <1>p, Zenon DEF Auth!Restore
    <2>3. v.m.pending = "none"
      BY <1>w, <2>2, AuthRestores, Zenon
    <2> QED
      BY <2>1, <2>3, Zenon DEF Leads
  <1>2. CASE Auth!Begin
    <2>1. PICK v : Leads(v) /\
              \/ v = [w EXCEPT !.m = [Auth!NewMachine EXCEPT !.pending = "waiting",
                                                             !.presentation = "AwaitingUser"]]
              \/ w.faults > 0 /\ v = [Auth!Failing(w) EXCEPT !.m.presentation = "Failed"]
      BY <1>2, <1>m, Zenon DEF Auth!Begin, Auth!Becomes, Auth!When, Leads, w
    <2>2. ~Auth!CanConnect(machine) /\ ~Auth!CredentialsAvailable(machine)
      BY <1>2, Zenon DEF Auth!Begin
    <2>3. CASE v = [w EXCEPT !.m = [Auth!NewMachine EXCEPT !.pending = "waiting",
                                                           !.presentation = "AwaitingUser"]]
      <3>1. v.m = [Auth!NewMachine EXCEPT !.pending = "waiting", !.presentation = "AwaitingUser"]
        BY <1>w, <2>3 DEF AuthWorld
      <3>2. v.m.credentials = 0 /\ v.m.pending # "none" /\ ~v.m.mayContain
        BY <3>1 DEF Auth!NewMachine
      <3>3. /\ Auth!CanConnect(v.m) = FALSE /\ (v.m.pending # "none") = TRUE
            /\ Auth!CredentialsAvailable(v.m) = FALSE
        BY <3>2, Zenon DEF Auth!CanConnect, Auth!CredentialsAvailable
      <3> QED
        BY <2>1, <2>2, <3>3, Zenon DEF Leads, Answer, Auth!Promise!Awaiting, Auth!Promise!Session
    <2>4. CASE w.faults > 0 /\ v = [Auth!Failing(w) EXCEPT !.m.presentation = "Failed"]
      <3> DEFINE f == Auth!Failing(w)
      <3>1. f \in AuthWorld /\ f.m = machine /\ v = [f EXCEPT !.m.presentation = "Failed"]
        BY <1>m, <1>w, <2>4, AuthFailsKeeps, Zenon
      <3> HIDE DEF f
      <3>2. /\ v.m.pending = machine.pending /\ v.m.mayContain = machine.mayContain
            /\ v.m.credentials = machine.credentials /\ v.m.presentation # "Connected"
        BY <3>1 DEF AuthWorld, AuthMachine
      <3>3. Auth!CanConnect(v.m) = FALSE /\ Auth!CanConnect(machine) = FALSE
        BY <2>2, <3>2, Zenon DEF Auth!CanConnect
      <3>4. Auth!CredentialsAvailable(v.m) = Auth!CredentialsAvailable(machine)
        BY <3>2, Zenon DEF Auth!CredentialsAvailable
      <3> QED
        BY <2>1, <3>2, <3>3, <3>4, Zenon DEF Leads, Answer
    <2> QED
      BY <2>1, <2>3, <2>4, Zenon
  <1>3. CASE Auth!Cancel \/ Auth!CancelPending
    <2>1. PICK v : Leads(v)
                   /\ v = [w EXCEPT !.m.pending = "none", !.m.presentation = "Disconnected"]
      BY <1>3, Zenon DEF Auth!Cancel, Auth!CancelPending, Auth!Becomes, Leads, w
    <2>2. v.m.pending = "none"
      BY <1>w, <2>1, Zenon DEF AuthWorld, AuthMachine
    <2> QED
      BY <2>1, <2>2, Zenon DEF Leads
  <1>4. CASE Auth!Invalidate
    <2>1. PICK v : Leads(v) /\ \/ v \in Auth!ClearInvalidCredentials(w)
                               \/ w.faults > 0 /\ v \in Auth!ClearInvalidCredentials(Auth!Failing(w))
      BY <1>4, <1>m, Zenon DEF Auth!Invalidate, Auth!Becomes, Auth!When, Leads, w
    <2>2. w.faults > 0 => Auth!Failing(w) \in AuthWorld /\ StoredIsCurrent(Auth!Failing(w))
      BY <1>w, AuthFailsKeeps, Zenon
    <2>3. v.m.pending = "none"
      BY <1>w, <2>1, <2>2, AuthClears, Zenon
    <2> QED
      BY <2>1, <2>3, Zenon DEF Leads
  <1>5. CASE Auth!SignOut
    <2> DEFINE x == [w EXCEPT !.grant = IF machine.credentials # 0 THEN 0 ELSE @]
    <2>1. PICK v : Leads(v) /\ \/ v \in Auth!DisconnectLocal(x)
                               \/ w.faults > 0 /\ v \in Auth!DisconnectLocal(Auth!Failing(w))
      BY <1>5, <1>m, Zenon DEF Auth!SignOut, Auth!Becomes, Auth!When, Leads, w
    <2>2. /\ x \in AuthWorld /\ x.m = w.m /\ x.stored = w.stored /\ x.excused = w.excused
          /\ x.grant = 0 \/ x.grant = w.grant
      BY <1>w DEF AuthWorld
    <2> HIDE DEF x
    <2>3. Truthful(x) /\ (SavesTheGrant(x) \/ x.m.expiring)
      BY <1>w, <2>2, Zenon DEF Truthful, StoredIsCurrent, PersistedIsStored, PendingIsFirst,
         SavesTheGrant
    <2>4. w.faults > 0 =>
            /\ Auth!Failing(w) \in AuthWorld /\ Truthful(Auth!Failing(w))
            /\ SavesTheGrant(Auth!Failing(w)) \/ Auth!Failing(w).m.expiring
      BY <1>w, AuthFailsKeeps, Zenon
    <2>5. v.m.pending = "none"
      BY <2>1, <2>2, <2>3, <2>4, AuthDisconnects, Zenon
    <2> QED
      BY <2>1, <2>5, Zenon DEF Leads
  <1>6. CASE Auth!Tick
    <2>1. CASE machine.pending # "none" /\ Auth!Becomes(Auth!TickPending(Auth!Now))
      <3>1. PICK v \in Auth!TickPending(w) : Leads(v)
        BY <2>1, Zenon DEF Auth!Becomes, Leads, w
      <3>2. restored
        BY <1>6, Zenon DEF Auth!Tick
      <3>3. v.m.pending = "none" \/ v = [w EXCEPT !.m.pending = "waiting"]
        BY <1>m, <1>w, <2>1, <3>2, AuthPolls, Zenon
      <3>4. CASE v = [w EXCEPT !.m.pending = "waiting"]
        <4>1. /\ v.m.pending # "none" /\ v.m.mayContain = machine.mayContain
              /\ v.m.credentials = machine.credentials
              /\ v.m.presentation = machine.presentation
          BY <1>m, <1>w, <3>4 DEF AuthWorld, AuthMachine
        <4> QED
          BY <2>1, <3>1, <4>1, AuthSees, Zenon DEF Leads
      <3> QED
        BY <3>1, <3>3, <3>4, Zenon DEF Leads
    <2>2. CASE machine.pending = "none" /\ machine.credentials = 0
               /\ Auth!Becomes(Auth!RestoreSession(Auth!Now))
      <3>1. PICK v \in Auth!RestoreSession(w) : Leads(v)
        BY <2>2, Zenon DEF Auth!Becomes, Leads, w
      <3>2. v.m.pending = "none"
        BY <1>m, <1>w, <2>2, AuthRestores, Zenon
      <3> QED
        BY <3>1, <3>2, Zenon DEF Leads
    <2>3. CASE machine.pending = "none" /\ machine.credentials # 0 /\ machine.expiring
               /\ Auth!Becomes(Auth!RefreshFails(Auth!Now))
      <3>1. PICK v \in Auth!RefreshFails(w) : Leads(v)
        BY <2>3, Zenon DEF Auth!Becomes, Leads, w
      <3>2. v.m.pending = "none"
        BY <1>m, <1>w, <2>3, AuthRefreshFails, Zenon
      <3> QED
        BY <3>1, <3>2, Zenon DEF Leads
    <2>4. CASE machine.pending = "none" /\ Auth!Becomes(Auth!RefreshToken(Auth!Now))
      <3>1. PICK v \in Auth!RefreshToken(w) : Leads(v)
        BY <2>4, Zenon DEF Auth!Becomes, Leads, w
      <3>2. v.m.pending = "none"
        BY <1>m, <1>w, <2>4, AuthRefreshes, Zenon
      <3> QED
        BY <3>1, <3>2, Zenon DEF Leads
    <2>5. CASE machine.pending = "none" /\ machine.credentials # 0 /\ ~machine.expiring
               /\ Auth!Becomes(Auth!ValidateCurrent(Auth!Now))
      <3>1. PICK v \in Auth!ValidateCurrent(w) : Leads(v)
        BY <2>5, Zenon DEF Auth!Becomes, Leads, w
      <3>2. v.m.pending = "none"
        BY <1>m, <1>w, <2>5, AuthValidates, Zenon
      <3> QED
        BY <3>1, <3>2, Zenon DEF Leads
    <2> QED
      BY <1>6, <2>1, <2>2, <2>3, <2>4, <2>5 DEF Auth!Tick
  <1>7. CASE Auth!ValidateRefreshed
    <2>1. PICK v \in Auth!ValidateCurrent(w) : Leads(v)
      BY <1>7, Zenon DEF Auth!ValidateRefreshed, Auth!Becomes, Leads, w
    <2>2. w.m.pending = "none" /\ w.m.credentials # 0 /\ SavesTheGrant(w)
      BY <1>7, <1>m, <1>p, Zenon DEF Auth!ValidateRefreshed
    <2>3. v.m.pending = "none"
      BY <1>w, <2>2, AuthValidates, Zenon
    <2> QED
      BY <2>1, <2>3, Zenon DEF Leads
  <1>8. CASE Auth!TimePasses
    <2>1. \/ machine.pending = "waiting" /\ machine' = [machine EXCEPT !.pending = "due"]
          \/ machine.pending \in {"waiting", "due"}
             /\ machine' = [machine EXCEPT !.pending = "expired"]
          \/ machine' = [machine EXCEPT !.retry = "due"]
          \/ machine' = [machine EXCEPT !.fresh = FALSE]
          \/ machine' = [machine EXCEPT !.expiring = TRUE]
      BY <1>8, Zenon DEF Auth!TimePasses
    <2>2. /\ machine'.pending # "none" <=> machine.pending # "none"
          /\ machine'.mayContain = machine.mayContain
          /\ machine'.credentials = machine.credentials
          /\ machine'.presentation = machine.presentation
      BY <1>q, <2>1 DEF AuthMachine
    <2> QED
      BY <2>2, AuthSees, Zenon
  <1>9. CASE Auth!RevokedElsewhere \/ UNCHANGED Auth!vars
    BY <1>9, Zenon DEF Auth!RevokedElsewhere, Auth!vars
  <1>10. CASE Auth!Crash
    BY <1>10, <1>n, Zenon DEF Auth!Crash
  <1> QED
    BY <1>1, <1>2, <1>3, <1>4, <1>5, <1>6, <1>7, <1>8, <1>9, <1>10, Zenon DEF Auth!Next

\* The OAuth machine implements what the chat provider relies on.
THEOREM PromiseCorrect ==
    ASSUME Faults \subseteq Nat PROVE Auth!Spec => PromiseKept
  <1>1. Auth!Init => AuthInv /\ Auth!Promise!Init
    <2> SUFFICES ASSUME Auth!Init PROVE Auth!Promise!Init
      BY AuthStarts, Zenon
    <2>1. machine.credentials = 0 /\ machine.pending = "none" /\ ~machine.mayContain
      BY DEF Auth!Init, Auth!NewMachine
    <2>2. /\ Auth!CanConnect(machine) = FALSE /\ (machine.pending # "none") = FALSE
          /\ Auth!CredentialsAvailable(machine) = FALSE
      BY <2>1, Zenon DEF Auth!CanConnect, Auth!CredentialsAvailable
    <2> QED
      BY <2>2, Zenon DEF Auth!Promise!Init, Auth!Promise!SignedOut, Auth!Promise!Session
  <1>2. AuthInv /\ [Auth!Next]_Auth!vars => AuthInv'
    BY AuthSteps, Zenon
  <1>3. AuthInv /\ [Auth!Next]_Auth!vars =>
            [Auth!Promise!Next]_[can |-> Auth!CanConnect(machine),
                                 awaiting |-> machine.pending # "none",
                                 available |-> Auth!CredentialsAvailable(machine)]
    <2> SUFFICES ASSUME AuthInv, [Auth!Next]_Auth!vars
                 PROVE  Auth!Promise!Next \/ Answer(machine') = Answer(machine)
      BY Zenon DEF Answer
    <2>1. CASE machine'.pending = "none"
      <3>1. Answer(machine') \in Auth!Promise!Restored
        BY <2>1, AuthAnswers, Zenon
      <3> QED
        BY <3>1, Zenon DEF Answer, Auth!Promise!Next
    <2>2. CASE ~Auth!CredentialsAvailable(machine) /\ Answer(machine') = Auth!Promise!Awaiting
      <3>1. ~Answer(machine).available
        BY <2>2 DEF Answer
      <3>2. Answer(machine') \in Auth!Promise!Begun(Answer(machine))
        BY <2>2, <3>1, Zenon DEF Auth!Promise!Begun
      <3> QED
        BY <3>2, Zenon DEF Answer, Auth!Promise!Next
    <2> QED
      BY <2>1, <2>2, AuthMoves, Zenon
  <1> QED
    BY <1>1, <1>2, <1>3, PTL DEF Auth!Spec, PromiseKept, Auth!PromiseKept, Auth!Promise!Spec

------------------------------------------------------------------------------
(* media/client.rs: snapshots and wakeups, clicks and players.             *)

\* The records of the media widget have the fields the steps read.
MediaShape ==
    /\ thread = [pc |-> thread.pc, then |-> thread.then, names |-> thread.names,
                 selected |-> thread.selected, current |-> thread.current,
                 command |-> thread.command]
    /\ channel = [value |-> channel.value, pending |-> channel.pending, token |-> channel.token]
    /\ widget = [pc |-> widget.pc, snapshot |-> widget.snapshot]

\* How far a publication that is not taken yet has come: the value, the token, the bit, the
\* frame, each of which the egui thread may already have consumed.
MediaWakes ==
    channel.pending =>
      \/ thread.pc = "notify"
      \/ thread.pc = "mark" /\ channel.token
      \/ thread.pc = "repaint" /\ channel.token /\ ready
      \/ channel.token /\ ready /\ (wake \/ widget.pc = "ready")
      \/ channel.token /\ widget.pc = "recv"
      \/ widget.pc = "lock"

\* A call is for the player the last discovery selected,
CallsAreCurrent ==
    \A c \in called : c.name = thread.current.name /\ Media!Supports(thread.current, c.action)

\* and while the worker obeys clicks that player is the published one.
PublishedIsCurrent ==
    /\ thread.pc \in {"wait", "execute"} => channel.value = thread.current
    /\ thread.pc \in {"notify", "mark", "repaint"} /\ thread.then = "wait" =>
         channel.value = thread.current

MediaInv ==
    /\ MediaShape
    /\ thread.then \in {"connect", "wait", "backoff"}
    /\ MediaWakes
    /\ CallsAreCurrent

\* The invariant holds at the start.
LEMMA MediaStarts == Media!Init => MediaInv
  BY DEF Media!Init, MediaInv, MediaShape, MediaWakes, CallsAreCurrent

\* What a publication does to the records.
LEMMA MediaPublishes ==
    ASSUME MediaShape, NEW s, NEW w, NEW t, Media!PublishIfChanged(s, w, t),
           w = [pc |-> w.pc, then |-> w.then, names |-> w.names, selected |-> w.selected,
                current |-> w.current, command |-> w.command],
           t \notin {"notify", "mark", "repaint"}, w.then = thread.then, widget' = widget
    PROVE  /\ MediaShape' /\ thread'.current = w.current
           /\ thread'.then = thread.then \/ thread'.then = t
           /\ \/ thread'.pc = t /\ UNCHANGED channel
              \/ thread'.pc = "notify"
  BY Zenon DEF MediaShape, Media!PublishIfChanged

\* A call that was made stays made.
LEMMA MediaClicksStay ==
    ASSUME CallsAreCurrent, called' = called, thread'.current = thread.current
    PROVE  CallsAreCurrent'
  BY Zenon DEF CallsAreCurrent

\* The invariant is inductive: one step per action of the widget and its worker.
LEMMA MediaSteps == MediaInv /\ [Media!Next]_Media!vars => MediaInv'
  <1> SUFFICES ASSUME MediaInv, [Media!Next]_Media!vars PROVE MediaInv'
    BY Zenon
  <1>s. /\ thread = [pc |-> thread.pc, then |-> thread.then, names |-> thread.names,
                     selected |-> thread.selected, current |-> thread.current,
                     command |-> thread.command]
        /\ channel = [value |-> channel.value, pending |-> channel.pending,
                      token |-> channel.token]
        /\ widget = [pc |-> widget.pc, snapshot |-> widget.snapshot]
    BY Zenon DEF MediaInv, MediaShape
  <1>i. /\ MediaShape /\ MediaWakes /\ CallsAreCurrent
        /\ thread.then \in {"connect", "wait", "backoff"}
    BY Zenon DEF MediaInv
  <1>1. CASE Media!NotifyReceiver
    <2>1. /\ thread' = [thread EXCEPT !.pc = "mark"]
          /\ channel' = [channel EXCEPT !.token = TRUE] /\ UNCHANGED <<ready, wake, widget, called>>
      BY <1>1, Zenon DEF Media!NotifyReceiver
    <2>2. MediaShape' /\ thread'.then = thread.then /\ thread'.current = thread.current
          /\ thread'.pc = "mark" /\ channel'.token = TRUE
      BY <1>s, <2>1, Zenon DEF MediaShape
    <2>3. MediaWakes'
      BY <2>2, Zenon DEF MediaWakes
    <2> QED
      BY <1>i, <2>1, <2>2, <2>3, MediaClicksStay, Zenon DEF MediaInv
  <1>2. CASE Media!MarkMedia
    <2>1. /\ thread' = [thread EXCEPT !.pc = "repaint"] /\ thread.pc = "mark"
          /\ ready' = TRUE /\ UNCHANGED <<channel, wake, widget, called>>
      BY <1>2, Zenon DEF Media!MarkMedia
    <2>2. MediaShape' /\ thread'.then = thread.then /\ thread'.current = thread.current
          /\ thread'.pc = "repaint"
      BY <1>s, <2>1 DEF MediaShape
    <2>3. MediaWakes'
      BY <1>i, <2>1, <2>2, Zenon DEF MediaWakes
    <2> QED
      BY <1>i, <2>1, <2>2, <2>3, MediaClicksStay, Zenon DEF MediaInv
  <1>3. CASE Media!RequestRepaint
    <2>1. /\ thread' = [thread EXCEPT !.pc = thread.then] /\ thread.pc = "repaint"
          /\ wake' = TRUE /\ UNCHANGED <<channel, ready, widget, called>>
      BY <1>3, Zenon DEF Media!RequestRepaint
    <2>2. MediaShape' /\ thread'.then = thread.then /\ thread'.current = thread.current
      BY <1>s, <2>1 DEF MediaShape
    <2>3. MediaWakes'
      BY <1>i, <2>1 DEF MediaWakes
    <2> QED
      BY <1>i, <2>1, <2>2, <2>3, MediaClicksStay, Zenon DEF MediaInv
  <1>4. ASSUME NEW s, NEW w, NEW t, Media!PublishIfChanged(s, w, t),
               w = thread \/ (w = [thread EXCEPT !.current = thread.selected] /\ called' = {}),
               t \in {"wait", "backoff"}, thread.pc \in Media!Waits,
               UNCHANGED <<ready, wake, widget>>, called' = called \/ called' = {}
        PROVE  MediaInv'
    <2>1. /\ w = [pc |-> w.pc, then |-> w.then, names |-> w.names, selected |-> w.selected,
                  current |-> w.current, command |-> w.command]
          /\ w.then = thread.then /\ (w.current = thread.current \/ called' = {})
      BY <1>4, <1>s
    <2>2. t \notin {"notify", "mark", "repaint"}
          /\ thread.pc \notin {"notify", "mark", "repaint"}
      BY <1>4 DEF Media!Waits
    <2>3. /\ MediaShape' /\ thread'.current = w.current
          /\ thread'.then = thread.then \/ thread'.then = t
          /\ \/ thread'.pc = t /\ UNCHANGED channel
             \/ thread'.pc = "notify"
      BY <1>4, <1>i, <2>1, <2>2, MediaPublishes, Zenon
    <2>4. MediaWakes'
      BY <1>4, <1>i, <2>2, <2>3, Zenon DEF MediaWakes
    <2>5. CallsAreCurrent'
      BY <1>4, <1>i, <2>1, <2>3, Zenon DEF CallsAreCurrent
    <2>6. thread'.then \in {"connect", "wait", "backoff"}
      BY <1>4, <1>i, <2>3, Zenon
    <2> QED
      BY <2>3, <2>4, <2>5, <2>6, Zenon DEF MediaInv
  <1>5. ASSUME thread'.current = thread.current, thread'.then = thread.then, MediaShape',
               thread.pc \in Media!Waits, UNCHANGED <<channel, ready, wake, widget>>,
               CallsAreCurrent'
        PROVE  MediaInv'
    <2>1. thread.pc \notin {"notify", "mark", "repaint"}
      BY <1>5 DEF Media!Waits
    <2>2. MediaWakes'
      BY <1>5, <1>i, <2>1, Zenon DEF MediaWakes
    <2> QED
      BY <1>5, <1>i, <2>2, Zenon DEF MediaInv
  <1>w. {"connect", "list", "read", "wait", "execute", "backoff"} = Media!Waits
    BY Zenon DEF Media!Waits
  <1>6. CASE Media!Fail
    <2>1. /\ Media!PublishIfChanged(Media!ProviderError, thread, "backoff")
          /\ thread.pc \in Media!Waits /\ UNCHANGED <<ready, wake, widget, called>>
      BY <1>6, <1>w, Zenon DEF Media!Fail, Media!At
    <2> QED
      BY <1>4, <2>1, Zenon
  <1>7. CASE Media!ListNames
    <2>1. /\ thread.pc \in Media!Waits /\ UNCHANGED <<ready, wake, widget, called>>
          /\ \/ Media!PublishIfChanged(Media!ProviderError, thread, "backoff")
             \/ /\ UNCHANGED channel
                /\ \E names : thread' = [thread EXCEPT !.pc = "read", !.names = names,
                                                       !.selected = Media!NoPlayer]
      BY <1>7, <1>w, Zenon DEF Media!ListNames, Media!At
    <2>2. CASE Media!PublishIfChanged(Media!ProviderError, thread, "backoff")
      BY <1>4, <2>1, <2>2, Zenon
    <2>3. ASSUME UNCHANGED channel, NEW names,
                 thread' = [thread EXCEPT !.pc = "read", !.names = names,
                                          !.selected = Media!NoPlayer]
          PROVE  MediaInv'
      <3>1. thread'.current = thread.current /\ thread'.then = thread.then /\ MediaShape'
        BY <1>s, <2>1, <2>3, Zenon DEF MediaShape
      <3>2. CallsAreCurrent'
        BY <1>i, <2>1, <3>1, MediaClicksStay, Zenon
      <3> QED
        BY <1>5, <2>1, <2>3, <3>1, <3>2, Zenon
    <2> QED
      BY <2>1, <2>2, <2>3, Zenon
  <1>8. CASE Media!Discovered
    <2>1. /\ Media!PublishIfChanged(thread.selected,
                                    [thread EXCEPT !.current = thread.selected], "wait")
          /\ thread.pc \in Media!Waits /\ UNCHANGED <<ready, wake, widget>> /\ called' = {}
      BY <1>8, <1>w, Zenon DEF Media!Discovered, Media!At
    <2> QED
      BY <1>4, <2>1, Zenon
  <1>9. CASE \/ Media!Shutdown \/ Media!Connect \/ Media!Backoff \/ Media!PollTick
             \/ Media!TakeCommand \/ \E p \in Players : Media!ReadPlayer(p)
    <2>1. /\ thread.pc \in Media!Waits /\ UNCHANGED <<channel, ready, wake, widget, called>>
          /\ \/ \E q : thread' = [thread EXCEPT !.pc = q]
             \/ \E q, c : thread' = [thread EXCEPT !.pc = q, !.command = c]
             \/ \E p, c : thread' = [thread EXCEPT !.names = @ \ {p},
                                                   !.selected = Media!ConsiderPlayer(@, c)]
             \/ \E p : thread' = [thread EXCEPT !.names = @ \ {p}]
      <3>1. CASE Media!Shutdown \/ Media!Connect \/ Media!Backoff \/ Media!PollTick
        BY <1>w, <3>1, Zenon DEF Media!Shutdown, Media!Connect, Media!Backoff, Media!PollTick,
           Media!At
      <3>2. CASE Media!TakeCommand
        BY <1>w, <3>2, Zenon DEF Media!TakeCommand, Media!At
      <3>3. ASSUME NEW p \in Players, Media!ReadPlayer(p)
            PROVE  /\ thread.pc \in Media!Waits
                   /\ UNCHANGED <<channel, ready, wake, widget, called>>
                   /\ \/ \E c : thread' = [thread EXCEPT !.names = @ \ {p},
                                                         !.selected = Media!ConsiderPlayer(@, c)]
                      \/ thread' = [thread EXCEPT !.names = @ \ {p}]
        BY <1>w, <3>3, Zenon DEF Media!ReadPlayer, Media!At
      <3> QED
        BY <1>9, <3>1, <3>2, <3>3, Zenon
    <2>2. thread'.current = thread.current /\ thread'.then = thread.then /\ MediaShape'
      BY <1>s, <2>1, Zenon DEF MediaShape
    <2>3. CallsAreCurrent'
      BY <1>i, <2>1, <2>2, MediaClicksStay, Zenon
    <2> QED
      BY <1>5, <2>1, <2>2, <2>3, Zenon
  <1>10. CASE Media!ExecuteCommand
    <2>1. /\ thread.pc \in Media!Waits /\ UNCHANGED <<channel, ready, wake, widget>>
          /\ thread' = [thread EXCEPT !.pc = "wait", !.command = Media!NoCommand]
          /\ called' = IF Media!CommandMethod(thread.current, thread.command)
                         THEN called \cup {thread.command} ELSE called
      BY <1>10, <1>w, Zenon DEF Media!ExecuteCommand, Media!At
    <2>2. thread'.current = thread.current /\ thread'.then = thread.then /\ MediaShape'
      BY <1>s, <2>1, Zenon DEF MediaShape
    <2>3. CallsAreCurrent'
      BY <1>i, <2>1, <2>2, Zenon DEF CallsAreCurrent, Media!CommandMethod
    <2> QED
      BY <1>5, <2>1, <2>2, <2>3, Zenon
  <1>11. CASE Media!Frame \/ Media!TakeReady \/ Media!TakeToken \/ Media!TakeValue
    <2>1. /\ UNCHANGED <<thread, called>>
          /\ \/ wake' = FALSE /\ widget' = [widget EXCEPT !.pc = "ready"] /\ widget.pc = "idle"
                /\ UNCHANGED <<channel, ready>>
             \/ widget.pc = "ready" /\ ready' = FALSE /\ UNCHANGED <<channel, wake>>
                /\ widget' = [widget EXCEPT !.pc = IF ready THEN "recv" ELSE "idle"]
             \/ widget.pc = "recv" /\ channel' = [channel EXCEPT !.token = FALSE]
                /\ widget' = [widget EXCEPT !.pc = IF channel.token THEN "lock" ELSE "idle"]
                /\ UNCHANGED <<ready, wake>>
             \/ channel' = [channel EXCEPT !.pending = FALSE]
                /\ widget' = [pc |-> "idle", snapshot |-> IF channel.pending THEN channel.value
                                                     ELSE widget.snapshot]
      BY <1>11, Zenon DEF Media!Frame, Media!TakeReady, Media!TakeToken, Media!TakeValue
    <2>2. MediaShape'
      BY <1>s, <2>1 DEF MediaShape
    <2>3. MediaWakes'
      BY <1>s, <1>i, <2>1 DEF MediaWakes
    <2> QED
      BY <1>i, <2>1, <2>2, <2>3, MediaClicksStay, Zenon DEF MediaInv
  <1>12. CASE \/ \E action \in Media!MediaAction : Media!Send(action)
              \/ Media!Drop \/ UNCHANGED Media!vars
              \/ \E p \in Players : Media!PlayerChanges(p)
    <2>1. UNCHANGED <<thread, channel, ready, wake, widget, called>>
      BY <1>12, Zenon DEF Media!Send, Media!Drop, Media!vars, Media!PlayerChanges
    <2> QED
      BY <1>i, <2>1, MediaClicksStay, Zenon DEF MediaInv, MediaShape, MediaWakes
  <1> QED
    BY <1>1, <1>2, <1>3, <1>6, <1>7, <1>8, <1>9, <1>10, <1>11, <1>12, Zenon
       DEF Media!Next, Media!WorkerStep

\* While the worker obeys clicks, what it selected is what it published.
LEMMA MediaPublishedStays ==
    ASSUME MediaInv, PublishedIsCurrent, [Media!Next]_Media!vars
    PROVE  PublishedIsCurrent'
  <1>s. /\ thread = [pc |-> thread.pc, then |-> thread.then, names |-> thread.names,
                     selected |-> thread.selected, current |-> thread.current,
                     command |-> thread.command]
        /\ channel = [value |-> channel.value, pending |-> channel.pending,
                      token |-> channel.token]
        /\ thread.then \in {"connect", "wait", "backoff"}
    BY Zenon DEF MediaInv, MediaShape
  <1>1. CASE Media!NotifyReceiver \/ Media!MarkMedia \/ Media!RequestRepaint
    <2>1. /\ thread.pc \in {"notify", "mark", "repaint"}
          /\ channel' = channel \/ channel' = [channel EXCEPT !.token = TRUE]
          /\ \/ thread' = [thread EXCEPT !.pc = "mark"]
             \/ thread' = [thread EXCEPT !.pc = "repaint"]
             \/ thread' = [thread EXCEPT !.pc = thread.then]
      BY <1>1 DEF Media!NotifyReceiver, Media!MarkMedia, Media!RequestRepaint
    <2>2. /\ channel'.value = channel.value
          /\ thread'.current = thread.current /\ thread'.then = thread.then
          /\ thread'.pc \in {"mark", "repaint", thread.then}
      BY <1>s, <2>1, Zenon
    <2> QED
      BY <1>s, <2>1, <2>2 DEF PublishedIsCurrent
  <1>2. ASSUME Media!PublishIfChanged(Media!ProviderError, thread, "backoff")
        PROVE  PublishedIsCurrent'
    <2>1. thread'.pc = "backoff" \/ (thread'.pc = "notify" /\ thread'.then = "backoff")
      BY <1>s, <1>2, Zenon DEF Media!PublishIfChanged
    <2> QED
      BY <2>1 DEF PublishedIsCurrent
  <1>3. CASE Media!Discovered
    <2>1. channel'.value = thread.selected /\ thread'.current = thread.selected
      BY <1>s, <1>3, Zenon DEF Media!Discovered, Media!PublishIfChanged
    <2> QED
      BY <2>1, Zenon DEF PublishedIsCurrent
  <1>4. ASSUME thread'.pc \in {"done", "list", "connect", "read"}
        PROVE  PublishedIsCurrent'
    BY <1>4 DEF PublishedIsCurrent
  <1>5. CASE Media!ListNames
    <2>1. \/ Media!PublishIfChanged(Media!ProviderError, thread, "backoff")
          \/ \E names : thread' = [thread EXCEPT !.pc = "read", !.names = names,
                                                 !.selected = Media!NoPlayer]
      BY <1>5, Zenon DEF Media!ListNames
    <2>2. ASSUME NEW names, thread' = [thread EXCEPT !.pc = "read", !.names = names,
                                                     !.selected = Media!NoPlayer]
          PROVE  thread'.pc = "read"
      BY <1>s, <2>2, Zenon
    <2> QED
      BY <1>2, <1>4, <2>1, <2>2, Zenon
  <1>6. CASE Media!Shutdown \/ Media!Connect \/ Media!Backoff \/ Media!PollTick
    <2>1. \E q \in {"done", "list", "connect"} : thread' = [thread EXCEPT !.pc = q]
      BY <1>6, Zenon DEF Media!Shutdown, Media!Connect, Media!Backoff, Media!PollTick
    <2>2. thread'.pc \in {"done", "list", "connect"}
      BY <1>s, <2>1, Zenon
    <2> QED
      BY <1>4, <2>2, Zenon
  <1>7. ASSUME NEW p \in Players, Media!ReadPlayer(p)
        PROVE  PublishedIsCurrent'
    <2>1. /\ thread.pc = "read"
          /\ \/ \E c : thread' = [thread EXCEPT !.names = @ \ {p},
                                               !.selected = Media!ConsiderPlayer(@, c)]
             \/ thread' = [thread EXCEPT !.names = @ \ {p}]
      BY <1>7, Zenon DEF Media!ReadPlayer, Media!At
    <2>2. thread'.pc = "read"
      BY <1>s, <2>1, Zenon
    <2> QED
      BY <1>4, <2>2, Zenon
  <1>8. CASE Media!TakeCommand \/ Media!ExecuteCommand
    <2>1. /\ thread.pc \in {"wait", "execute"} /\ UNCHANGED channel
          /\ \E q \in {"wait", "execute"} : \E c :
               thread' = [thread EXCEPT !.pc = q, !.command = c]
      BY <1>8, Zenon DEF Media!TakeCommand, Media!ExecuteCommand, Media!At
    <2>2. thread'.current = thread.current
      BY <1>s, <2>1, Zenon
    <2> QED
      BY <2>1, <2>2, Zenon DEF PublishedIsCurrent
  <1>9. ASSUME UNCHANGED thread, channel'.value = channel.value
        PROVE  PublishedIsCurrent'
    BY <1>9, Zenon DEF PublishedIsCurrent
  <1>10. CASE Media!Frame \/ Media!TakeReady \/ Media!TakeToken \/ Media!TakeValue
    <2>1. /\ UNCHANGED thread
          /\ \/ UNCHANGED channel
             \/ channel' = [channel EXCEPT !.token = FALSE]
             \/ channel' = [channel EXCEPT !.pending = FALSE]
      BY <1>10, Zenon DEF Media!Frame, Media!TakeReady, Media!TakeToken, Media!TakeValue
    <2>2. channel'.value = channel.value
      BY <1>s, <2>1, Zenon
    <2> QED
      BY <1>9, <2>1, <2>2, Zenon
  <1>11. CASE \/ \E action \in Media!MediaAction : Media!Send(action)
              \/ Media!Drop \/ UNCHANGED Media!vars
              \/ \E p \in Players : Media!PlayerChanges(p)
    <2>1. UNCHANGED <<thread, channel>>
      BY <1>11, Zenon DEF Media!Send, Media!Drop, Media!vars, Media!PlayerChanges
    <2> QED
      BY <1>9, <2>1, Zenon
  <1>12. CASE Media!Fail
    BY <1>2, <1>12, Zenon DEF Media!Fail
  <1> QED
    BY <1>1, <1>3, <1>5, <1>6, <1>7, <1>8, <1>10, <1>11, <1>12, Zenon
       DEF Media!Next, Media!WorkerStep

\* No snapshot waits without a wakeup of the egui thread, and a click reaches only the player
\* of the latest snapshot, for any number of players, clicks and faults: LatestPublisher
\* stores the value before the token, the bit before the frame, and take_latest takes them
\* in the opposite order.
THEOREM PlayerCorrect == Media!Spec => []PlayerIsShown
  <1>1. MediaInv /\ PublishedIsCurrent => Media!PlayerIsShown
    <2>1. MediaInv /\ PublishedIsCurrent => Media!ClicksHitTheShownPlayer
      BY Zenon DEF MediaInv, CallsAreCurrent, PublishedIsCurrent, Media!ClicksHitTheShownPlayer
    <2> QED
      BY <2>1, Zenon DEF MediaInv, MediaWakes, Media!PlayerIsShown, Media!NoStrandedSnapshot
  <1>2. Media!Init => PublishedIsCurrent
    BY DEF Media!Init, PublishedIsCurrent
  <1>3. MediaInv /\ PublishedIsCurrent /\ [Media!Next]_Media!vars => PublishedIsCurrent'
    BY MediaPublishedStays, Zenon
  <1> QED
    BY <1>1, <1>2, <1>3, MediaStarts, MediaSteps, PTL DEF Media!Spec, PlayerIsShown

------------------------------------------------------------------------------
(* warframe/market: the coalescing flag, and statuses that promise work.   *)

MarketRequests == [generation: Nat, command: {"search", "select", "clear", "refresh"},
                   item: Items \cup {None}]

\* The records and the queue have the form the steps read.
MarketShape ==
    /\ gate \in [enabled: BOOLEAN, generation: Nat]
    /\ queue \in Seq(MarketRequests)
    /\ current = [selected |-> current.selected, status |-> current.status,
                  error |-> current.error, next_refresh |-> current.next_refresh]
    /\ thread = [pc |-> thread.pc, request |-> thread.request, snapshot |-> thread.snapshot]
    /\ thread.snapshot = [selected |-> thread.snapshot.selected, status |-> thread.snapshot.status,
                          error |-> thread.snapshot.error,
                          next_refresh |-> thread.snapshot.next_refresh]

Promising(status) == status \in {"searching", "loading"}

\* While a status promises an answer the worker is between its announcement and its result,
\* and no result promises another one.
PromiseHasAnswer ==
    /\ ~shutdown /\ Promising(current.status) =>
         thread.pc \in {"fetch", "publish"} /\ Market!RequestIsCurrent(thread.request)
    /\ ~shutdown /\ ~gate.enabled => current.status = None
    /\ ~shutdown /\ thread.pc = "publish" => ~Promising(thread.snapshot.status)
    /\ ~shutdown /\ thread.pc = "fetch" /\ thread.request.command = "refresh" =>
         ~Promising(thread.snapshot.status)

MarketInv ==
    MarketShape /\ Market!RefreshPendingIsReal /\ PromiseHasAnswer

\* The invariant holds at the start.
LEMMA MarketStarts ==
    ASSUME ~Promising(None), Market!Init
    PROVE  MarketInv
  <1>1. MarketShape
    BY DEF Market!Init, MarketShape, Market!NoSnapshot, Market!Idle
  <1>2. refresh_pending = FALSE /\ current.status = None /\ thread.pc = "recv"
    BY DEF Market!Init, Market!NoSnapshot, Market!Idle
  <1> QED
    BY <1>1, <1>2, Zenon DEF MarketInv, Market!RefreshPendingIsReal, PromiseHasAnswer

Refreshes(q) == \E k \in DOMAIN q : q[k].command = "refresh"

\* A refresh that is queued stays queued until it is taken.
LEMMA MarketQueue ==
    ASSUME NEW q \in Seq(MarketRequests)
    PROVE  /\ \A r \in MarketRequests :
                /\ Append(q, r) \in Seq(MarketRequests)
                /\ Refreshes(q) \/ r.command = "refresh" => Refreshes(Append(q, r))
           /\ q # <<>> =>
                /\ Tail(q) \in Seq(MarketRequests) /\ Head(q) \in MarketRequests
                /\ Refreshes(q) => Head(q).command = "refresh" \/ Refreshes(Tail(q))
  <1>1. ASSUME NEW r \in MarketRequests
        PROVE  /\ Append(q, r) \in Seq(MarketRequests)
               /\ Refreshes(q) \/ r.command = "refresh" => Refreshes(Append(q, r))
    <2>1. /\ Append(q, r) \in Seq(MarketRequests)
          /\ DOMAIN Append(q, r) = 1..(Len(q) + 1)
          /\ \A k \in DOMAIN q : k \in DOMAIN Append(q, r) /\ Append(q, r)[k] = q[k]
          /\ Len(q) + 1 \in DOMAIN Append(q, r) /\ Append(q, r)[Len(q) + 1] = r
      OBVIOUS
    <2> QED
      BY <2>1, Zenon DEF Refreshes
  <1>2. ASSUME q # <<>>
        PROVE  /\ Tail(q) \in Seq(MarketRequests) /\ Head(q) \in MarketRequests
               /\ Refreshes(q) => Head(q).command = "refresh" \/ Refreshes(Tail(q))
    <2>1. /\ Tail(q) \in Seq(MarketRequests) /\ Head(q) \in MarketRequests
          /\ \A k \in DOMAIN q : k = 1 \/ (k - 1 \in DOMAIN Tail(q) /\ Tail(q)[k - 1] = q[k])
          /\ Head(q) = q[1]
      BY <1>2
    <2> QED
      BY <2>1, Zenon DEF Refreshes
  <1> QED
    BY <1>1, <1>2, Zenon

\* What a command leaves in the queue.
LEMMA MarketSends ==
    ASSUME NEW q \in Seq(MarketRequests), NEW c \in {"search", "select", "clear", "refresh"},
           NEW i \in Items \cup {None}, NEW g \in Nat, NEW p
    PROVE  LET sent == Market!SendCommand(c, i, p, q, g)
           IN  /\ sent.queue \in Seq(MarketRequests)
               /\ Refreshes(q) => Refreshes(sent.queue)
               /\ sent.pending => p \/ Refreshes(sent.queue)
  <1> DEFINE r == [generation |-> g, command |-> c, item |-> i]
             sent == Market!SendCommand(c, i, p, q, g)
  <1>1. r \in MarketRequests /\ r.command = c
    BY DEF MarketRequests
  <1>2. \/ sent.queue = q /\ (sent.pending => p)
        \/ sent.queue = Append(q, r) /\ (sent.pending => p \/ c = "refresh")
    BY Zenon DEF Market!SendCommand
  <1> HIDE DEF r, sent
  <1>3. /\ sent.queue \in Seq(MarketRequests)
        /\ Refreshes(q) => Refreshes(sent.queue)
        /\ sent.pending => p \/ Refreshes(sent.queue)
    BY <1>1, <1>2, MarketQueue, Zenon
  <1> QED
    BY <1>3, Zenon DEF sent

\* The egui thread's frame: what it does to the gate and to the status.
LEMMA MarketSyncs ==
    ASSUME MarketShape, NEW open \in BOOLEAN, NEW due \in BOOLEAN, Market!Sync(open, due)
    PROVE  /\ MarketShape' /\ ~shutdown
           /\ UNCHANGED <<queue, refresh_pending, thread, shutdown>>
           /\ \/ current'.status = None
              \/ current'.status = current.status /\ (gate' = gate \/ ~gate.enabled)
  <1> DEFINE closing == gate.enabled /\ ~open
                        /\ (current.status # None \/ current.next_refresh # "zero")
             published == IF closing THEN Market!Closed(current) ELSE current
  <1>1. /\ ~shutdown /\ Market!SetEnabled(open) /\ current' = published
        /\ UNCHANGED <<queue, refresh_pending, thread, shutdown>>
    BY Zenon DEF Market!Sync, Market!InUse
  <1>2. /\ gate' \in [enabled: BOOLEAN, generation: Nat] /\ gate'.enabled = open
        /\ gate' = gate \/ (open # gate.enabled)
    BY <1>1 DEF Market!SetEnabled, MarketShape
  <1>3. /\ published = [selected |-> published.selected, status |-> published.status,
                        error |-> published.error, next_refresh |-> published.next_refresh]
        /\ published.status = None \/ (published.status = current.status
                                         /\ ~(gate.enabled /\ ~open))
    BY Zenon DEF MarketShape, Market!Closed
  <1> HIDE DEF published
  <1>4. MarketShape'
    BY <1>1, <1>2, <1>3, Zenon DEF MarketShape
  <1>5. gate.enabled \in BOOLEAN
    BY DEF MarketShape
  <1> QED
    BY <1>1, <1>2, <1>3, <1>4, <1>5, Zenon

\* The worker is back at its queue.
MarketRests ==
    thread' = Market!Idle \/ thread' = [Market!Idle EXCEPT !.pc = IF shutdown THEN "done" ELSE "recv"]

\* Back at its queue, the worker owes no answer.
LEMMA MarketGoesToRest ==
    ASSUME MarketShape, PromiseHasAnswer, MarketRests, ~Promising(current.status) \/ shutdown,
           UNCHANGED <<gate, current, shutdown>>, queue' \in Seq(MarketRequests)
    PROVE  MarketShape' /\ PromiseHasAnswer'
  <1>1. /\ thread' = [pc |-> thread'.pc, request |-> thread'.request,
                      snapshot |-> thread'.snapshot]
        /\ thread'.snapshot = [selected |-> thread'.snapshot.selected,
                               status |-> thread'.snapshot.status,
                               error |-> thread'.snapshot.error,
                               next_refresh |-> thread'.snapshot.next_refresh]
        /\ thread'.pc # "publish" /\ thread'.pc # "fetch"
    BY DEF MarketRests, Market!Idle, Market!NoSnapshot
  <1>2. MarketShape'
    BY <1>1, Zenon DEF MarketShape
  <1> QED
    BY <1>1, <1>2, Zenon DEF PromiseHasAnswer

\* The invariant is inductive: one step per action of the widget and its worker.
LEMMA MarketSteps ==
    ASSUME ~Promising(None)
    PROVE  MarketInv /\ [Market!Next]_Market!vars => MarketInv'
  <1> SUFFICES ASSUME MarketInv, [Market!Next]_Market!vars PROVE MarketInv'
    BY Zenon
  <1>i. MarketShape /\ PromiseHasAnswer
    BY Zenon DEF MarketInv
  <1>s. /\ gate \in [enabled: BOOLEAN, generation: Nat] /\ queue \in Seq(MarketRequests)
        /\ current = [selected |-> current.selected, status |-> current.status,
                      error |-> current.error, next_refresh |-> current.next_refresh]
        /\ thread = [pc |-> thread.pc, request |-> thread.request, snapshot |-> thread.snapshot]
        /\ thread.snapshot = [selected |-> thread.snapshot.selected,
                              status |-> thread.snapshot.status,
                              error |-> thread.snapshot.error,
                              next_refresh |-> thread.snapshot.next_refresh]
    BY <1>i, Zenon DEF MarketShape
  <1>r. refresh_pending /\ ~shutdown =>
            Refreshes(queue) \/ (Market!Working /\ thread.request.command = "refresh")
    BY Zenon DEF MarketInv, Market!RefreshPendingIsReal, Refreshes
  <1>q. ASSUME MarketShape', PromiseHasAnswer',
               refresh_pending' /\ ~shutdown' =>
                 Refreshes(queue') \/ (Market!Working' /\ thread'.request.command = "refresh")
        PROVE  MarketInv'
    BY <1>q, Zenon DEF MarketInv, Market!RefreshPendingIsReal, Refreshes
  <1>b. ~Promising("busy")
    BY DEF Promising
  <1>c. Market!Idle.pc = "recv" /\ Market!Idle = [pc |-> "recv", request |-> Market!NoRequest,
            snapshot |-> [selected |-> None, status |-> None, error |-> FALSE,
                          next_refresh |-> "zero"]]
    BY DEF Market!Idle, Market!NoSnapshot
  <1>o. ASSUME NEW command \in {"search", "select", "clear", "refresh"},
               NEW item \in Items \cup {None}, Market!SendIt(command, item),
               UNCHANGED <<gate, thread, shutdown>>
        PROVE  MarketInv'
    <2> DEFINE sent == Market!SendCommand(command, item, refresh_pending, queue, gate.generation)
    <2>1. /\ gate.enabled /\ UNCHANGED <<gate, thread, shutdown>>
          /\ queue' = sent.queue /\ refresh_pending' = sent.pending
          /\ current' = Market!Busy(current) \/ current' = current
      BY <1>o, Zenon DEF Market!SendIt, Market!PublishIf, Market!Publish
    <2>2. /\ sent.queue \in Seq(MarketRequests)
          /\ Refreshes(queue) => Refreshes(sent.queue)
          /\ sent.pending => refresh_pending \/ Refreshes(sent.queue)
      <3>1. gate.generation \in Nat
        BY <1>s
      <3> QED
        BY <1>s, <3>1, MarketSends, Zenon
    <2>3. /\ current'.status = "busy" \/ current'.status = current.status
          /\ current' = [selected |-> current'.selected, status |-> current'.status,
                         error |-> current'.error, next_refresh |-> current'.next_refresh]
      BY <1>s, <2>1 DEF Market!Busy
    <2> HIDE DEF sent
    <2>4. MarketShape'
      BY <1>s, <2>1, <2>2, <2>3, Zenon DEF MarketShape
    <2>5. PromiseHasAnswer'
      BY <1>i, <1>b, <2>1, <2>3, Zenon DEF PromiseHasAnswer, Market!RequestIsCurrent
    <2> QED
      BY <1>q, <1>r, <2>1, <2>2, <2>4, <2>5, Zenon DEF Market!Working
  <1>1. ASSUME NEW command \in {"search", "select", "clear", "refresh"},
               NEW item \in Items \cup {None},
               Market!Send(command, item)
                 \/ (Market!RefreshSelected /\ command = "refresh" /\ item = None)
        PROVE  MarketInv'
    <2>1. Market!SendIt(command, item) /\ UNCHANGED <<gate, thread, shutdown>>
      BY <1>1, Zenon DEF Market!Send, Market!RefreshSelected
    <2> QED
      BY <1>o, <2>1, Zenon
  <1>2. ASSUME NEW open \in BOOLEAN, NEW due \in BOOLEAN, Market!Sync(open, due)
        PROVE  MarketInv'
    <2>1. /\ MarketShape' /\ ~shutdown
          /\ UNCHANGED <<queue, refresh_pending, thread, shutdown>>
          /\ \/ current'.status = None
             \/ current'.status = current.status /\ (gate' = gate \/ ~gate.enabled)
      BY <1>2, <1>i, MarketSyncs, Zenon
    <2>2. PromiseHasAnswer'
      BY <1>i, <2>1, Zenon DEF PromiseHasAnswer, Market!RequestIsCurrent
    <2> QED
      BY <1>q, <1>r, <2>1, <2>2, Zenon DEF Market!Working
  <1>3. CASE Market!Drop
    <2>1. /\ shutdown' = TRUE /\ UNCHANGED <<queue, current, thread>>
          /\ gate' = [enabled |-> FALSE, generation |-> gate.generation + 1]
      BY <1>3, Zenon DEF Market!Drop
    <2>2. gate' \in [enabled: BOOLEAN, generation: Nat]
      BY <1>s, <2>1
    <2>3. MarketShape'
      BY <1>s, <2>1, <2>2, Zenon DEF MarketShape
    <2> QED
      BY <1>i, <1>q, <2>1, <2>3, Zenon DEF PromiseHasAnswer
  <1>4. CASE Market!Receive
    <2>1. /\ thread.pc = "recv" /\ queue # <<>> /\ queue' = Tail(queue)
          /\ UNCHANGED <<gate, current, shutdown>>
          /\ \/ thread' = [thread EXCEPT !.pc = "begin", !.request = Head(queue)]
                /\ UNCHANGED refresh_pending
             \/ thread' = [Market!Idle EXCEPT !.pc = IF shutdown THEN "done" ELSE "recv"]
                /\ refresh_pending' = (refresh_pending /\ Head(queue).command # "refresh")
      BY <1>4, Zenon DEF Market!Receive, Market!Skip
    <2>2. /\ Tail(queue) \in Seq(MarketRequests)
          /\ Refreshes(queue) => Head(queue).command = "refresh" \/ Refreshes(Tail(queue))
      BY <1>s, <2>1, MarketQueue, Zenon
    <2>p. thread.pc \notin {"fetch", "publish"} /\ ~Market!Working
      BY <2>1 DEF Market!Working
    <2>3. CASE thread' = [thread EXCEPT !.pc = "begin", !.request = Head(queue)]
               /\ UNCHANGED refresh_pending
      <3>1. /\ thread' = [pc |-> thread'.pc, request |-> thread'.request,
                          snapshot |-> thread'.snapshot]
            /\ thread'.snapshot = thread.snapshot /\ thread'.pc = "begin"
            /\ thread'.request = Head(queue)
        BY <1>s, <2>3, Zenon
      <3>2. MarketShape'
        BY <1>s, <2>1, <2>2, <3>1, Zenon DEF MarketShape
      <3>3. Market!Working' /\ thread'.pc # "publish" /\ thread'.pc # "fetch"
        BY <3>1 DEF Market!Working
      <3>4. PromiseHasAnswer'
        BY <1>i, <2>1, <2>p, <3>3, Zenon DEF PromiseHasAnswer
      <3> QED
        BY <1>q, <1>r, <2>1, <2>2, <2>3, <2>p, <3>1, <3>2, <3>3, <3>4, ZenonT(30)
    <2>4. CASE thread' = [Market!Idle EXCEPT !.pc = IF shutdown THEN "done" ELSE "recv"]
               /\ refresh_pending' = (refresh_pending /\ Head(queue).command # "refresh")
      <3>1. MarketRests /\ UNCHANGED <<gate, current, shutdown>>
        BY <2>1, <2>4, Zenon DEF MarketRests
      <3>2. ~Promising(current.status) \/ shutdown
        BY <1>i, <2>p, Zenon DEF PromiseHasAnswer
      <3>3. refresh_pending' /\ ~shutdown' => Refreshes(queue')
        BY <1>r, <2>1, <2>2, <2>4, <2>p, Zenon
      <3>4. queue' \in Seq(MarketRequests)
        BY <2>1, <2>2, Zenon
      <3> QED
        BY <1>i, <1>q, <3>1, <3>2, <3>3, <3>4, MarketGoesToRest, ZenonT(30)
    <2> QED
      BY <2>1, <2>3, <2>4, Zenon
  <1>5. CASE Market!Begin
    <2>p. thread.pc \notin {"fetch", "publish"} /\ thread.pc = "begin"
      BY <1>5 DEF Market!Begin
    <2>n. ~Promising(current.status) \/ shutdown
      BY <1>i, <2>p, Zenon DEF PromiseHasAnswer
    <2>0. UNCHANGED <<gate, queue, shutdown>>
      BY <1>5, Zenon DEF Market!Begin
    <2>1. CASE thread.request.command = "refresh" /\ current.selected = None
      <3>1. /\ thread' = Market!Idle /\ UNCHANGED current
            /\ refresh_pending' = (refresh_pending /\ thread.request.command # "refresh")
        BY <1>5, <2>1, Zenon DEF Market!Begin, Market!Skip
      <3>2. MarketRests
        BY <3>1, Zenon DEF MarketRests
      <3> QED
        BY <1>i, <1>q, <1>s, <2>0, <2>1, <2>n, <3>1, <3>2, MarketGoesToRest, ZenonT(30)
    <2>2. CASE ~(thread.request.command = "refresh" /\ current.selected = None)
      <3> DEFINE shown ==
                   CASE thread.request.command = "search" ->
                          [current EXCEPT !.status = "searching", !.error = FALSE]
                     [] thread.request.command = "select" ->
                          [current EXCEPT !.status = "loading", !.error = FALSE,
                                          !.next_refresh = "never"]
                     [] thread.request.command = "clear" -> Market!NoSnapshot
                     [] OTHER -> current
                 clear == thread.request.command = "clear"
      <3>1. /\ thread' = [thread EXCEPT !.snapshot = shown,
                                        !.pc = IF clear THEN "publish" ELSE "fetch"]
            /\ UNCHANGED refresh_pending
            /\ \/ current' = current
               \/ /\ current' = shown /\ ~shutdown /\ Market!RequestIsCurrent(thread.request)
                  /\ thread.request.command \in {"search", "select"}
        BY <1>5, <2>2, Zenon DEF Market!Begin, Market!PublishWorkerIfCurrent, Market!PublishIf,
           Market!Publish
      <3>2. /\ shown = [selected |-> shown.selected, status |-> shown.status,
                        error |-> shown.error, next_refresh |-> shown.next_refresh]
            /\ clear => shown.status = None
            /\ thread.request.command = "refresh" => shown.status = current.status
        BY <1>s, Zenon DEF Market!NoSnapshot
      <3> HIDE DEF shown, clear
      <3>3. /\ thread' = [pc |-> thread'.pc, request |-> thread'.request,
                          snapshot |-> thread'.snapshot]
            /\ thread'.snapshot = shown /\ thread'.request = thread.request
            /\ thread'.pc = IF clear THEN "publish" ELSE "fetch"
        BY <1>s, <3>1, Zenon
      <3>4. MarketShape'
        BY <1>s, <2>0, <3>1, <3>2, <3>3, ZenonT(30) DEF MarketShape
      <3>5. /\ thread'.pc \in {"fetch", "publish"} /\ Market!Working' /\ Market!Working
            /\ thread'.pc = "publish" => clear
            /\ thread.request.command \in {"search", "select"} => ~clear
        BY <2>p, <3>3 DEF Market!Working, clear
      <3>6. PromiseHasAnswer'
        <4>1. ~shutdown' /\ Promising(current'.status) =>
                thread'.pc \in {"fetch", "publish"} /\ Market!RequestIsCurrent(thread.request)'
          BY <2>0, <2>n, <3>1, <3>3, <3>5, Zenon DEF Market!RequestIsCurrent
        <4>2. ~shutdown' /\ ~gate'.enabled => current'.status = None
          BY <1>i, <2>0, <3>1, Zenon DEF PromiseHasAnswer, Market!RequestIsCurrent
        <4>3. thread'.pc = "publish" => ~Promising(thread'.snapshot.status)
          BY <3>2, <3>3, <3>5, Zenon
        <4>4. ~shutdown' /\ thread'.pc = "fetch" /\ thread'.request.command = "refresh" =>
                ~Promising(thread'.snapshot.status)
          BY <2>0, <2>n, <3>2, <3>3, Zenon
        <4> QED
          BY <3>3, <4>1, <4>2, <4>3, <4>4, Zenon DEF PromiseHasAnswer
      <3> QED
        BY <1>q, <1>r, <2>0, <3>1, <3>3, <3>4, <3>5, <3>6, ZenonT(30)
    <2> QED
      BY <2>1, <2>2, Zenon
  <1>6. CASE Market!Fetched \/ Market!FetchFails
    <2>p. thread.pc = "fetch" /\ UNCHANGED <<gate, refresh_pending, queue, current, shutdown>>
      BY <1>6, Zenon DEF Market!Fetched, Market!FetchFails
    <2>1. /\ thread' = [pc |-> thread'.pc, request |-> thread'.request,
                        snapshot |-> thread'.snapshot]
          /\ thread'.pc = "publish" /\ thread'.request = thread.request
          /\ thread'.snapshot = [selected |-> thread'.snapshot.selected,
                                 status |-> thread'.snapshot.status,
                                 error |-> thread'.snapshot.error,
                                 next_refresh |-> thread'.snapshot.next_refresh]
          /\ \/ thread'.snapshot.status = None
             \/ /\ thread.request.command = "refresh"
                /\ thread'.snapshot.status = thread.snapshot.status
      <3>1. CASE Market!Fetched
        BY <1>s, <3>1, Zenon DEF Market!Fetched
      <3>2. CASE Market!FetchFails
        <4> DEFINE kept == IF thread.request.command = "refresh" THEN thread.snapshot.status
                                                                ELSE None
                   later == IF thread.request.command = "search"
                              THEN thread.snapshot.next_refresh ELSE "later"
        <4>1. thread' = [thread EXCEPT !.pc = "publish",
                           !.snapshot = [thread.snapshot EXCEPT !.error = TRUE, !.status = kept,
                                                                !.next_refresh = later]]
          BY <3>2, Zenon DEF Market!FetchFails
        <4>2. kept = None \/ (thread.request.command = "refresh" /\ kept = thread.snapshot.status)
          OBVIOUS
        <4> HIDE DEF kept, later
        <4> QED
          BY <1>s, <4>1, <4>2, Zenon
      <3> QED
        BY <1>6, <3>1, <3>2, Zenon
    <2>2. MarketShape'
      BY <1>s, <2>p, <2>1, Zenon DEF MarketShape
    <2>3. Market!Working /\ Market!Working' /\ thread'.pc # "fetch"
      BY <2>p, <2>1 DEF Market!Working
    <2>4. PromiseHasAnswer'
      <3>1. ~shutdown' => ~Promising(thread'.snapshot.status)
        BY <1>i, <2>p, <2>1, Zenon DEF PromiseHasAnswer
      <3> QED
        BY <1>i, <2>p, <2>1, <2>3, <3>1, Zenon DEF PromiseHasAnswer, Market!RequestIsCurrent
    <2> QED
      BY <1>q, <1>r, <2>p, <2>1, <2>2, <2>3, <2>4, Zenon
  <1>7. CASE Market!PublishResult
    <2>p. /\ thread.pc = "publish" /\ UNCHANGED <<gate, refresh_pending, queue, shutdown>>
          /\ thread' = [thread EXCEPT !.pc = "settle"]
          /\ \/ current' = thread.snapshot /\ ~shutdown /\ Market!RequestIsCurrent(thread.request)
             \/ current' = current /\ (shutdown \/ ~Market!RequestIsCurrent(thread.request))
      BY <1>7, Zenon DEF Market!PublishResult, Market!PublishWorkerIfCurrent, Market!PublishIf,
         Market!Publish
    <2>1. /\ thread' = [pc |-> thread'.pc, request |-> thread'.request,
                        snapshot |-> thread'.snapshot]
          /\ thread'.pc = "settle" /\ thread'.request = thread.request
          /\ thread'.snapshot = thread.snapshot
      BY <1>s, <2>p
    <2>2. MarketShape'
      BY <1>s, <2>p, <2>1, Zenon DEF MarketShape
    <2>3. Market!Working /\ Market!Working' /\ thread'.pc # "fetch" /\ thread'.pc # "publish"
      BY <2>p, <2>1 DEF Market!Working
    <2>4. PromiseHasAnswer'
      BY <1>i, <2>p, <2>1, <2>3, Zenon DEF PromiseHasAnswer, Market!RequestIsCurrent
    <2> QED
      BY <1>q, <1>r, <2>p, <2>1, <2>2, <2>3, <2>4, Zenon
  <1>8. CASE Market!Settle
    <2>1. /\ thread.pc = "settle" /\ UNCHANGED <<gate, current, queue, shutdown>>
          /\ thread' = [Market!Idle EXCEPT !.pc = IF shutdown THEN "done" ELSE "recv"]
          /\ refresh_pending' = (refresh_pending /\ thread.request.command # "refresh")
      BY <1>8, Zenon DEF Market!Settle, Market!Skip
    <2>2. thread.pc \notin {"fetch", "publish"}
      BY <2>1
    <2>3. MarketRests /\ (~Promising(current.status) \/ shutdown)
      BY <1>i, <2>1, <2>2, Zenon DEF MarketRests, PromiseHasAnswer
    <2> QED
      BY <1>i, <1>q, <1>r, <1>s, <2>1, <2>3, MarketGoesToRest, Zenon
  <1>9. CASE Market!Disconnected
    <2>1. /\ thread.pc = "recv" /\ shutdown /\ UNCHANGED <<gate, current, queue, shutdown>>
          /\ thread' = [thread EXCEPT !.pc = "done"] /\ refresh_pending' = FALSE
      BY <1>9, Zenon DEF Market!Disconnected
    <2>2. /\ thread' = [pc |-> thread'.pc, request |-> thread'.request,
                        snapshot |-> thread'.snapshot]
          /\ thread'.pc # "publish" /\ thread'.snapshot = thread.snapshot
      BY <1>s, <2>1, Zenon
    <2>3. MarketShape'
      BY <1>s, <2>1, <2>2, Zenon DEF MarketShape
    <2> QED
      BY <1>i, <1>q, <2>1, <2>2, <2>3, Zenon DEF PromiseHasAnswer
  <1>10. CASE UNCHANGED Market!vars
    <2>1. UNCHANGED <<gate, refresh_pending, queue, current, thread, shutdown>>
      BY <1>10, Zenon DEF Market!vars
    <2>2. MarketShape' /\ PromiseHasAnswer'
      BY <1>i, <2>1, Zenon DEF MarketShape, PromiseHasAnswer, Market!RequestIsCurrent
    <2> QED
      BY <1>q, <1>r, <2>1, <2>2, Zenon DEF Market!Working
  <1>11. /\ "search" \in {"search", "select", "clear", "refresh"}
         /\ "select" \in {"search", "select", "clear", "refresh"}
         /\ "clear" \in {"search", "select", "clear", "refresh"}
         /\ "refresh" \in {"search", "select", "clear", "refresh"}
    OBVIOUS
  <1>12. ASSUME Market!Next
         PROVE  MarketInv'
    <2>1. \/ \E item \in Items : Market!Send("select", item)
          \/ Market!Send("search", None) \/ Market!Send("clear", None)
          \/ \E open, due \in BOOLEAN : Market!Sync(open, due)
          \/ Market!RefreshSelected \/ Market!Drop
          \/ Market!Receive \/ Market!Begin \/ Market!Fetched \/ Market!FetchFails
          \/ Market!PublishResult \/ Market!Settle \/ Market!Disconnected
      BY <1>12, Zenon DEF Market!Next
    <2> QED
      BY <1>1, <1>2, <1>3, <1>4, <1>5, <1>6, <1>7, <1>8, <1>9, <1>11, <2>1, ZenonT(30)
  <1> QED
    BY <1>10, <1>12, Zenon

\* The invariant says what the widget's property says.
LEMMA MarketSays ==
    ASSUME MarketInv
    PROVE  Market!MarketWaitsForWork
  <1>1. thread.pc \in {"fetch", "publish"} => Market!Working
    BY DEF Market!Working
  <1> QED
    BY <1>1, Zenon DEF MarketInv, PromiseHasAnswer, Promising, Market!MarketWaitsForWork,
       Market!StatusHasWork

\* The coalescing flag and the promising statuses of the market widget are never left
\* behind by the worker, whatever the items, the queue's capacity and the budgets.
THEOREM MarketCorrect ==
    ASSUME None \notin {"searching", "loading"}
    PROVE  Market!Spec => []MarketWaitsForWork
  <1>0. ~Promising(None)
    BY Zenon DEF Promising
  <1>1. Market!Init => MarketInv
    BY <1>0, MarketStarts, Zenon
  <1>2. MarketInv /\ [Market!Next]_Market!vars => MarketInv'
    BY <1>0, MarketSteps, Zenon
  <1>3. MarketInv => Market!MarketWaitsForWork
    BY MarketSays, Zenon
  <1> QED
    BY <1>1, <1>2, <1>3, PTL DEF Market!Spec, MarketWaitsForWork

------------------------------------------------------------------------------
(* The Warframe worldstate: overcrow-overlay/src/warframe.                 *)

\* A snapshot is a record; its age can be told.
Shot(s) ==
    /\ s = [payload |-> s.payload, fetched |-> s.fetched, attempt |-> s.attempt,
            error |-> s.error, cetus |-> s.cetus, vallis |-> s.vallis,
            zariman |-> s.zariman, reset |-> s.reset, invasions |-> s.invasions]
    /\ s.fetched \in Nat

\* The worker's records.
WorldWorker ==
    /\ thread = [pc |-> thread.pc, at |-> thread.at, next_poll |-> thread.next_poll,
                 backoff |-> thread.backoff, last_good |-> thread.last_good,
                 published |-> thread.published]
    /\ now \in Nat /\ thread.at \in Nat /\ Shot(thread.last_good)
    /\ World!RetainedIsRecent

\* The snapshot that waits is newer than the one the controller has.
WorldChannel ==
    /\ latest = [value |-> latest.value, revision |-> latest.revision, unread |-> latest.unread]
    /\ view = [value |-> view.value, revision |-> view.revision, tick_at |-> view.tick_at,
               ticked |-> view.ticked, walked |-> view.walked]
    /\ latest.revision \in Nat /\ view.revision \in Nat
    /\ Shot(latest.value) /\ Shot(view.value)
    /\ view.revision <= latest.revision
    /\ latest.unread => view.revision < latest.revision

\* The key of the painted rows names no revision to come, and what it names it has.
WorldKey == <<view.revision, prefs.revision>>
WorldRows ==
    /\ prefs = [done |-> prefs.done, revision |-> prefs.revision] /\ prefs.revision \in Nat
    /\ derived = [key |-> derived.key, rows |-> derived.rows]
    /\ \/ derived.key = <<>>
       \/ \E a, b \in Nat : derived.key = <<a, b>> /\ a <= view.revision /\ b <= prefs.revision
    /\ derived.key = WorldKey => derived.rows = World!Rows(view.value, prefs.done)
    /\ frame = "render" => derived.key = WorldKey

\* The inductive invariant.
WorldInv == WorldWorker /\ WorldChannel /\ WorldRows

\* A reply read, and what a failure leaves, are snapshots.
LEMMA ShotParsed ==
    ASSUME NEW t, NEW invasions, NEW at \in Nat
    PROVE  /\ Shot(World!ParseWorldstate(t, invasions, at))
           /\ ~World!ParseWorldstate(t, invasions, at).error
BY DEF Shot, World!ParseWorldstate

\* A snapshot marked as that of a failed attempt.
Marked(s, f, at) == [s EXCEPT !.fetched = f, !.attempt = at, !.error = TRUE]
LEMMA ShotMarked ==
    ASSUME NEW good, Shot(good), NEW f \in Nat, NEW at
    PROVE  /\ Shot(Marked(good, f, at)) /\ Marked(good, f, at).attempt = at
           /\ Marked(good, f, at).fetched = f /\ Marked(good, f, at).payload = good.payload
           /\ Marked(good, f, at).invasions = good.invasions
<1> DEFINE s == Marked(good, f, at)
<1>1. s = [payload |-> good.payload, fetched |-> f, attempt |-> at, error |-> TRUE,
           cetus |-> good.cetus, vallis |-> good.vallis, zariman |-> good.zariman,
           reset |-> good.reset, invasions |-> good.invasions]
  <2>1. /\ Marked(good, f, at) = [good EXCEPT !.fetched = f, !.attempt = at, !.error = TRUE]
        /\ good = [payload |-> good.payload, fetched |-> good.fetched, attempt |-> good.attempt,
                   error |-> good.error, cetus |-> good.cetus, vallis |-> good.vallis,
                   zariman |-> good.zariman, reset |-> good.reset, invasions |-> good.invasions]
    BY Zenon DEF Shot, Marked
  <2> QED
    BY <2>1, Zenon
<1> HIDE DEF s
<1>2. /\ Shot(s) /\ s.attempt = at /\ s.fetched = f /\ s.payload = good.payload
      /\ s.invasions = good.invasions
  BY <1>1 DEF Shot
<1> QED
  BY <1>2, Zenon DEF s

\* FailureSnapshot keeps the data of the last good reply only while it is recent.
LEMMA ShotFailed ==
    ASSUME NEW good, Shot(good), NEW at \in Nat, Ttl \in Nat,
           NEW s, s = World!FailureSnapshot(good, at)
    PROVE  /\ Shot(s)
           /\ s.payload => /\ s.attempt - s.fetched <= Ttl
                           /\ s.fetched = good.fetched /\ s.invasions = good.invasions
<1>n. Shot(World!NoSnapshot) /\ ~World!NoSnapshot.payload
  BY DEF Shot, World!NoSnapshot
<1>f. good.fetched \in Nat
  BY Zenon DEF Shot
<1>1. CASE good.payload /\ at - good.fetched > Ttl
  <2>1. World!FailureSnapshot(good, at) = Marked(World!NoSnapshot, good.fetched, at)
    BY <1>1, Zenon DEF World!FailureSnapshot, Marked
  <2> QED
    BY <1>n, <1>f, <2>1, ShotMarked
<1>2. CASE ~(good.payload /\ at - good.fetched > Ttl)
  <2>1. World!FailureSnapshot(good, at) = Marked(good, good.fetched, at)
    BY <1>2, Zenon DEF World!FailureSnapshot, Marked, Shot
  <2>2. good.payload => at - good.fetched <= Ttl
    BY <1>2, <1>f
  <2>3. /\ Shot(s) /\ s.attempt = at /\ s.fetched = good.fetched
        /\ s.payload = good.payload /\ s.invasions = good.invasions
    BY <1>f, <2>1, ShotMarked
  <2> QED
    BY <2>2, <2>3
<1> QED
  BY <1>1, <1>2, Zenon

\* The timers between two replies leave the invasions alone.
LEMMA ShotAdvanced ==
    ASSUME NEW s, Shot(s), NEW t
    PROVE  /\ Shot(World!AdvanceLiveTimers(s, t))
           /\ World!AdvanceLiveTimers(s, t).invasions = s.invasions
<1>1. CASE ~s.payload
  BY <1>1, Zenon DEF World!AdvanceLiveTimers
<1>2. CASE s.payload
  <2>1. \E c, v, z, r : World!AdvanceLiveTimers(s, t)
                          = [s EXCEPT !.cetus = c, !.vallis = v, !.zariman = z, !.reset = r]
    BY <1>2, Zenon DEF World!AdvanceLiveTimers
  <2>2. PICK c, v, z, r : World!AdvanceLiveTimers(s, t)
                          = [s EXCEPT !.cetus = c, !.vallis = v, !.zariman = z, !.reset = r]
    BY <2>1, Zenon
  <2> QED
    BY <2>2, Zenon DEF Shot
<1> QED
  BY <1>1, <1>2, Zenon

\* At the start nothing has been fetched, painted or marked.
LEMMA WorldStart == ASSUME World!Init PROVE WorldInv
<1> DEFINE n == World!NoSnapshot
<1>n. Shot(n) /\ ~n.error
  BY DEF Shot, World!NoSnapshot
<1> HIDE DEF n
<1>1. /\ thread = [pc |-> "idle", at |-> 0, next_poll |-> 0, backoff |-> BackoffInitial,
                   last_good |-> n, published |-> n]
      /\ now = 0 /\ latest = [value |-> n, revision |-> 0, unread |-> FALSE]
      /\ view = [value |-> n, revision |-> 0, tick_at |-> 0, ticked |-> FALSE,
                 walked |-> TRUE]
      /\ prefs = [done |-> {}, revision |-> 0] /\ derived = [key |-> <<>>, rows |-> <<>>]
      /\ frame = "idle"
  BY Zenon DEF World!Init, n
<1>2. WorldWorker
  BY <1>n, <1>1 DEF WorldWorker, World!RetainedIsRecent
<1>3. WorldChannel
  BY <1>n, <1>1 DEF WorldChannel
<1>4. WorldRows
  BY <1>1 DEF WorldRows, WorldKey
<1> QED
  BY <1>2, <1>3, <1>4, ZenonT(30) DEF WorldInv

\* publish_if_changed makes what waits newer.
LEMMA WorldPublish ==
    ASSUME WorldChannel, NEW s, Shot(s), World!Publish(s), view' = view
    PROVE  WorldChannel'
<1>1. CASE latest' = latest
  BY <1>1, Zenon DEF WorldChannel
<1>2. CASE latest' = [value |-> s, revision |-> latest.revision + 1, unread |-> TRUE]
  BY <1>2 DEF WorldChannel
<1> QED
  BY <1>1, <1>2, Zenon DEF World!Publish

\* What leaves the controller, the preferences and the rows alone.
LEMMA WorldRowsKept ==
    ASSUME WorldRows, view'.value = view.value, view'.revision = view.revision,
           prefs' = prefs, derived' = derived, frame' \in {frame, "idle"}
    PROVE  WorldRows'
<1>1. WorldKey' = WorldKey
  BY Zenon DEF WorldKey
<1>2. frame' = "render" => frame = "render"
  BY "idle" # "render"
<1> QED
  BY <1>1, <1>2, Zenon DEF WorldRows

\* A second passes.
LEMMA WorldSecond == ASSUME WorldInv, World!Second PROVE WorldInv'
<1>1. /\ now' = now + 1 /\ view' = [view EXCEPT !.ticked = FALSE] /\ frame' = "idle"
      /\ thread' = thread /\ latest' = latest /\ prefs' = prefs /\ derived' = derived
  BY Zenon DEF World!Second
<1>2. WorldWorker'
  BY <1>1 DEF WorldInv, WorldWorker, World!RetainedIsRecent
<1>3. /\ view' = [value |-> view.value, revision |-> view.revision, tick_at |-> view.tick_at,
                  ticked |-> FALSE, walked |-> view.walked]
      /\ view'.value = view.value /\ view'.revision = view.revision
  BY <1>1, Zenon DEF WorldInv, WorldChannel
<1>4. WorldChannel'
  BY <1>1, <1>3, Zenon DEF WorldInv, WorldChannel
<1>5. WorldRows'
  BY <1>1, <1>3, WorldRowsKept, Zenon DEF WorldInv
<1> QED
  BY <1>2, <1>4, <1>5, Zenon DEF WorldInv

\* The worker takes up a request with the second it is made at.
LEMMA WorldWake == ASSUME WorldInv, World!Wake PROVE WorldInv'
<1>1. /\ thread' = thread \/ thread' = [thread EXCEPT !.pc = "fetch", !.at = now]
      /\ now' = now /\ view' = view /\ frame' = frame
      /\ latest' = latest /\ prefs' = prefs /\ derived' = derived
  BY Zenon DEF World!Wake
<1>2. WorldWorker'
  <2>1. CASE thread' = thread
    BY <1>1, <2>1, Zenon DEF WorldInv, WorldWorker, World!RetainedIsRecent
  <2>2. CASE thread' = [thread EXCEPT !.pc = "fetch", !.at = now]
    <3>1. thread' = [pc |-> "fetch", at |-> now, next_poll |-> thread.next_poll,
                     backoff |-> thread.backoff, last_good |-> thread.last_good,
                     published |-> thread.published]
      BY <2>2, Zenon DEF WorldInv, WorldWorker
    <3> QED
      BY <1>1, <3>1 DEF WorldInv, WorldWorker, World!RetainedIsRecent
  <2> QED
    BY <1>1, <2>1, <2>2, Zenon
<1>3. WorldChannel'
  BY <1>1, Zenon DEF WorldInv, WorldChannel
<1>4. WorldRows'
  BY <1>1, WorldRowsKept, Zenon DEF WorldInv
<1> QED
  BY <1>2, <1>3, <1>4, Zenon DEF WorldInv

\* A reply is read.
LEMMA WorldFetched == ASSUME WorldInv, World!Fetched PROVE WorldInv'
<1>1. PICK lag \in 0 .. Lag, invasions \in SUBSET Invasions :
        LET s == World!ParseWorldstate(World!Greatest(now - lag, 0), invasions, thread.at)
        IN  /\ World!Publish(s)
            /\ thread' = [thread EXCEPT !.pc = "idle", !.next_poll = now + PollInterval,
                                        !.backoff = BackoffInitial, !.published = s,
                                        !.last_good = IF thread.published = s THEN @ ELSE s]
  BY Zenon DEF World!Fetched
<1> DEFINE s == World!ParseWorldstate(World!Greatest(now - lag, 0), invasions, thread.at)
<1>2. Shot(s) /\ ~s.error
  BY ShotParsed, Zenon DEF WorldInv, WorldWorker
<1>3. /\ World!Publish(s)
      /\ thread' = [thread EXCEPT !.pc = "idle", !.next_poll = now + PollInterval,
                                  !.backoff = BackoffInitial, !.published = s,
                                  !.last_good = IF thread.published = s THEN @ ELSE s]
  BY <1>1
<1> HIDE DEF s
<1>4. /\ now' = now /\ view' = view /\ frame' = frame /\ prefs' = prefs /\ derived' = derived
  BY Zenon DEF World!Fetched
<1>5. PICK g \in {thread.last_good, s} :
        thread' = [pc |-> "idle", at |-> thread.at, next_poll |-> now + PollInterval,
                   backoff |-> BackoffInitial, last_good |-> g, published |-> s]
  BY <1>3, Zenon DEF WorldInv, WorldWorker
<1>6. Shot(g)
  BY <1>2, <1>5, Zenon DEF WorldInv, WorldWorker
<1>7. WorldWorker'
  BY <1>2, <1>4, <1>5, <1>6 DEF WorldInv, WorldWorker, World!RetainedIsRecent
<1>8. WorldChannel'
  BY <1>2, <1>3, <1>4, WorldPublish, Zenon DEF WorldInv
<1>9. WorldRows'
  BY <1>4, WorldRowsKept, Zenon DEF WorldInv
<1> QED
  BY <1>7, <1>8, <1>9, Zenon DEF WorldInv

\* A request fails.
LEMMA WorldFails == ASSUME WorldInv, Ttl \in Nat, World!FetchFails PROVE WorldInv'
<1> DEFINE s == World!FailureSnapshot(thread.last_good, thread.at)
<1>1. /\ World!Publish(s)
      /\ thread' = [thread EXCEPT !.pc = "idle", !.next_poll = now + thread.backoff,
                                  !.backoff = World!Least(2 * @, BackoffMax), !.published = s]
  BY Zenon DEF World!FetchFails
<1>2. /\ Shot(s)
      /\ s.payload => /\ s.attempt - s.fetched <= Ttl
                      /\ s.fetched = thread.last_good.fetched
                      /\ s.invasions = thread.last_good.invasions
  BY ShotFailed DEF WorldInv, WorldWorker
<1> HIDE DEF s
<1>3. /\ now' = now /\ view' = view /\ frame' = frame /\ prefs' = prefs /\ derived' = derived
  BY Zenon DEF World!FetchFails
<1>4. PICK n, b : thread' = [pc |-> "idle", at |-> thread.at, next_poll |-> n, backoff |-> b,
                             last_good |-> thread.last_good, published |-> s]
  BY <1>1, Zenon DEF WorldInv, WorldWorker
<1>5. WorldWorker'
  BY <1>2, <1>3, <1>4 DEF WorldInv, WorldWorker, World!RetainedIsRecent
<1>6. WorldChannel'
  BY <1>1, <1>2, <1>3, WorldPublish, Zenon DEF WorldInv
<1>7. WorldRows'
  BY <1>3, WorldRowsKept, Zenon DEF WorldInv
<1> QED
  BY <1>5, <1>6, <1>7, Zenon DEF WorldInv

\* sync paints the rows of the snapshot it has just taken.
LEMMA WorldDerive ==
    ASSUME WorldRows, WorldChannel, NEW v, v = World!Drained, World!SyncDerived(v),
           view'.revision = v.revision, view'.value.invasions = v.value.invasions,
           prefs' = prefs
    PROVE  WorldRows'
<1> DEFINE k == <<v.revision, prefs.revision>>
<1>0. /\ v.revision \in Nat /\ view.revision \in Nat /\ prefs.revision \in Nat
      /\ view.revision <= v.revision
      /\ v.revision = view.revision => v.value = view.value
  <2>1. CASE latest.unread
    <3>1. v = [value |-> latest.value, revision |-> latest.revision, tick_at |-> view.tick_at,
               ticked |-> view.ticked, walked |-> TRUE]
      BY <2>1, Zenon DEF World!Drained, WorldChannel
    <3> QED
      BY <2>1, <3>1 DEF WorldChannel, WorldRows
  <2>2. CASE ~latest.unread
    BY <2>2 DEF World!Drained, WorldChannel, WorldRows
  <2> QED
    BY <2>1, <2>2, Zenon
<1>1. WorldKey' = k
  BY Zenon DEF WorldKey
<1>2. World!Rows(view'.value, prefs.done) = World!Rows(v.value, prefs.done)
  BY Zenon DEF World!Rows
<1>3. derived'.key = k /\ derived' = [key |-> derived'.key, rows |-> derived'.rows]
  BY DEF World!SyncDerived, WorldRows
<1>4. derived'.rows = World!Rows(v.value, prefs.done)
  <2>1. CASE derived.key # k
    BY <2>1 DEF World!SyncDerived
  <2>2. CASE derived.key = k
    <3>1. derived' = derived
      BY <2>2, Zenon DEF World!SyncDerived
    <3>2. PICK a, b \in Nat : derived.key = <<a, b>> /\ a <= view.revision /\ b <= prefs.revision
      BY <2>2, SMTT(30) DEF WorldRows
    <3>3. v.revision = view.revision
      BY <1>0, <2>2, <3>2
    <3>4. derived.rows = World!Rows(view.value, prefs.done)
      BY <2>2, <3>3, Zenon DEF WorldRows, WorldKey
    <3> QED
      BY <1>0, <3>1, <3>3, <3>4, Zenon
  <2> QED
    BY <2>1, <2>2, ZenonT(30)
<1> HIDE DEF k
<1>5. \E a, b \in Nat : derived'.key = <<a, b>> /\ a <= view'.revision /\ b <= prefs'.revision
  <2>1. derived'.key = <<v.revision, prefs.revision>>
    BY <1>3, Zenon DEF k
  <2>2. v.revision <= view'.revision /\ prefs.revision <= prefs'.revision
    BY <1>0
  <2> QED
    BY <1>0, <2>1, <2>2, Zenon
<1> QED
  BY <1>1, <1>2, <1>3, <1>4, <1>5, Zenon DEF WorldRows

\* A frame syncs.
LEMMA WorldSync == ASSUME WorldInv, NEW enabled, World!Sync(enabled) PROVE WorldInv'
<1> DEFINE v == World!Drained
<1>1. /\ view' = [value |-> view'.value, revision |-> view'.revision,
                  tick_at |-> view'.tick_at, ticked |-> view'.ticked,
                  walked |-> view'.walked]
      /\ view'.value \in {World!AdvanceLiveTimers(v.value, now), v.value}
      /\ view'.revision = v.revision
  <2> DEFINE due == enabled /\ now >= v.tick_at
             w == IF due THEN World!AdvanceLiveTimers(v.value, now) ELSE v.value
             next == IF ~enabled THEN 0 ELSE IF due THEN now + 1 ELSE v.tick_at
             far == v.walked /\ (due => World!Reached(v.value, now))
  <2>1. view' = [value |-> w, revision |-> v.revision, tick_at |-> next, ticked |-> due,
                 walked |-> far]
    BY Zenon DEF World!Sync
  <2> HIDE DEF due, v
  <2>2. w \in {World!AdvanceLiveTimers(v.value, now), v.value}
    OBVIOUS
  <2> HIDE DEF w, next, far
  <2> QED
    BY <2>1, <2>2
<1>2. /\ now' = now /\ thread' = thread /\ prefs' = prefs /\ frame' = "render"
      /\ latest' = [latest EXCEPT !.unread = FALSE] /\ World!SyncDerived(v)
  BY Zenon DEF World!Sync
<1>3. Shot(v.value) /\ v.revision \in Nat /\ v.revision <= latest.revision
  <2>1. CASE latest.unread
    BY <2>1 DEF World!Drained, WorldInv, WorldChannel
  <2>2. CASE ~latest.unread
    BY <2>2 DEF World!Drained, WorldInv, WorldChannel
  <2> QED
    BY <2>1, <2>2, Zenon
<1>v. v = World!Drained
  OBVIOUS
<1> HIDE DEF v
<1>4. Shot(view'.value) /\ view'.value.invasions = v.value.invasions
  BY <1>1, <1>3, ShotAdvanced, Zenon
<1>5. WorldWorker'
  BY <1>2, Zenon DEF WorldInv, WorldWorker, World!RetainedIsRecent
<1>6. WorldChannel'
  <2>1. latest' = [value |-> latest.value, revision |-> latest.revision, unread |-> FALSE]
    BY <1>2, Zenon DEF WorldInv, WorldChannel
  <2> QED
    BY <1>1, <1>3, <1>4, <2>1 DEF WorldInv, WorldChannel
<1>7. view'.revision = v.revision /\ view'.value.invasions = v.value.invasions
  BY <1>1, <1>4
<1>8. WorldRows'
  BY <1>2, <1>v, <1>7, WorldDerive, Zenon DEF WorldInv
<1> QED
  BY <1>5, <1>6, <1>8, Zenon DEF WorldInv

\* An action of the frame is saved, or is not.
LEMMA WorldCommit ==
    ASSUME WorldInv, NEW i, NEW outcome \in {"durable", "committed", "rolled_back"},
           World!CommitActions(i, outcome)
    PROVE  WorldInv'
<1>1. /\ now' = now /\ thread' = thread /\ latest' = latest /\ view' = view
      /\ derived' = derived /\ frame' = "idle"
  BY Zenon DEF World!CommitActions
<1>2. WorldWorker'
  BY <1>1, Zenon DEF WorldInv, WorldWorker, World!RetainedIsRecent
<1>3. WorldChannel'
  BY <1>1, Zenon DEF WorldInv, WorldChannel
<1>4. CASE outcome = "rolled_back"
  <2>1. prefs' = prefs
    BY <1>4, Zenon DEF World!CommitActions
  <2>2. WorldRows'
    BY <1>1, <2>1, WorldRowsKept, Zenon DEF WorldInv
  <2> QED
    BY <1>2, <1>3, <2>2, Zenon DEF WorldInv
<1>5. CASE outcome # "rolled_back"
  <2>1. prefs' = [done |-> World!Toggle(i), revision |-> prefs.revision + 1]
    BY <1>5 DEF World!CommitActions, World!Committed
  <2>2. prefs.revision \in Nat /\ view.revision \in Nat
    BY Zenon DEF WorldInv, WorldChannel, WorldRows
  <2>3. CASE derived.key = <<>>
    <3>1. derived.key # WorldKey'
      BY <2>3 DEF WorldKey
    <3> QED
      BY <1>1, <2>1, <2>2, <2>3, <3>1, <1>2, <1>3, "idle" # "render", SMTT(30) DEF WorldInv, WorldRows
  <2>4. CASE \E a, b \in Nat : derived.key = <<a, b>> /\ a <= view.revision /\ b <= prefs.revision
    <3>1. PICK a, b \in Nat : derived.key = <<a, b>> /\ a <= view.revision /\ b <= prefs.revision
      BY <2>4
    <3>2. b <= prefs'.revision /\ b # prefs'.revision /\ prefs'.revision \in Nat
      BY <2>1, <2>2, <3>1
    <3>3. derived'.key # WorldKey'
      BY <1>1, <3>1, <3>2 DEF WorldKey
    <3>4. \E c, d \in Nat : derived'.key = <<c, d>> /\ c <= view'.revision /\ d <= prefs'.revision
      BY <1>1, <3>1, <3>2, Zenon
    <3>5. prefs' = [done |-> prefs'.done, revision |-> prefs'.revision]
      BY <2>1
    <3>6. frame' # "render"
      BY <1>1
    <3>7. WorldRows'
      BY <1>1, <3>2, <3>3, <3>4, <3>5, <3>6, ZenonT(30) DEF WorldInv, WorldRows
    <3> QED
      BY <1>2, <1>3, <3>7, Zenon DEF WorldInv
  <2> QED
    BY <2>3, <2>4, Zenon DEF WorldInv, WorldRows
<1> QED
  BY <1>4, <1>5, Zenon

\* Every step keeps the invariant.
LEMMA WorldStep == ASSUME Ttl \in Nat, WorldInv, [World!Next]_(World!vars) PROVE WorldInv'
<1>1. CASE UNCHANGED World!vars
  BY <1>1, Zenon DEF World!vars, WorldInv, WorldWorker, WorldChannel, WorldRows, WorldKey,
                     World!RetainedIsRecent
<1>2. CASE World!Next
  BY <1>2, WorldSecond, WorldWake, WorldFetched, WorldFails, WorldSync, WorldCommit, ZenonT(30)
     DEF World!Next
<1> QED
  BY <1>1, <1>2, Zenon

\* Whenever replies come, fail or are late and whatever is marked meanwhile, what a failed
\* request leaves on the screen is the newest good reply while it is recent, and the rows a
\* frame paints and acts on are those of the snapshot and the preferences it has.
THEOREM WorldCorrect == ASSUME Ttl \in Nat PROVE World!Spec => []WorldIsCurrent
<1>1. World!Init => WorldInv
  BY WorldStart, Zenon
<1>2. WorldInv /\ [World!Next]_(World!vars) => WorldInv'
  BY WorldStep, Zenon
<1>3. WorldInv => WorldIsCurrent
  <2> SUFFICES ASSUME WorldInv PROVE World!RetainedIsRecent /\ World!RowsAreCurrent
    BY Zenon DEF WorldIsCurrent
  <2>1. World!RetainedIsRecent
    BY Zenon DEF WorldInv, WorldWorker
  <2>2. World!RowsAreCurrent
    BY Zenon DEF WorldInv, WorldRows, World!RowsAreCurrent
  <2> QED
    BY <2>1, <2>2, Zenon
<1> QED
  BY <1>1, <1>2, <1>3, PTL DEF World!Spec
===============================================================================
