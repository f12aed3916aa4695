-------------------------- MODULE AssetLoaderProofs --------------------------
(***************************************************************************)
(* Theorems about the image loaders.  The argument is one of counting: a   *)
(* result of the current generation is never dropped, because the results  *)
(* that wait are those of other pending ids and one stale result at most,  *)
(* and pending is bounded by the capacity of the request queue.            *)
(***************************************************************************)
EXTENDS AssetLoader, FiniteSetTheorems, TLAPS

LoaderRequests == [generation: Nat, id: Ids]
LoaderResults == [generation: Nat, id: Ids, entry: {"ready", "failed"}]

\* The atomics, the queues and the sets have the form the steps read, and no more ids are
\* pending than the request queue holds.
LoaderShape ==
    /\ enabled \in BOOLEAN /\ generation \in Nat
    /\ requests \in Seq(LoaderRequests) /\ results \in Seq(LoaderResults)
    /\ worker.pc \in {"recv", "fetch", "send"}
    /\ worker = [pc |-> worker.pc, request |-> worker.request]
    /\ worker.pc # "recv" => worker.request \in LoaderRequests
    /\ pending \subseteq Ids /\ IsFiniteSet(pending) /\ Cardinality(pending) <= RequestCap

Mine(r) == r.generation = generation
Busy == worker.pc # "recv"
Settled == ui \in {"frame", "paint"}

\* Generations only grow: what is under way is of this one or of an earlier one, and of an
\* earlier one as long as the results of a bump are not drained.
LoaderAges ==
    /\ \A k \in DOMAIN requests : requests[k].generation <= generation
    /\ \A k \in DOMAIN results : results[k].generation <= generation
    /\ Busy => worker.request.generation <= generation
    /\ ui \in {"drain", "forget"} =>
         /\ \A k \in DOMAIN requests : ~Mine(requests[k])
         /\ \A k \in DOMAIN results : ~Mine(results[k])
         /\ Busy => ~Mine(worker.request)

\* What is under way for this generation is pending, and under way once.
LoaderPending ==
    /\ \A k \in DOMAIN requests : Mine(requests[k]) => requests[k].id \in pending
    /\ \A k \in DOMAIN results : Mine(results[k]) => results[k].id \in pending
    /\ Busy /\ Mine(worker.request) => worker.request.id \in pending
QueuedOnce ==
    \A j, k \in DOMAIN requests :
      Mine(requests[j]) /\ Mine(requests[k]) /\ requests[j].id = requests[k].id => j = k
AnsweredOnce ==
    \A j, k \in DOMAIN results :
      Mine(results[j]) /\ Mine(results[k]) /\ results[j].id = results[k].id => j = k
QueuedOrAnswered ==
    \A j \in DOMAIN requests, k \in DOMAIN results :
      Mine(requests[j]) /\ Mine(results[k]) => requests[j].id # results[k].id
FetchedOnce ==
    Busy /\ Mine(worker.request) =>
      /\ \A j \in DOMAIN requests : Mine(requests[j]) => requests[j].id # worker.request.id
      /\ \A k \in DOMAIN results : Mine(results[k]) => results[k].id # worker.request.id
LoaderOnce == LoaderPending /\ QueuedOnce /\ AnsweredOnce /\ QueuedOrAnswered /\ FetchedOnce

\* One stale result at most, that of the request whose last check came before the bump.
LoaderStale ==
    /\ \A j, k \in DOMAIN results : ~Mine(results[j]) /\ ~Mine(results[k]) => j = k
    /\ \A k \in DOMAIN results :
         ~Mine(results[k]) => ~(worker.pc = "send" /\ ~Mine(worker.request))

\* While a refused emote waits for a frame, a queue or a request of this generation will
\* bring one.
LoaderWakes ==
    Emotes /\ enabled /\ refused # {} =>
      repaint \/ requests # <<>> \/ (Busy /\ Mine(worker.request)) \/ results # <<>>

LoaderInv ==
    /\ LoaderShape /\ LoaderAges
    /\ Settled => /\ LoaderOnce /\ LoaderStale /\ LoaderWakes /\ PendingIsInFlight
                  /\ enabled \/ pending = {}

\* The invariant holds at the start.
LEMMA LoaderStarts ==
    ASSUME RequestCap \in Nat, Init
    PROVE  LoaderInv
  <1>1. /\ enabled = FALSE /\ generation = 0 /\ pending = {} /\ requests = <<>> /\ results = <<>>
        /\ worker = [pc |-> "recv", request |-> [generation |-> 0, id |-> "none"]]
        /\ ui = "frame"
    BY Zenon DEF Init, Idle
  <1>2. IsFiniteSet(pending) /\ Cardinality(pending) = 0
    BY <1>1, FS_EmptySet, Zenon
  <1>3. LoaderShape
    <2>1. /\ enabled \in BOOLEAN /\ generation \in Nat /\ worker.pc = "recv"
          /\ requests \in Seq(LoaderRequests) /\ results \in Seq(LoaderResults)
          /\ worker = [pc |-> worker.pc, request |-> worker.request] /\ pending \subseteq Ids
      <3>1. worker.pc = "recv" /\ worker = [pc |-> worker.pc, request |-> worker.request]
        BY <1>1
      <3>2. <<>> \in Seq(LoaderRequests) /\ <<>> \in Seq(LoaderResults) /\ 0 \in Nat
        OBVIOUS
      <3> QED
        BY <1>1, <3>1, <3>2, Zenon
    <2>2. Cardinality(pending) <= RequestCap
      BY <1>2
    <2> QED
      BY <1>2, <2>1, <2>2, Zenon DEF LoaderShape
  <1>4. DOMAIN requests = {} /\ DOMAIN results = {} /\ ~Busy /\ worker.pc # "send"
    BY <1>1 DEF Busy
  <1>5. ui \notin {"drain", "forget"}
    BY <1>1
  <1> QED
    BY <1>1, <1>3, <1>4, <1>5, Zenon
       DEF LoaderInv, LoaderAges, LoaderOnce, LoaderPending, QueuedOnce, AnsweredOnce,
           QueuedOrAnswered, FetchedOnce, LoaderStale, LoaderWakes, PendingIsInFlight

\* A result of this generation always finds room: the results before it are of other
\* pending ids, one stale result apart.
LEMMA LoaderRoom ==
    ASSUME RequestCap \in Nat, LoaderShape, LoaderOnce, LoaderStale,
           worker.pc = "send", Mine(worker.request)
    PROVE  Len(results) < RESULT_CAPACITY
  <1> DEFINE w == worker.request.id
             f == [k \in 1..Len(results) |-> IF Mine(results[k]) THEN results[k].id ELSE w]
  <1>1. Busy /\ DOMAIN results = 1..Len(results) /\ Len(results) \in Nat
    BY DEF Busy, LoaderShape
  <1>2. w \in pending /\ \A k \in DOMAIN results : Mine(results[k]) => results[k].id # w
    BY <1>1, Zenon DEF LoaderOnce, LoaderPending, FetchedOnce
  <1>3. \A k \in DOMAIN results : Mine(results[k]) => results[k].id \in pending
    BY Zenon DEF LoaderOnce, LoaderPending
  <1> HIDE DEF w
  <1>4. f \in [1..Len(results) -> pending]
    BY <1>1, <1>2, <1>3
  <1>5. ASSUME NEW j \in 1..Len(results), NEW k \in 1..Len(results), f[j] = f[k]
        PROVE  j = k
    <2>1. /\ f[j] = IF Mine(results[j]) THEN results[j].id ELSE w
          /\ f[k] = IF Mine(results[k]) THEN results[k].id ELSE w
      BY Zenon
    <2> HIDE DEF f
    <2> QED
      BY <1>1, <1>2, <1>5, <2>1, Zenon DEF LoaderOnce, AnsweredOnce, LoaderStale
  <1> HIDE DEF f
  <1>6. f \in Injection(1..Len(results), pending)
    BY <1>4, <1>5, Zenon DEF Injection, IsInjective
  <1>7. Cardinality(1..Len(results)) <= Cardinality(pending)
    BY <1>6, FS_Injection, Zenon DEF LoaderShape
  <1>8. Cardinality(1..Len(results)) = Len(results)
    <2>1. 1 \in Int /\ Len(results) \in Int
      BY <1>1
    <2>2. Cardinality(1..Len(results)) = IF 1 > Len(results) THEN 0 ELSE Len(results) - 1 + 1
      BY <2>1, FS_Interval, Zenon
    <2> QED
      BY <1>1, <2>2
  <1>9. Cardinality(pending) \in Nat /\ Cardinality(pending) <= RequestCap
    BY FS_CardinalityType, Zenon DEF LoaderShape
  <1> QED
    BY <1>1, <1>7, <1>8, <1>9 DEF RESULT_CAPACITY

\* What is appended to a queue.
LEMMA LoaderAppends ==
    ASSUME NEW S, NEW q \in Seq(S), NEW x \in S
    PROVE  /\ Append(q, x) \in Seq(S) /\ Append(q, x) # <<>>
           /\ DOMAIN Append(q, x) = DOMAIN q \cup {Len(q) + 1}
           /\ Len(q) + 1 \notin DOMAIN q /\ Append(q, x)[Len(q) + 1] = x
           /\ \A k \in DOMAIN q : Append(q, x)[k] = q[k]
  <1>1. /\ Append(q, x) \in Seq(S) /\ Append(q, x) # <<>> /\ Append(q, x)[Len(q) + 1] = x
        /\ \A k \in DOMAIN q : Append(q, x)[k] = q[k]
    OBVIOUS
  <1>2. DOMAIN Append(q, x) = 1..(Len(q) + 1) /\ DOMAIN q = 1..Len(q) /\ Len(q) \in Nat
    OBVIOUS
  <1>3. 1..(Len(q) + 1) = 1..Len(q) \cup {Len(q) + 1} /\ Len(q) + 1 \notin 1..Len(q)
    BY <1>2
  <1> QED
    BY <1>1, <1>2, <1>3, Zenon

\* What is taken from its front.
LEMMA LoaderTakes ==
    ASSUME NEW S, NEW q \in Seq(S), q # <<>>
    PROVE  /\ Tail(q) \in Seq(S) /\ Head(q) \in S /\ 1 \in DOMAIN q /\ q[1] = Head(q)
           /\ \A k \in DOMAIN Tail(q) : k + 1 \in DOMAIN q /\ Tail(q)[k] = q[k + 1] /\ k + 1 # 1
           /\ \A j, k \in DOMAIN Tail(q) : j + 1 = k + 1 => j = k
           /\ \A k \in DOMAIN q : k = 1 \/ \E j \in DOMAIN Tail(q) : Tail(q)[j] = q[k]
  <1>1. /\ Tail(q) \in Seq(S) /\ Head(q) \in S /\ 1 \in DOMAIN q /\ q[1] = Head(q)
        /\ \A k \in DOMAIN Tail(q) : k + 1 \in DOMAIN q /\ Tail(q)[k] = q[k + 1] /\ k + 1 # 1
        /\ \A j, k \in DOMAIN Tail(q) : j + 1 = k + 1 => j = k
    OBVIOUS
  <1>2. \A k \in DOMAIN q : k = 1 \/ (k - 1 \in DOMAIN Tail(q) /\ Tail(q)[k - 1] = q[k])
    OBVIOUS
  <1> QED
    BY <1>1, <1>2, Zenon

\* The egui thread publishes a new generation: all that is under way is stale.
LEMMA LoaderBumps ==
    ASSUME LoaderInv, SetEnabled \/ BumpGeneration \/ Reset
    PROVE  LoaderInv'
  <1>s. /\ LoaderShape /\ LoaderAges
        /\ enabled \in BOOLEAN /\ generation \in Nat
        /\ requests \in Seq(LoaderRequests) /\ results \in Seq(LoaderResults)
        /\ Busy => worker.request \in LoaderRequests
    BY Zenon DEF LoaderInv, LoaderShape, Busy
  <1>1. CASE SetEnabled
    <2>1. /\ enabled' = ~enabled /\ ui' = "swapped"
          /\ UNCHANGED <<generation, pending, requests, results, worker>>
      BY <1>1, Zenon DEF SetEnabled
    <2>2. enabled' \in BOOLEAN /\ ~Settled' /\ ui' \notin {"drain", "forget"}
      BY <1>s, <2>1 DEF Settled
    <2> QED
      BY <1>s, <2>1, <2>2, Zenon DEF LoaderInv, LoaderShape, LoaderAges, Busy, Mine
  <1>2. CASE BumpGeneration \/ Reset
    <2>1. /\ generation' = generation + 1 /\ ui' \in {"drain", "forget"}
          /\ UNCHANGED <<enabled, pending, requests, results, worker>>
      <3>1. CASE BumpGeneration
        BY <3>1 DEF BumpGeneration
      <3>2. CASE Reset
        BY <3>2 DEF Reset
      <3> QED
        BY <1>2, <3>1, <3>2, Zenon
    <2>2. generation' \in Nat /\ ~Settled'
      BY <1>s, <2>1 DEF Settled
    <2>3. \A g \in Nat : g <= generation => g <= generation' /\ g # generation'
      BY <1>s, <2>1
    <2>4. /\ \A k \in DOMAIN requests : requests[k].generation \in Nat
          /\ \A k \in DOMAIN results : results[k].generation \in Nat
          /\ Busy => worker.request.generation \in Nat
      <3>1. /\ \A r \in LoaderRequests : r.generation \in Nat
            /\ \A r \in LoaderResults : r.generation \in Nat
        BY DEF LoaderRequests, LoaderResults
      <3>2. /\ \A k \in DOMAIN requests : requests[k] \in LoaderRequests
            /\ \A k \in DOMAIN results : results[k] \in LoaderResults
        BY <1>s
      <3> QED
        BY <1>s, <3>1, <3>2, Zenon
    <2>5. LoaderAges'
      BY <1>s, <2>1, <2>3, <2>4, Zenon DEF LoaderAges, Busy, Mine
    <2>6. LoaderShape'
      BY <1>s, <2>1, <2>2, Zenon DEF LoaderShape
    <2> QED
      BY <2>2, <2>5, <2>6, Zenon DEF LoaderInv
  <1> QED
    BY <1>1, <1>2, Zenon

\* The drain after it forgets what was pending with the results.
LEMMA LoaderClears ==
    ASSUME RequestCap \in Nat, LoaderInv, ClearTransient
    PROVE  LoaderInv'
  <1>1. /\ ui \in {"drain", "forget"} /\ pending' = {} /\ results' = <<>> /\ ui' = "frame"
        /\ UNCHANGED <<enabled, generation, requests, worker>> /\ repaint' = TRUE
    BY Zenon DEF ClearTransient, CancelPending
  <1>2. /\ IsFiniteSet(pending') /\ Cardinality(pending') <= RequestCap
        /\ pending' \subseteq Ids /\ results' \in Seq(LoaderResults) /\ DOMAIN results' = {}
        /\ ui' \notin {"drain", "forget"}
    <2>1. IsFiniteSet({}) /\ Cardinality({}) = 0
      BY FS_EmptySet, Zenon
    <2>2. results' \in Seq(LoaderResults) /\ DOMAIN results' = {} /\ ui' \notin {"drain", "forget"}
      BY <1>1
    <2>3. 0 <= RequestCap
      OBVIOUS
    <2> QED
      BY <1>1, <2>1, <2>2, <2>3, Zenon
  <1>3. LoaderShape'
    BY <1>1, <1>2, Zenon DEF LoaderInv, LoaderShape
  <1>4. /\ \A k \in DOMAIN requests : ~Mine(requests[k])
        /\ Busy => ~Mine(worker.request)
        /\ \A k \in DOMAIN requests : requests[k].generation <= generation
        /\ Busy => worker.request.generation <= generation
    BY <1>1, Zenon DEF LoaderInv, LoaderAges
  <1>5. LoaderAges'
    BY <1>1, <1>2, <1>4, Zenon DEF LoaderAges, Busy, Mine
  <1>6. LoaderOnce' /\ LoaderStale' /\ LoaderWakes' /\ PendingIsInFlight'
    BY <1>1, <1>2, <1>4, Zenon
       DEF LoaderOnce, LoaderPending, QueuedOnce, AnsweredOnce, QueuedOrAnswered, FetchedOnce,
           LoaderStale, LoaderWakes, PendingIsInFlight, Busy, Mine
  <1> QED
    BY <1>1, <1>3, <1>5, <1>6, Zenon DEF LoaderInv

\* A frame takes the results: an id that stays pending has its request or its fetch ahead.
LEMMA LoaderPolls ==
    ASSUME RequestCap \in Nat, LoaderInv, Poll
    PROVE  LoaderInv'
  <1>1. /\ ui = "frame" /\ pending' = pending \ Answered /\ results' = <<>>
        /\ ui' = "paint" /\ refused' = {} /\ UNCHANGED <<enabled, generation, requests, worker>>
    BY Zenon DEF Poll
  <1>2. Settled /\ Settled' /\ ui' \notin {"drain", "forget"}
    BY <1>1 DEF Settled
  <1>3. /\ LoaderShape /\ LoaderAges /\ LoaderOnce /\ LoaderStale /\ PendingIsInFlight
        /\ enabled \/ pending = {}
    BY <1>2, Zenon DEF LoaderInv
  <1>4. /\ results' \in Seq(LoaderResults) /\ DOMAIN results' = {}
    BY <1>1
  <1>5. /\ pending' \subseteq Ids /\ IsFiniteSet(pending') /\ Cardinality(pending') <= RequestCap
    <2>1. pending' \in SUBSET pending
      BY <1>1
    <2>2. IsFiniteSet(pending') /\ Cardinality(pending') <= Cardinality(pending)
      BY <1>3, <2>1, FS_Subset, Zenon DEF LoaderShape
    <2>3. Cardinality(pending) \in Nat /\ Cardinality(pending') \in Nat
          /\ Cardinality(pending) <= RequestCap
      BY <1>3, <2>2, FS_CardinalityType, Zenon DEF LoaderShape
    <2>4. Cardinality(pending') <= RequestCap
      BY <2>2, <2>3
    <2> QED
      BY <1>3, <2>1, <2>2, <2>4, Zenon DEF LoaderShape
  <1>6. LoaderShape'
    BY <1>1, <1>3, <1>4, <1>5, Zenon DEF LoaderShape
  <1>7. LoaderAges'
    BY <1>1, <1>2, <1>3, <1>4, Zenon DEF LoaderAges, Busy, Mine
  <1>8. \A i : i \in Answered <=> \E k \in DOMAIN results : Mine(results[k]) /\ results[k].id = i
    BY Zenon DEF Answered, Mine
  <1>9. /\ \A k \in DOMAIN requests : Mine(requests[k]) => requests[k].id \in pending'
        /\ Busy /\ Mine(worker.request) => worker.request.id \in pending'
    <2>1. /\ \A k \in DOMAIN requests : Mine(requests[k]) => requests[k].id \in pending
          /\ Busy /\ Mine(worker.request) => worker.request.id \in pending
      BY <1>3, Zenon DEF LoaderOnce, LoaderPending
    <2>2. \A k \in DOMAIN requests : Mine(requests[k]) => requests[k].id \notin Answered
      BY <1>3, <1>8, Zenon DEF LoaderOnce, QueuedOrAnswered
    <2>3. Busy /\ Mine(worker.request) => worker.request.id \notin Answered
      BY <1>3, <1>8, Zenon DEF LoaderOnce, FetchedOnce
    <2> QED
      BY <1>1, <2>1, <2>2, <2>3, Zenon
  <1>10. LoaderOnce'
    BY <1>1, <1>3, <1>4, <1>9, Zenon
       DEF LoaderOnce, LoaderPending, QueuedOnce, AnsweredOnce, QueuedOrAnswered, FetchedOnce,
           Busy, Mine
  <1>11. LoaderStale' /\ LoaderWakes'
    BY <1>1, <1>4, Zenon DEF LoaderStale, LoaderWakes
  <1>12. PendingIsInFlight'
    <2> SUFFICES ASSUME NEW i \in pending'
                 PROVE  \/ \E k \in DOMAIN requests : requests[k].id = i /\ Mine(requests[k])
                        \/ worker.pc # "recv" /\ worker.request.id = i /\ Mine(worker.request)
      BY <1>1, Zenon DEF PendingIsInFlight, Mine
    <2>1. i \in pending /\ i \notin Answered
      BY <1>1, Zenon
    <2> QED
      BY <1>2, <1>3, <1>8, <2>1, Zenon DEF PendingIsInFlight, Settled, Mine
  <1>13. enabled' \/ pending' = {}
    BY <1>1, <1>3
  <1> QED
    BY <1>6, <1>7, <1>10, <1>11, <1>12, <1>13, Zenon DEF LoaderInv

\* A step that leaves what is under way alone.
LEMMA LoaderStays ==
    ASSUME LoaderInv, ui \in {"frame", "paint"}, ui' \in {"frame", "paint"},
           UNCHANGED <<enabled, generation, pending, requests, results, worker>>,
           LoaderWakes' \/ UNCHANGED <<refused, repaint>>
    PROVE  LoaderInv'
  <1>1. Settled /\ Settled' /\ ui' \notin {"drain", "forget"}
    BY DEF Settled
  <1>2. /\ LoaderShape /\ LoaderAges /\ LoaderOnce /\ LoaderStale /\ LoaderWakes
        /\ PendingIsInFlight /\ (enabled \/ pending = {})
    BY <1>1, Zenon DEF LoaderInv
  <1>3. LoaderShape' /\ LoaderStale' /\ LoaderWakes'
    BY <1>2, Zenon DEF LoaderShape, LoaderStale, LoaderWakes, Busy, Mine
  <1>4. LoaderAges'
    BY <1>1, <1>2, Zenon DEF LoaderAges, Busy, Mine
  <1>5. LoaderOnce'
    BY <1>2, Zenon DEF LoaderOnce, LoaderPending, QueuedOnce, AnsweredOnce, QueuedOrAnswered,
       FetchedOnce, Busy, Mine
  <1>6. PendingIsInFlight'
    BY <1>2, ZenonT(30) DEF PendingIsInFlight
  <1> QED
    BY <1>2, <1>3, <1>4, <1>5, <1>6, Zenon DEF LoaderInv

\* A painted image is asked for, or refused while others are on their way.
LEMMA LoaderPaints ==
    ASSUME RequestCap \in Nat \ {0}, LoaderInv, NEW i \in Ids, Texture(i)
    PROVE  LoaderInv'
  <1>1. /\ ui = "paint" /\ enabled /\ UNCHANGED <<enabled, generation, results, worker, ui, repaint>>
        /\ \/ UNCHANGED <<pending, requests, refused>>
           \/ /\ i \notin pending /\ Cardinality(pending) < RequestCap
              /\ requests' = Append(requests, [generation |-> generation, id |-> i])
              /\ pending' = pending \cup {i} /\ UNCHANGED refused
           \/ /\ UNCHANGED <<pending, requests>> /\ refused' = refused \cup {i}
              /\ ~(Cardinality(pending) < RequestCap /\ Len(requests) < RequestCap)
    <2> DEFINE known == i \in DOMAIN entries /\ entries[i] = "ready"
               free == Cardinality(pending) < RequestCap /\ Len(requests) < RequestCap
    <2>1. /\ ui = "paint" /\ enabled
          /\ UNCHANGED <<enabled, generation, results, worker, ui, repaint>>
      BY Zenon DEF Texture
    <2>2. CASE known
      BY <2>1, <2>2, Zenon DEF Texture
    <2>3. CASE ~known /\ free
      BY <2>1, <2>3, Zenon DEF Texture
    <2>4. CASE ~known /\ ~free
      BY <2>1, <2>4, Zenon DEF Texture
    <2> QED
      BY <2>2, <2>3, <2>4, Zenon
  <1>2. /\ Settled /\ Settled' /\ ui' \notin {"drain", "forget"}
        /\ ui \in {"frame", "paint"} /\ ui' \in {"frame", "paint"}
    BY <1>1 DEF Settled
  <1>3. /\ LoaderShape /\ LoaderAges /\ LoaderOnce /\ LoaderStale /\ LoaderWakes
        /\ PendingIsInFlight
    BY <1>2, Zenon DEF LoaderInv
  <1>s. /\ requests \in Seq(LoaderRequests) /\ generation \in Nat /\ pending \subseteq Ids
        /\ IsFiniteSet(pending) /\ Cardinality(pending) \in Nat
    BY <1>3, FS_CardinalityType, Zenon DEF LoaderShape
  <1>4. CASE UNCHANGED <<pending, requests, refused>>
    BY <1>1, <1>2, <1>4, LoaderStays, Zenon
  <1>5. CASE /\ i \notin pending /\ Cardinality(pending) < RequestCap
             /\ requests' = Append(requests, [generation |-> generation, id |-> i])
             /\ pending' = pending \cup {i} /\ UNCHANGED refused
    <2> DEFINE r == [generation |-> generation, id |-> i]
               n == Len(requests) + 1
    <2>1. r \in LoaderRequests /\ r.generation = generation /\ r.id = i
      BY <1>s DEF LoaderRequests
    <2>a. requests' = Append(requests, r)
      BY <1>5, Zenon
    <2> HIDE DEF r
    <2>2. /\ requests' \in Seq(LoaderRequests) /\ requests' # <<>>
          /\ DOMAIN requests' = DOMAIN requests \cup {n}
          /\ n \notin DOMAIN requests /\ requests'[n] = r
          /\ \A k \in DOMAIN requests : requests'[k] = requests[k]
      <3>1. /\ Append(requests, r) \in Seq(LoaderRequests) /\ Append(requests, r) # <<>>
            /\ DOMAIN Append(requests, r) = DOMAIN requests \cup {Len(requests) + 1}
            /\ Len(requests) + 1 \notin DOMAIN requests
            /\ Append(requests, r)[Len(requests) + 1] = r
            /\ \A k \in DOMAIN requests : Append(requests, r)[k] = requests[k]
        BY <1>s, <2>1, LoaderAppends
      <3> QED
        BY <2>a, <3>1, Zenon
    <2> HIDE DEF n
    <2>3. pending' \subseteq Ids /\ IsFiniteSet(pending') /\ Cardinality(pending') <= RequestCap
      <3>1. IsFiniteSet(pending') /\ Cardinality(pending') = Cardinality(pending) + 1
        BY <1>s, <1>5, FS_AddElement, Zenon
      <3>2. Cardinality(pending') <= RequestCap
        BY <1>s, <1>5, <3>1
      <3> QED
        BY <1>s, <1>5, <3>1, <3>2, Zenon
    <2>4. LoaderShape'
      BY <1>1, <1>3, <2>2, <2>3, Zenon DEF LoaderShape
    <2>5. generation <= generation
      BY <1>s
    <2>6. LoaderAges'
      BY <1>1, <1>2, <1>3, <2>1, <2>2, <2>5, Zenon DEF LoaderAges, Busy, Mine
    <2>7. LoaderStale' /\ LoaderWakes'
      BY <1>1, <1>3, <2>2, Zenon DEF LoaderStale, LoaderWakes, Busy, Mine
    <2>8. LoaderOnce'
      <3>1. /\ \A k \in DOMAIN requests : Mine(requests[k]) => requests[k].id # i
            /\ \A k \in DOMAIN results : Mine(results[k]) => results[k].id # i
            /\ Busy /\ Mine(worker.request) => worker.request.id # i
        BY <1>3, <1>5, Zenon DEF LoaderOnce, LoaderPending
      <3>2. \A k \in DOMAIN requests' :
              \/ k = n /\ requests'[k].id = i
              \/ k \in DOMAIN requests /\ requests'[k] = requests[k]
        BY <2>1, <2>2, Zenon
      <3>3. LoaderPending'
        <4>1. LoaderPending /\ i \in pending' /\ \A p \in pending : p \in pending'
          <5>1. LoaderPending
            BY <1>3, Zenon DEF LoaderOnce
          <5>2. i \in pending' /\ \A p \in pending : p \in pending'
            BY <1>5
          <5> QED
            BY <5>1, <5>2, Zenon
        <4> QED
          BY <1>1, <3>2, <4>1, Zenon DEF LoaderPending, Busy, Mine
      <3>4. QueuedOnce'
        <4>1. QueuedOnce
          BY <1>3, Zenon DEF LoaderOnce
        <4> SUFFICES ASSUME NEW j \in DOMAIN requests', NEW k \in DOMAIN requests',
                            requests'[j].generation = generation,
                            requests'[k].generation = generation, requests'[j].id = requests'[k].id
                     PROVE  j = k
          BY <1>1, Zenon DEF QueuedOnce, Mine
        <4> QED
          BY <3>1, <3>2, <4>1, ZenonT(30) DEF QueuedOnce, Mine
      <3>5. QueuedOrAnswered' /\ FetchedOnce' /\ AnsweredOnce'
        <4>1. QueuedOrAnswered /\ FetchedOnce /\ AnsweredOnce
          BY <1>3, Zenon DEF LoaderOnce
        <4>2. QueuedOrAnswered'
          BY <1>1, <3>1, <3>2, <4>1, ZenonT(30) DEF QueuedOrAnswered, Mine
        <4>3. FetchedOnce'
          BY <1>1, <3>1, <3>2, <4>1, Zenon DEF FetchedOnce, Mine, Busy
        <4> QED
          BY <1>1, <4>1, <4>2, <4>3, Zenon DEF AnsweredOnce, Mine
      <3> QED
        BY <3>3, <3>4, <3>5, Zenon DEF LoaderOnce
    <2>9. PendingIsInFlight'
      <3> SUFFICES ASSUME NEW p \in pending'
                   PROVE  \/ \E k \in DOMAIN requests' : requests'[k].id = p
                                                         /\ requests'[k].generation = generation
                          \/ worker.pc # "recv" /\ worker.request.id = p /\ Mine(worker.request)
                          \/ \E k \in DOMAIN results : results[k].id = p /\ Mine(results[k])
        BY <1>1, Zenon DEF PendingIsInFlight, Mine
      <3>1. CASE p = i
        BY <2>1, <2>2, <3>1, Zenon
      <3>2. CASE p \in pending
        <4>1. \/ \E k \in DOMAIN requests : requests[k].id = p /\ requests[k].generation = generation
              \/ worker.pc # "recv" /\ worker.request.id = p /\ Mine(worker.request)
              \/ \E k \in DOMAIN results : results[k].id = p /\ Mine(results[k])
          BY <1>2, <1>3, <3>2, Zenon DEF PendingIsInFlight, Mine
        <4> QED
          BY <2>2, <4>1, Zenon
      <3> QED
        BY <1>5, <3>1, <3>2, Zenon
    <2> QED
      BY <1>1, <2>4, <2>6, <2>7, <2>8, <2>9, Zenon DEF LoaderInv
  <1>6. CASE /\ UNCHANGED <<pending, requests>> /\ refused' = refused \cup {i}
             /\ ~(Cardinality(pending) < RequestCap /\ Len(requests) < RequestCap)
    <2>1. requests # <<>> \/ pending # {}
      <3>1. pending = {} => Cardinality(pending) = 0
        BY FS_EmptySet, Zenon
      <3>2. requests = <<>> => Len(requests) = 0
        OBVIOUS
      <3> QED
        BY <1>6, <3>1, <3>2
    <2>2. requests # <<>> \/ (Busy /\ Mine(worker.request)) \/ results # <<>>
      <3> SUFFICES ASSUME pending # {}
                   PROVE  requests # <<>> \/ (Busy /\ Mine(worker.request)) \/ results # <<>>
        BY <2>1, Zenon
      <3>1. PICK p \in pending : TRUE
        BY Zenon
      <3>2. \/ DOMAIN requests # {} \/ (Busy /\ Mine(worker.request)) \/ DOMAIN results # {}
        BY <1>2, <1>3, <3>1, Zenon DEF PendingIsInFlight, Settled, Mine, Busy
      <3> QED
        BY <3>2
    <2>3. LoaderWakes'
      BY <1>1, <1>6, <2>2, Zenon DEF LoaderWakes, Busy, Mine
    <2> QED
      BY <1>1, <1>2, <1>6, <2>3, LoaderStays, Zenon
  <1> QED
    BY <1>1, <1>4, <1>5, <1>6, Zenon

\* The worker takes a request: what was queued for this generation is fetched next.
LEMMA LoaderReceives ==
    ASSUME LoaderInv, TakeRequest
    PROVE  LoaderInv'
  <1>1. /\ worker.pc = "recv" /\ requests # <<>> /\ requests' = Tail(requests)
        /\ UNCHANGED <<enabled, generation, pending, results, ui, refused>>
        /\ \/ /\ enabled /\ Head(requests).generation = generation
              /\ worker' = [pc |-> "fetch", request |-> Head(requests)] /\ UNCHANGED repaint
           \/ /\ ~(enabled /\ Head(requests).generation = generation) /\ UNCHANGED worker
              /\ repaint' = (repaint \/ (Emotes /\ enabled /\ Tail(requests) = <<>>))
    BY Zenon DEF TakeRequest, Current, RepaintWhenDrained
  <1>s. LoaderShape /\ LoaderAges /\ ~Busy /\ requests \in Seq(LoaderRequests)
    BY <1>1, Zenon DEF LoaderInv, LoaderShape, Busy
  <1>t. /\ requests' \in Seq(LoaderRequests) /\ Head(requests) \in LoaderRequests
        /\ 1 \in DOMAIN requests /\ requests[1] = Head(requests)
        /\ \A k \in DOMAIN requests' : k + 1 \in DOMAIN requests /\ requests'[k] = requests[k + 1]
                                       /\ k + 1 # 1
        /\ \A j, k \in DOMAIN requests' : j + 1 = k + 1 => j = k
        /\ \A k \in DOMAIN requests : k = 1 \/ \E j \in DOMAIN requests' : requests'[j] = requests[k]
    BY SMTT(30), <1>1, <1>s, LoaderTakes
  <1>x. \A k \in DOMAIN requests' : \E j \in DOMAIN requests : requests'[k] = requests[j]
    BY <1>t, Zenon
  <1>y. \A k \in DOMAIN requests : k = 1 \/ \E j \in DOMAIN requests' : requests'[j] = requests[k]
    BY <1>t, Zenon
  <1>u. LoaderPending => \A k \in DOMAIN requests' :
                           requests'[k].generation = generation => requests'[k].id \in pending
    BY <1>x, Zenon DEF LoaderPending, Mine
  <1>v. QueuedOnce => QueuedOnce'
    <2> SUFFICES ASSUME QueuedOnce, NEW j \in DOMAIN requests', NEW k \in DOMAIN requests',
                        requests'[j].generation = generation,
                        requests'[k].generation = generation, requests'[j].id = requests'[k].id
                 PROVE  j = k
      BY <1>1, Zenon DEF QueuedOnce, Mine
    <2>1. /\ j + 1 \in DOMAIN requests /\ requests'[j] = requests[j + 1]
          /\ k + 1 \in DOMAIN requests /\ requests'[k] = requests[k + 1]
      BY <1>t, Zenon
    <2>2. j + 1 = k + 1
      BY <2>1, Zenon DEF QueuedOnce, Mine
    <2> QED
      BY <1>t, <2>2, Zenon
  <1>w. QueuedOrAnswered => QueuedOrAnswered'
    <2> SUFFICES ASSUME QueuedOrAnswered, NEW j \in DOMAIN requests', NEW k \in DOMAIN results,
                        requests'[j].generation = generation, results[k].generation = generation
                 PROVE  requests'[j].id # results[k].id
      BY <1>1, Zenon DEF QueuedOrAnswered, Mine
    <2>1. j + 1 \in DOMAIN requests /\ requests'[j] = requests[j + 1]
      BY <1>t, Zenon
    <2> QED
      BY <2>1, Zenon DEF QueuedOrAnswered, Mine
  <1>2. CASE worker' = [pc |-> "fetch", request |-> Head(requests)]
             /\ enabled /\ Head(requests).generation = generation
    <2>1. /\ worker'.pc = "fetch" /\ worker'.pc # "send" /\ worker'.pc \in {"recv", "fetch", "send"}
          /\ worker'.request = requests[1] /\ Busy'
          /\ worker' = [pc |-> worker'.pc, request |-> worker'.request]
      BY <1>2, <1>t DEF Busy
    <2>2. LoaderShape'
      BY <1>1, <1>s, <1>t, <2>1, Zenon DEF LoaderShape
    <2>3. LoaderAges'
      BY <1>1, <1>s, <1>t, <2>1, ZenonT(30) DEF LoaderAges, Mine
    <2>4. ASSUME Settled'
          PROVE  /\ LoaderOnce' /\ LoaderStale' /\ LoaderWakes' /\ PendingIsInFlight'
                 /\ enabled' \/ pending' = {}
      <3>1. /\ LoaderPending /\ QueuedOnce /\ AnsweredOnce /\ QueuedOrAnswered /\ LoaderStale
            /\ PendingIsInFlight /\ ui \in {"frame", "paint"}
        BY <1>1, <2>4, Zenon DEF LoaderInv, LoaderOnce, Settled
      <3>2. LoaderPending'
        <4>1. worker'.request.generation = generation => worker'.request.id \in pending
          BY <1>t, <2>1, <3>1, Zenon DEF LoaderPending, Mine
        <4> QED
          BY <1>1, <1>u, <3>1, <4>1, Zenon DEF LoaderPending, Mine
      <3>3. AnsweredOnce' /\ LoaderStale' /\ LoaderWakes'
        BY <1>1, <1>2, <1>t, <2>1, <3>1, Zenon DEF AnsweredOnce, LoaderStale, LoaderWakes, Mine
      <3>4. QueuedOnce' /\ QueuedOrAnswered'
        BY <1>v, <1>w, <3>1, Zenon
      <3>5. FetchedOnce'
        <4>1. \A j \in DOMAIN requests' :
                requests'[j].generation = generation => requests'[j].id # worker'.request.id
          BY <1>2, <1>t, <2>1, <3>1, Zenon DEF QueuedOnce, Mine
        <4>2. \A k \in DOMAIN results :
                results[k].generation = generation => results[k].id # worker'.request.id
          BY <1>2, <1>t, <2>1, <3>1, Zenon DEF QueuedOrAnswered, Mine
        <4> QED
          BY <1>1, <4>1, <4>2, Zenon DEF FetchedOnce, Mine
      <3>6. PendingIsInFlight'
        <4> SUFFICES ASSUME NEW p \in pending
                     PROVE  \/ \E k \in DOMAIN requests' : requests'[k].id = p
                                                           /\ requests'[k].generation = generation
                            \/ worker'.pc # "recv" /\ worker'.request.id = p
                               /\ worker'.request.generation = generation
                            \/ \E k \in DOMAIN results : results[k].id = p
                                                         /\ results[k].generation = generation
          BY <1>1, Zenon DEF PendingIsInFlight
        <4>1. \/ \E k \in DOMAIN requests : requests[k].id = p /\ requests[k].generation = generation
              \/ \E k \in DOMAIN results : results[k].id = p /\ results[k].generation = generation
          BY <1>1, <3>1, Zenon DEF PendingIsInFlight
        <4> QED
          BY <1>2, <1>t, <1>y, <2>1, <4>1, ZenonT(30) DEF Busy
      <3> QED
        BY <1>1, <1>2, <3>2, <3>3, <3>4, <3>5, <3>6, Zenon DEF LoaderOnce
    <2> QED
      BY <2>2, <2>3, <2>4, Zenon DEF LoaderInv
  <1>3. CASE /\ ~(enabled /\ Head(requests).generation = generation) /\ UNCHANGED worker
             /\ repaint' = (repaint \/ (Emotes /\ enabled /\ Tail(requests) = <<>>))
    <2>1. LoaderShape' /\ LoaderAges' /\ ~Busy'
      <3>1. LoaderShape' /\ ~Busy'
        BY <1>1, <1>3, <1>s, <1>t, Zenon DEF LoaderShape, Busy
      <3>2. LoaderAges'
        BY <1>1, <1>s, <1>x, <3>1, Zenon DEF LoaderAges, Mine
      <3> QED
        BY <3>1, <3>2, Zenon
    <2>2. ASSUME Settled'
          PROVE  /\ LoaderOnce' /\ LoaderStale' /\ LoaderWakes' /\ PendingIsInFlight'
                 /\ enabled' \/ pending' = {}
      <3>1. /\ LoaderPending /\ QueuedOnce /\ AnsweredOnce /\ QueuedOrAnswered /\ LoaderStale
            /\ PendingIsInFlight /\ ui \in {"frame", "paint"}
            /\ enabled \/ pending = {}
        BY <1>1, <2>2, Zenon DEF LoaderInv, LoaderOnce, Settled
      <3>2. LoaderPending'
        BY <1>1, <1>u, <2>1, <3>1, Zenon DEF LoaderPending, Mine
      <3>3. AnsweredOnce' /\ LoaderStale' /\ LoaderWakes' /\ FetchedOnce'
        BY <1>1, <1>3, <2>1, <3>1, Zenon
           DEF AnsweredOnce, LoaderStale, LoaderWakes, FetchedOnce, Mine
      <3>4. QueuedOnce' /\ QueuedOrAnswered'
        BY <1>v, <1>w, <3>1, Zenon
      <3>5. PendingIsInFlight'
        <4> SUFFICES ASSUME NEW p \in pending
                     PROVE  \/ \E k \in DOMAIN requests' : requests'[k].id = p
                                                           /\ requests'[k].generation = generation
                            \/ \E k \in DOMAIN results : results[k].id = p
                                                         /\ results[k].generation = generation
          BY <1>1, Zenon DEF PendingIsInFlight
        <4>1. \/ \E k \in DOMAIN requests : requests[k].id = p /\ requests[k].generation = generation
              \/ \E k \in DOMAIN results : results[k].id = p /\ results[k].generation = generation
          BY <1>1, <3>1, Zenon DEF PendingIsInFlight
        <4>2. requests[1].generation # generation
          BY <1>3, <1>t, <3>1, Zenon
        <4> QED
          BY <1>y, <4>1, <4>2, Zenon
      <3> QED
        BY <1>1, <3>1, <3>2, <3>3, <3>4, <3>5, Zenon DEF LoaderOnce
    <2> QED
      BY <2>1, <2>2, Zenon DEF LoaderInv
  <1> QED
    BY <1>1, <1>2, <1>3, Zenon

\* The check after the fetch lets a request of this generation through.
LEMMA LoaderChecks ==
    ASSUME LoaderInv, Fetched
    PROVE  LoaderInv'
  <1>1. /\ worker.pc = "fetch"
        /\ worker' = IF enabled /\ Mine(worker.request) THEN [worker EXCEPT !.pc = "send"]
                                                        ELSE Idle
        /\ UNCHANGED <<enabled, generation, pending, requests, results, ui, refused, repaint>>
    BY Zenon DEF Fetched, Current, Mine
  <1>2. /\ Busy /\ worker.pc # "send"
        /\ worker'.pc \in {"recv", "fetch", "send"}
        /\ worker' = [pc |-> worker'.pc, request |-> worker'.request]
        /\ Busy' <=> (enabled /\ Mine(worker.request))
        /\ Busy' => worker'.request = worker.request
    <2>1. worker = [pc |-> worker.pc, request |-> worker.request]
      BY Zenon DEF LoaderInv, LoaderShape
    <2>2. CASE enabled /\ Mine(worker.request)
      <3>1. worker' = [worker EXCEPT !.pc = "send"]
        BY <1>1, <2>2, Zenon
      <3> QED
        BY <1>1, <2>1, <2>2, <3>1 DEF Busy
    <2>3. CASE ~(enabled /\ Mine(worker.request))
      <3>1. worker' = Idle
        BY <1>1, <2>3, Zenon
      <3> QED
        BY <1>1, <2>3, <3>1 DEF Idle, Busy
    <2> QED
      BY <2>2, <2>3, Zenon
  <1>3. LoaderShape' /\ LoaderAges'
    BY <1>1, <1>2, Zenon DEF LoaderInv, LoaderShape, LoaderAges, Busy, Mine
  <1>4. ASSUME Settled'
        PROVE  /\ LoaderOnce' /\ LoaderStale' /\ LoaderWakes' /\ PendingIsInFlight'
               /\ enabled' \/ pending' = {}
    <2>1. /\ LoaderPending /\ QueuedOnce /\ AnsweredOnce /\ QueuedOrAnswered /\ FetchedOnce
          /\ LoaderStale /\ LoaderWakes /\ PendingIsInFlight /\ ui \in {"frame", "paint"}
          /\ enabled \/ pending = {}
      BY <1>1, <1>4, Zenon DEF LoaderInv, LoaderOnce, Settled
    <2>2. LoaderPending' /\ QueuedOnce' /\ AnsweredOnce' /\ QueuedOrAnswered'
      BY <1>1, <1>2, <2>1, Zenon
         DEF LoaderPending, QueuedOnce, AnsweredOnce, QueuedOrAnswered, Mine
    <2>3. FetchedOnce' /\ LoaderStale' /\ LoaderWakes'
      BY <1>1, <1>2, <2>1, Zenon DEF FetchedOnce, LoaderStale, LoaderWakes, Mine, Busy
    <2>4. PendingIsInFlight'
      <3>1. pending # {} => enabled
        BY <2>1
      <3> QED
        BY <1>1, <1>2, <2>1, <3>1, Zenon DEF PendingIsInFlight, Mine, Busy
    <2> QED
      BY <1>1, <2>1, <2>2, <2>3, <2>4, Zenon DEF LoaderOnce
  <1> QED
    BY <1>3, <1>4, Zenon DEF LoaderInv

\* The worker sends what it fetched: a result of this generation is never dropped, and one
\* of an earlier generation is the only one.
LEMMA LoaderSends ==
    ASSUME RequestCap \in Nat, LoaderInv, SendResult
    PROVE  LoaderInv'
  <1> DEFINE w == worker.request
  <1>1. /\ worker.pc = "send" /\ worker' = Idle
        /\ UNCHANGED <<enabled, generation, pending, requests, ui, refused>>
        /\ \/ \E entry \in {"ready", "failed"} :
                 /\ results' = Append(results, [generation |-> w.generation, id |-> w.id,
                                                entry |-> entry])
                 /\ repaint' = TRUE
           \/ ~(Len(results) < RESULT_CAPACITY) /\ UNCHANGED <<results, repaint>>
    BY Zenon DEF SendResult, Fetch
  <1>2. /\ Busy /\ ~Busy' /\ worker'.pc # "send" /\ worker'.pc \in {"recv", "fetch", "send"}
        /\ worker' = [pc |-> worker'.pc, request |-> worker'.request]
    BY <1>1 DEF Busy, Idle
  <1>s. /\ LoaderShape /\ LoaderAges /\ results \in Seq(LoaderResults)
        /\ w \in LoaderRequests
    BY <1>2, Zenon DEF LoaderInv, LoaderShape, Busy
  <1>3. CASE ~(Len(results) < RESULT_CAPACITY) /\ UNCHANGED <<results, repaint>>
    <2>1. LoaderShape' /\ LoaderAges'
      BY <1>1, <1>2, <1>3, <1>s, Zenon DEF LoaderShape, LoaderAges, Mine, Busy
    <2>2. ASSUME Settled'
          PROVE  /\ LoaderOnce' /\ LoaderStale' /\ LoaderWakes' /\ PendingIsInFlight'
                 /\ enabled' \/ pending' = {}
      <3>1. /\ LoaderOnce /\ LoaderStale /\ PendingIsInFlight /\ ui \in {"frame", "paint"}
            /\ enabled \/ pending = {}
        BY <1>1, <2>2, Zenon DEF LoaderInv, Settled
      <3>2. ~Mine(w)
        BY <1>1, <1>3, <1>s, <3>1, LoaderRoom, Zenon
      <3>3. results # <<>>
        BY <1>3 DEF RESULT_CAPACITY
      <3>4. LoaderOnce'
        BY <1>1, <1>2, <1>3, <3>1, Zenon DEF LoaderOnce, LoaderPending, QueuedOnce, AnsweredOnce,
           QueuedOrAnswered, FetchedOnce, Mine
      <3>5. LoaderStale' /\ LoaderWakes'
        BY <1>1, <1>2, <1>3, <3>1, <3>3, Zenon DEF LoaderStale, LoaderWakes, Mine
      <3>6. PendingIsInFlight'
        BY <1>1, <1>3, <3>1, <3>2, ZenonT(30) DEF PendingIsInFlight, Mine
      <3> QED
        BY <1>1, <3>1, <3>4, <3>5, <3>6, Zenon
    <2> QED
      BY <2>1, <2>2, Zenon DEF LoaderInv
  <1>4. ASSUME NEW entry \in {"ready", "failed"}, repaint' = TRUE,
               results' = Append(results, [generation |-> w.generation, id |-> w.id,
                                           entry |-> entry])
        PROVE  LoaderInv'
    <2> DEFINE r == [generation |-> w.generation, id |-> w.id, entry |-> entry]
               n == Len(results) + 1
    <2>1. r \in LoaderResults /\ r.generation = w.generation /\ r.id = w.id
      BY <1>s DEF LoaderResults, LoaderRequests
    <2>2. results' = Append(results, r)
      BY <1>4, Zenon
    <2> HIDE DEF r
    <2>3. /\ results' \in Seq(LoaderResults) /\ results' # <<>>
          /\ n \in DOMAIN results' /\ results'[n] = r
          /\ \A k \in DOMAIN results' : k = n \/ (k \in DOMAIN results /\ results'[k] = results[k])
          /\ \A k \in DOMAIN results : k \in DOMAIN results' /\ results'[k] = results[k]
      <3>1. /\ Append(results, r) \in Seq(LoaderResults) /\ Append(results, r) # <<>>
            /\ DOMAIN Append(results, r) = DOMAIN results \cup {n}
            /\ n \notin DOMAIN results /\ Append(results, r)[n] = r
            /\ \A k \in DOMAIN results : Append(results, r)[k] = results[k]
        BY <1>s, <2>1, LoaderAppends
      <3> HIDE DEF n
      <3> QED
        BY <2>2, <3>1, Zenon
    <2> HIDE DEF n, w
    <2>4. LoaderShape'
      BY <1>1, <1>2, <1>s, <2>3, Zenon DEF LoaderShape, Busy
    <2>5. LoaderAges'
      <3>1. /\ w.generation <= generation
            /\ ui \in {"drain", "forget"} => w.generation # generation
        BY <1>2, <1>s, Zenon DEF LoaderAges, Mine, w
      <3> QED
        BY <1>1, <1>2, <1>s, <2>1, <2>3, <3>1, Zenon DEF LoaderAges, Mine
    <2>6. ASSUME Settled'
          PROVE  /\ LoaderOnce' /\ LoaderStale' /\ LoaderWakes' /\ PendingIsInFlight'
                 /\ enabled' \/ pending' = {}
      <3>1. /\ LoaderPending /\ QueuedOnce /\ AnsweredOnce /\ QueuedOrAnswered /\ FetchedOnce
            /\ LoaderStale /\ PendingIsInFlight /\ ui \in {"frame", "paint"}
            /\ enabled \/ pending = {}
        BY <1>1, <2>6, Zenon DEF LoaderInv, LoaderOnce, Settled
      <3>2. /\ Mine(w) => w.id \in pending
            /\ Mine(w) => \A j \in DOMAIN requests : Mine(requests[j]) => requests[j].id # w.id
            /\ Mine(w) => \A k \in DOMAIN results : Mine(results[k]) => results[k].id # w.id
            /\ ~Mine(w) => \A k \in DOMAIN results : Mine(results[k])
        BY <1>1, <1>2, <3>1, Zenon DEF LoaderPending, FetchedOnce, LoaderStale, w
      <3>3. LoaderPending' /\ QueuedOnce' /\ FetchedOnce'
        BY <1>1, <1>2, <2>1, <2>3, <3>1, <3>2, Zenon
           DEF LoaderPending, QueuedOnce, FetchedOnce, Mine
      <3>4. QueuedOrAnswered'
        <4> SUFFICES ASSUME NEW j \in DOMAIN requests, NEW k \in DOMAIN results',
                            requests[j].generation = generation,
                            results'[k].generation = generation
                     PROVE  requests[j].id # results'[k].id
          BY <1>1, Zenon DEF QueuedOrAnswered, Mine
        <4> QED
          BY <2>1, <2>3, <3>1, <3>2, Zenon DEF QueuedOrAnswered, Mine
      <3>5. AnsweredOnce'
        <4> SUFFICES ASSUME NEW j \in DOMAIN results', NEW k \in DOMAIN results',
                            results'[j].generation = generation,
                            results'[k].generation = generation, results'[j].id = results'[k].id
                     PROVE  j = k
          BY <1>1, Zenon DEF AnsweredOnce, Mine
        <4>1. CASE j = n
          BY <2>1, <2>3, <3>2, <4>1, Zenon DEF Mine
        <4>2. CASE k = n
          BY <2>1, <2>3, <3>2, <4>2, Zenon DEF Mine
        <4>3. CASE j # n /\ k # n
          BY <2>3, <3>1, <4>3, Zenon DEF AnsweredOnce, Mine
        <4> QED
          BY <4>1, <4>2, <4>3, Zenon
      <3>6. LoaderStale' /\ LoaderWakes'
        <4>1. ASSUME NEW j \in DOMAIN results', NEW k \in DOMAIN results',
                     results'[j].generation # generation, results'[k].generation # generation
              PROVE  j = k
          BY <2>1, <2>3, <3>1, <3>2, <4>1, ZenonT(30) DEF LoaderStale, Mine
        <4> QED
          BY <1>1, <1>2, <1>4, <4>1, Zenon DEF LoaderStale, LoaderWakes, Mine
      <3>7. PendingIsInFlight'
        <4> SUFFICES ASSUME NEW p \in pending
                     PROVE  \/ \E k \in DOMAIN requests : requests[k].id = p
                                                          /\ requests[k].generation = generation
                            \/ \E k \in DOMAIN results' : results'[k].id = p
                                                          /\ results'[k].generation = generation
          BY <1>1, Zenon DEF PendingIsInFlight
        <4>1. \/ \E k \in DOMAIN requests : requests[k].id = p /\ requests[k].generation = generation
              \/ w.id = p /\ w.generation = generation
              \/ \E k \in DOMAIN results : results[k].id = p /\ results[k].generation = generation
          BY <3>1, Zenon DEF PendingIsInFlight, w
        <4> QED
          BY <2>1, <2>3, <4>1, Zenon
      <3> QED
        BY <1>1, <3>1, <3>3, <3>4, <3>5, <3>6, <3>7, Zenon DEF LoaderOnce
    <2> QED
      BY <2>4, <2>5, <2>6, Zenon DEF LoaderInv
  <1> QED
    BY <1>1, <1>3, <1>4, Zenon

\* The invariant is inductive: one lemma per action that touches what is under way.
LEMMA LoaderSteps ==
    ASSUME RequestCap \in Nat \ {0}, LoaderInv, [Next]_vars
    PROVE  LoaderInv'
  <1>0. RequestCap \in Nat
    OBVIOUS
  <1>1. CASE \/ UNCHANGED vars \/ Paint
             \/ \E ids \in SUBSET Ids : RetainReferenced(ids)
    <2>1. /\ UNCHANGED <<enabled, generation, pending, requests, results, worker>>
          /\ \/ UNCHANGED <<ui, refused, repaint>>
             \/ ui = "paint" /\ ui' = "frame" /\ UNCHANGED <<refused, repaint>>
             \/ ui = "frame" /\ ui' = ui /\ repaint' = TRUE
      BY <1>1, Zenon DEF vars, Paint, RetainReferenced
    <2>2. CASE ~Settled /\ UNCHANGED ui
      BY <2>1, <2>2, Zenon DEF LoaderInv, LoaderShape, LoaderAges, Busy, Mine, Settled
    <2>3. CASE Settled \/ ~UNCHANGED ui
      <3>1. ui \in {"frame", "paint"} /\ ui' \in {"frame", "paint"}
        BY <2>1, <2>3 DEF Settled
      <3> QED
        BY <2>1, <3>1, LoaderStays, Zenon DEF LoaderWakes
    <2> QED
      BY <2>2, <2>3, Zenon
  <1>2. CASE \E i \in Ids : Texture(i)
    BY <1>2, LoaderPaints, Zenon
  <1> QED
    BY <1>0, <1>1, <1>2, LoaderBumps, LoaderClears, LoaderPolls, LoaderReceives, LoaderChecks,
       LoaderSends, Zenon DEF Next

\* The invariant says what the loaders' property says.
LEMMA LoaderSays ==
    ASSUME LoaderInv
    PROVE  ImagesArrive
  <1>1. ui = "frame" => Settled
    BY DEF Settled
  <1>2. PendingIsInFlight
    BY Zenon DEF LoaderInv, Settled, PendingIsInFlight
  <1> QED
    BY <1>1, <1>2, Zenon
       DEF LoaderInv, LoaderWakes, Busy, ImagesArrive, RefusedIsRetried

\* Every image that is awaited is on its way and a refused emote is asked for again, for
\* both loaders, any capacity of the queues and of the cache, and any number of ids and
\* of generations.
THEOREM ImagesCorrect ==
    ASSUME RequestCap \in Nat \ {0}
    PROVE  Spec => []ImagesArrive
  <1>1. Init => LoaderInv
    BY LoaderStarts
  <1>2. LoaderInv /\ [Next]_vars => LoaderInv'
    BY LoaderSteps, Zenon
  <1>3. LoaderInv => ImagesArrive
    BY LoaderSays, Zenon
  <1> QED
    BY <1>1, <1>2, <1>3, PTL DEF Spec
==============================================================================
