----------------------------- MODULE AssetLoader -----------------------------
(***************************************************************************)
(* The image loaders of the chat and voice widgets: twitch/emotes.rs and   *)
(* discord/avatars.rs, two copies of one design that differ in how a full  *)
(* cache and a stale request are treated (Emotes says which copy).  The    *)
(* egui thread asks and polls; one worker thread fetches.  Both sides use  *)
(* bounded queues and never block, so a request or a result that finds its *)
(* queue full is dropped.  The worker outlives every poll (Drop comes      *)
(* last), so poll never finds its queue disconnected.                      *)
(***************************************************************************)
EXTENDS Naturals, Sequences, FiniteSets

CONSTANTS Emotes,       \* TRUE: twitch/emotes.rs, FALSE: discord/avatars.rs
          Ids,          \* emote ids, avatar keys
          RequestCap,   \* REQUEST_CAPACITY
          CacheCap,     \* CACHE_CAPACITY
          MaxGeneration \* generations followed

VARIABLES enabled, generation,           \* atomics shared with the worker
          pending, referenced, entries,  \* the egui thread's own state
          lru,                           \* the avatars' order of use
          requests, results,             \* the two queues
          worker,                        \* [pc, request]
          ui,                            \* where set_enabled or reset is
          refused,                       \* ids a full queue turned away in the last frame
          repaint                        \* a frame has been asked for

vars == <<enabled, generation, pending, referenced, entries, lru, requests, results,
          worker, ui, refused, repaint>>

Idle == [pc |-> "recv", request |-> [generation |-> 0, id |-> "none"]]

Init ==
    /\ enabled = FALSE /\ generation = 0
    /\ pending = {} /\ referenced = {} /\ refused = {}
    /\ entries = [i \in {} |-> "ready"]
    /\ lru = <<>> /\ requests = <<>> /\ results = <<>>
    /\ worker = Idle /\ ui = "frame" /\ repaint = FALSE

Only(f, S) == [x \in DOMAIN f \cap S |-> f[x]]
Put(f, x, v) == [y \in DOMAIN f \cup {x} |-> IF y = x THEN v ELSE f[y]]

------------------------------------------------------------------------------
(* The egui thread.  set_enabled and reset publish a new generation and    *)
(* then drain the results; the worker may run between the two.             *)

SetEnabled ==
    /\ ui = "frame"
    /\ generation < MaxGeneration
    /\ enabled' = ~enabled
    /\ ui' = "swapped"
    /\ UNCHANGED <<generation, pending, referenced, entries, lru, requests, results,
                   worker, refused, repaint>>

BumpGeneration ==
    /\ ui = "swapped"
    /\ generation' = generation + 1
    /\ ui' = "drain"
    /\ UNCHANGED <<enabled, pending, referenced, entries, lru, requests, results,
                   worker, refused, repaint>>

Reset ==
    /\ ui = "frame"
    /\ generation < MaxGeneration
    /\ generation' = generation + 1
    /\ referenced' = {}
    /\ ui' = "forget"
    /\ UNCHANGED <<enabled, pending, entries, lru, requests, results, worker, refused,
                   repaint>>

CancelPending == pending' = {} /\ results' = <<>>

\* clear_transient: the emotes forget their images whenever they are switched on
\* or off, the avatars only on a reset.
ClearTransient ==
    /\ ui \in {"drain", "forget"}
    /\ CancelPending
    /\ IF Emotes \/ ui = "forget"
         THEN entries' = Only(entries, {}) /\ lru' = <<>>
         ELSE UNCHANGED <<entries, lru>>
    /\ ui' = "frame"
    /\ refused' = {}
    /\ repaint' = TRUE  \* both are called while a frame is made, which asks for the next
    /\ UNCHANGED <<enabled, generation, referenced, requests, worker>>

RetainReferenced(ids) ==
    /\ ui = "frame"
    /\ Cardinality(ids) <= CacheCap
    /\ referenced' = ids
    /\ entries' = Only(entries, ids)
    /\ lru' = SelectSeq(lru, LAMBDA i : i \in ids)
    /\ refused' = refused \cap ids
    /\ repaint' = TRUE  \* the snapshot that names the ids asked for a frame
    /\ UNCHANGED <<enabled, generation, pending, requests, results, worker, ui>>

Touch(order, i) == IF Emotes THEN order ELSE Append(SelectSeq(order, LAMBDA j : j # i), i)

\* insert: a full cache turns a new emote away, and forgets the avatar used least
\* recently.
Insert(cache, i, entry) ==
    LET full == i \notin DOMAIN cache.entries /\ Cardinality(DOMAIN cache.entries) = CacheCap
    IN  CASE full /\ Emotes -> cache
          [] full /\ ~Emotes ->
               [entries |-> Put(Only(cache.entries, Ids \ {Head(cache.lru)}), i, entry),
                lru |-> Touch(Tail(cache.lru), i)]
          [] OTHER -> [entries |-> Put(cache.entries, i, entry), lru |-> Touch(cache.lru, i)]

\* One result of poll's loop.
PollOne(r, s) ==
    IF r.generation = generation /\ r.id \in s.pending
      THEN [pending |-> s.pending \ {r.id},
            cache |-> IF r.id \in referenced THEN Insert(s.cache, r.id, r.entry) ELSE s.cache]
      ELSE s

\* The ids that poll's loop takes out of pending.
Answered ==
    {results[k].id : k \in {j \in DOMAIN results : results[j].generation = generation}}

\* A frame polls, then asks for the texture of each id it paints.
Poll ==
    /\ ui = "frame"
    /\ results # <<>> \/ repaint
    /\ LET polled[n \in 0..Len(results)] ==
             IF n = 0 THEN [pending |-> pending, cache |-> [entries |-> entries, lru |-> lru]]
             ELSE PollOne(results[n], polled[n - 1])
           cache == polled[Len(results)].cache
       IN  entries' = cache.entries /\ lru' = cache.lru
    /\ pending' = pending \ Answered
    /\ results' = <<>>
    /\ repaint' = FALSE
    /\ ui' = "paint"
    /\ refused' = {}
    /\ UNCHANGED <<enabled, generation, referenced, requests, worker>>

Paint == ui' = "frame" /\ ui = "paint"
         /\ UNCHANGED <<enabled, generation, pending, referenced, entries, lru, requests,
                        results, worker, refused, repaint>>

\* texture: a failed image is asked for again once FAILED_RETRY_AFTER has passed.
Texture(i) ==
    /\ ui = "paint"
    /\ enabled /\ i \in referenced
    /\ IF i \in DOMAIN entries /\ entries[i] = "ready"
         THEN lru' = Touch(lru, i) /\ UNCHANGED <<pending, requests, refused>>
         ELSE /\ Emotes => i \in DOMAIN entries \/ Cardinality(DOMAIN entries) < CacheCap
              /\ i \notin pending
              /\ IF Cardinality(pending) < RequestCap /\ Len(requests) < RequestCap
                   THEN /\ requests' = Append(requests, [generation |-> generation, id |-> i])
                        /\ pending' = pending \cup {i}
                        /\ UNCHANGED refused
                   ELSE refused' = refused \cup {i} /\ UNCHANGED <<pending, requests>>
              /\ UNCHANGED lru
    /\ UNCHANGED <<enabled, generation, referenced, entries, results, worker, ui, repaint>>

------------------------------------------------------------------------------
(* The worker.  The loads of enabled and generation are one step: every    *)
(* request was made while enabled, and each change of enabled is followed  *)
(* by a new generation before the next request.                            *)

Current(r) == enabled /\ r.generation = generation

\* The avatar worker only drops a stale request; the emote worker, when it was the
\* last one, asks for a frame.
RepaintWhenDrained ==
    repaint' = (repaint \/ (Emotes /\ enabled /\ Tail(requests) = <<>>))

TakeRequest ==
    /\ worker.pc = "recv"
    /\ requests # <<>>
    /\ requests' = Tail(requests)
    /\ IF Current(Head(requests))
         THEN worker' = [pc |-> "fetch", request |-> Head(requests)] /\ UNCHANGED repaint
         ELSE RepaintWhenDrained /\ UNCHANGED worker
    /\ UNCHANGED <<enabled, generation, pending, referenced, entries, lru, results, ui,
                   refused>>

\* The check after the fetch, before the result is sent.
Fetched ==
    /\ worker.pc = "fetch"
    /\ worker' = IF Current(worker.request) THEN [worker EXCEPT !.pc = "send"] ELSE Idle
    /\ UNCHANGED <<enabled, generation, pending, referenced, entries, lru, requests,
                   results, ui, refused, repaint>>

\* Mutant: no room for the one stale result.
RESULT_CAPACITY_without_spare == RequestCap

RESULT_CAPACITY == RequestCap + 1

\* fetch: an image that decodes within its bounds, or a failure to be retried later.
Fetch == {"ready", "failed"}

SendResult ==
    /\ worker.pc = "send"
    /\ IF Len(results) < RESULT_CAPACITY
         THEN \E entry \in Fetch :
                /\ results' = Append(results, [generation |-> worker.request.generation,
                                               id |-> worker.request.id, entry |-> entry])
                /\ repaint' = TRUE
         ELSE UNCHANGED <<results, repaint>>
    /\ worker' = Idle
    /\ UNCHANGED <<enabled, generation, pending, referenced, entries, lru, requests, ui,
                   refused>>

Next ==
    \/ SetEnabled \/ BumpGeneration \/ Reset \/ ClearTransient
    \/ \E ids \in SUBSET Ids : RetainReferenced(ids)
    \/ Poll \/ Paint
    \/ \E i \in Ids : Texture(i)
    \/ TakeRequest \/ Fetched \/ SendResult

Spec == Init /\ [][Next]_vars

------------------------------------------------------------------------------
(* Properties.                                                             *)

\* An id is never pending for ever: while the egui thread is not in the middle of
\* set_enabled or reset, each pending id has its request, its fetch or its result of
\* the current generation on the way (RESULT_CAPACITY leaves room for the one stale
\* result that can follow a drain, so none is ever dropped).
PendingIsInFlight ==
    ui \in {"frame", "paint"} =>
      \A i \in pending :
        LET mine(r) == r.id = i /\ r.generation = generation
        IN  \/ \E k \in DOMAIN requests : mine(requests[k])
            \/ worker.pc # "recv" /\ mine(worker.request)
            \/ \E k \in DOMAIN results : mine(results[k])

\* An emote that a queue full of stale requests turned away is painted again: until
\* the next frame is asked for, the worker still has something to do.
RefusedIsRetried ==
    Emotes /\ enabled /\ ui = "frame" /\ refused # {} =>
      repaint \/ requests # <<>> \/ worker.pc # "recv" \/ results # <<>>

\* Every image awaited is on its way, and an emote that a full queue turned away is asked
\* for again (an avatar that was turned away waits for the next frame, whoever asks for it).
ImagesArrive == PendingIsInFlight /\ RefusedIsRetried
==============================================================================
