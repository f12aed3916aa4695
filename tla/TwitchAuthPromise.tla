-------------------------- MODULE TwitchAuthPromise --------------------------
(***************************************************************************)
(* What the Twitch provider relies on of its OAuth machine, and nothing    *)
(* else: whether chat may connect, whether a device code is being polled,  *)
(* and whether an account may still be stored.  Every operation is the set *)
(* of answers the provider must be ready for.                              *)
(***************************************************************************)
VARIABLE auth

Session(can, awaiting, available) ==
    [can |-> can, awaiting |-> awaiting, available |-> available]

SignedOut == Session(FALSE, FALSE, FALSE)
Unavailable == Session(FALSE, FALSE, TRUE)
Connected == Session(TRUE, FALSE, TRUE)
Awaiting == Session(FALSE, TRUE, FALSE)

\* restore: nothing stored, the store or the provider failed, or a session.
Restored == {SignedOut, Unavailable, Connected}

\* begin is refused while an account may be stored; a failed request leaves an
\* older device code alone.
Begun(a) == IF a.available THEN {a} ELSE {a, Awaiting}

\* tick polls a device code, restores, refreshes or validates.
Ticked(a) ==
    CASE a.awaiting -> {a, SignedOut, Unavailable, Connected}
      [] a.available -> {a} \cup Restored
      [] OTHER -> {a}

\* cancel drops the device code and also leaves a connected session.
Cancelled(a) == Session(FALSE, FALSE, a.available)

\* cancel_pending drops the device code only.
PendingCancelled(a) == [a EXCEPT !.awaiting = FALSE]

\* invalidate and disconnect: the account is forgotten unless the store fails.
Forgotten == {SignedOut, Unavailable}

Init == auth = SignedOut

Next ==
    \/ auth' \in Restored \cup Begun(auth) \cup Ticked(auth) \cup Forgotten
    \/ auth' \in {Cancelled(auth), PendingCancelled(auth)}

Spec == Init /\ [][Next]_auth
==============================================================================
