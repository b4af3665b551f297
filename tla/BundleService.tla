---------------------------- MODULE BundleService ----------------------------
(***************************************************************************)
(* What the multiplexer promises (src/src/ciconnect_service.cpp,           *)
(* multiplex): every call is made at most once, the calls of a bundle only *)
(* while the bundle is being handled, and a bundle is answered once all of *)
(* its calls have been.                                                    *)
(***************************************************************************)
EXTENDS Naturals, Sequences

CONSTANTS
    Calls,    \* calls of request handlers, bundles among them
    Parts     \* Parts[c]: the calls bundle c asks for; <<>> for any other

VARIABLE status   \* "new", "started" or "answered"

PartsOf(c) == {Parts[c][i] : i \in 1 .. Len(Parts[c])}

\* The bundles (one at most) that ask for c; none for a client's own request.
Parents(c) == {b \in Calls : c \in PartsOf(b)}

Init == status = [c \in Calls |-> "new"]

Start(c) ==
    /\ status[c] = "new"
    /\ \A b \in Parents(c) : status[b] = "started"
    /\ status' = [status EXCEPT ![c] = "started"]

Answer(c) ==
    /\ status[c] = "started"
    /\ \A p \in PartsOf(c) : status[p] = "answered"
    /\ status' = [status EXCEPT ![c] = "answered"]

Next == \E c \in Calls : Start(c) \/ Answer(c)

Spec == Init /\ [][Next]_status
=============================================================================
