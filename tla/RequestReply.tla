---------------------------- MODULE RequestReply ----------------------------
(***************************************************************************)
(* What a caller of HostBridge.gd may rely on, without bytes, sockets or    *)
(* processes: requests are numbered as they are sent, one call is open at   *)
(* a time, and a call ends with a response that no earlier call has had and *)
(* that answers a request already made -- or with an error.  It need not be *)
(* the response to the call's own request.                                  *)
(***************************************************************************)
EXTENDS Integers

VARIABLES
    up,         \* the bridge is connected
    asked,      \* requests sent so far
    call,       \* "idle", "waiting" for a response, or "answered" with one
    delivered   \* number of the last response handed to a caller

rrVars == <<up, asked, call, delivered>>

RRInit == up = FALSE /\ asked = 0 /\ call = "idle" /\ delivered = 0

\* The one connection of the bridge's life.
Establish ==
    /\ ~up /\ asked = 0
    /\ up' = TRUE
    /\ UNCHANGED <<asked, call, delivered>>

\* A new call: the outcome of the one before is no longer of interest.
Begin ==
    /\ call = "answered"
    /\ call' = "idle"
    /\ UNCHANGED <<up, asked, delivered>>

\* A call sends its request, or finds the line dead and will only fail.
Ask ==
    /\ up /\ call = "idle"
    /\ call' = "waiting"
    /\ asked' \in {asked, asked + 1}
    /\ UNCHANGED <<up, delivered>>

\* A request nobody waits for: a ping, a shutdown.
Tell ==
    /\ up /\ call # "waiting"
    /\ asked' = asked + 1
    /\ UNCHANGED <<up, call, delivered>>

Deliver ==
    /\ up /\ call = "waiting"
    /\ delivered' \in delivered + 1 .. asked
    /\ call' = "answered"
    /\ UNCHANGED <<up, asked>>

Fail ==
    /\ call = "waiting"
    /\ call' = "idle"
    /\ UNCHANGED <<up, asked, delivered>>

\* The connection ends, by loss or by a goodbye that may still be a request.
Hangup ==
    /\ up' = FALSE
    /\ call' = IF call = "waiting" THEN "idle" ELSE call
    /\ asked' \in {asked, IF up THEN asked + 1 ELSE asked}
    /\ UNCHANGED delivered

RRNext == Establish \/ Begin \/ Ask \/ Tell \/ Deliver \/ Fail \/ Hangup

RRSpec == RRInit /\ [][RRNext]_rrVars
=============================================================================
