------------------------------- MODULE Bridge -------------------------------
(***************************************************************************)
(* The bridge as a whole: HostBridge.gd and TesseraHost joined by their     *)
(* connection, with the properties of the composition.                      *)
(***************************************************************************)
EXTENDS HostBridge, TesseraHost

vars == <<linkVars, clientVars, hostVars, server>>

Init == LinkInit /\ ClientInit /\ HostInit

\* create_process succeeds: the only step both sides take together.
SpawnHost == Spawn /\ HostStart /\ UNCHANGED server

\* The handshake completes in the kernel as soon as the host listens.
Handshake == hpc = "listening" /\ Connect("host") /\ UNCHANGED hostVars

\* Another process has the port: it took it between the client's probe and the
\* host's bind (which then fails, or with SO_REUSEADDR does not), or after the
\* host had died.  The client cannot tell.
HandshakeOther == Connect("other") /\ UNCHANGED hostVars

\* All that such a process does here is to end the connection, if it likes.
OtherCloses ==
    /\ server = "other" /\ conn = "open" /\ peer = "open"
    /\ peer' \in {"fin", "rst"}
    /\ UNCHANGED <<reqs, frames, arrived, consumed, conn, clientVars, hostVars, server>>

ClientCall == CallStep /\ UNCHANGED <<hostVars, server>>

ClientOther ==
    /\ \/ SpawnFails \/ GiveUp \/ StartCall \/ CallNotConnected
       \/ HealthPing \/ Shutdown \/ ShutdownDone \/ Notification
    /\ UNCHANGED <<hostVars, server>>

HostRun == HostStep /\ UNCHANGED <<clientVars, server>>

HostDies == Crash /\ UNCHANGED <<clientVars, server>>

Next ==
    \/ SpawnHost \/ Handshake \/ HandshakeOther \/ OtherCloses
    \/ ClientCall \/ ClientOther \/ HostRun \/ HostDies

(***************************************************************************)
(* Fairness: the operating system schedules both processes; a call's clock  *)
(* and spawn_host's clock run; the health timer fires; a command takes the  *)
(* game DLL finite time.  Nobody has to make calls, close the window or     *)
(* crash.                                                                   *)
(***************************************************************************)
Fairness ==
    /\ WF_vars(ClientCall)
    /\ WF_vars(HostRun)
    /\ WF_vars(Handshake \/ (GiveUp /\ UNCHANGED <<hostVars, server>>))
    /\ WF_vars(HealthPing /\ UNCHANGED <<hostVars, server>>)
    /\ WF_vars(ShutdownDone /\ UNCHANGED <<hostVars, server>>)

Spec == Init /\ [][Next]_vars
FairSpec == Spec /\ Fairness

-----------------------------------------------------------------------------
(* Safety                                                                    *)

TypeOK == LinkTypeOK /\ ClientTypeOK /\ HostTypeOK

\* The host answers the requests it has taken, each once, in the order they
\* were sent, and frame follows frame without a gap: main.cpp's loop and the
\* single send of every dispatch_command branch.
AnswersInOrder ==
    /\ Len(frames) <= Len(reqs)
    /\ \A k \in DOMAIN frames : frames[k].answers = k
    /\ \A i, j \in DOMAIN frames : i < j => End(frames[i]) <= frames[j].start

\* A call gets the response to its own request exactly when no response was
\* still owed at the moment it sent: the rest of _send_and_recv does not look
\* at what it receives.
OwnReplyIffNothingOwed == last = "reply" => (got = awaiting <=> clean)

\* Between calls the client reads at a frame boundary, unless a call has left
\* a payload behind in the stream (_recv_raw phase 2, or an over-long length).
FramingKept ==
    cpc = "idle" /\ conn = "open" /\ ~split => AtBoundary(consumed)

\* No request but its own is outstanding behind a waiting call's: the timer is
\* stopped for the length of _send_and_recv.
NoPingDuringCall ==
    cpc \in {"header", "payload"} => Len(reqs) <= awaiting /\ ~timer

\* Phase 2 waits for the whole payload in the socket's buffer, so a response
\* larger than that buffer is never delivered, however much time it gets.
DeliveredFits == got > 0 => frames[got].len <= RcvBuf

\* connection_lost is emitted at most once, and only if the other end of the
\* connection, the host's if it is the host that was reached, is really gone.
LossIsReal ==
    /\ losses <= 1
    /\ losses = 1 => ~connected /\ peer # "open" /\ (server = "host" => hpc = "exited")

\* What a caller and the game may rely on around a call: no ping is written
\* behind a waiting request, nothing larger than the socket's buffer is
\* delivered, a loss is reported once and is one (_send_and_recv, _recv_raw,
\* _on_connection_lost).
CallsSafe == TypeOK /\ NoPingDuringCall /\ DeliveredFits /\ LossIsReal

-----------------------------------------------------------------------------
(* Step and liveness properties                                              *)

\* What RequestReply sees of the client's phases.
Call == IF cpc \in {"header", "payload"} THEN "waiting"
        ELSE IF last = "reply" THEN "answered" ELSE "idle"

\* The bridge keeps the promise of RequestReply: never the same response
\* twice, never an earlier one after a later one, none after the loss.
RR == INSTANCE RequestReply WITH
        up <- connected,
        asked <- Len(reqs),
        call <- Call,
        delivered <- got
ImplementsRequestReply == RR!RRSpec

\* As long as the client is in step with the frames, a started call returns:
\* the blocking get_data of the drain only ever waits for bytes the host is
\* about to send, and every other wait has a clock.
FramedCallReturns == (cpc = "drain" /\ ~split) ~> cpc \in {"idle", "gone"}

\* A host that had a client ends once that client is gone: it takes the
\* shutdown, or its next recv fails.
ServedHostExits == (cpc = "gone" /\ server = "host") ~> hpc = "exited"

-----------------------------------------------------------------------------
(* The inductive invariant behind the safety properties: each conjunct is     *)
(* about one matter, and BridgeProofs shows that they hold together.          *)

\* Where the header of response k is, or will be once it is written.
StartOf(k) == IF k = 1 THEN 0 ELSE End(frames[k - 1])

\* The host's place in its command loop fixes how many responses there are.
HostOrder ==
    /\ Len(frames) <= taken /\ taken <= Len(reqs)
    /\ hpc = "dispatch" => taken = Len(frames) + 1
    /\ hpc \in {"down", "init", "listening", "recv", "sending"} => taken = Len(frames)

\* The responses follow each other without a gap, and the client reads behind
\* the bytes that have arrived.
StreamOrder ==
    /\ \A k \in DOMAIN frames : frames[k].answers = k /\ frames[k].start = StartOf(k)
    /\ \A i, j \in DOMAIN frames : i < j => End(frames[i]) <= frames[j].start
    /\ consumed <= arrived /\ arrived <= Written
    /\ Available <= RcvBuf

\* What the client's flags say in each of its phases, and of the host.
ClientPhase ==
    /\ cpc \in {"down", "connecting"} =>
        conn = "none" /\ ~connected /\ reqs = <<>> /\ losses = 0
    /\ cpc \in {"drain", "drainPayload", "header", "payload"} =>
        connected /\ ~timer /\ last = "pending"
    /\ cpc = "closing" => connected
    /\ cpc \in {"header", "payload"} => Len(reqs) <= awaiting /\ awaiting <= Len(reqs) + 1
    /\ server = "host" /\ peer # "open" => hpc = "exited"
    /\ connected => losses = 0 /\ conn # "none" /\ (conn = "closed" => peer # "open")
    /\ conn = "none" <=> server = "none"
    /\ LossIsReal

\* A call that waits stands where its own response will start if nothing was
\* owed when it sent, and before that place otherwise.
DueAt(p) ==
    /\ awaiting > 0
    /\ clean => Len(frames) >= awaiting - 1 /\ p = StartOf(awaiting)
    /\ ~clean /\ Len(frames) >= awaiting - 1 => p < StartOf(awaiting)

ReplyDue ==
    /\ cpc = "header" => DueAt(consumed)
    /\ cpc = "payload" => consumed >= Header /\ DueAt(consumed - Header)
    /\ OwnReplyIffNothingOwed

\* Where the message being read began, and where the next one is looked for.
MessageStart == IF cpc = "payload" THEN consumed - Header ELSE consumed
MessageEnd == IF cpc \in {"drainPayload", "payload"} THEN consumed + need ELSE consumed

\* The response of the last successful call is behind the client's position.
Seen ==
    /\ cpc = "payload" => \A k \in FramesAt(consumed - Header) : frames[k].len = need
    /\ got > 0 =>
        /\ got \in DOMAIN frames
        /\ frames[got].len <= RcvBuf
        /\ End(frames[got]) <= MessageStart

\* FramingKept, extended to the phases in which a payload is still to come.
Framing == conn = "open" /\ ~split => AtBoundary(MessageEnd)

IInv ==
    TypeOK /\ HostOrder /\ StreamOrder /\ ClientPhase /\ ReplyDue /\ Seen /\ Framing

-----------------------------------------------------------------------------
(* What the code's comments say of it                                        *)

\* HostBridge.gd 184-185: pausing the pings keeps their responses from being
\* taken for a query's.
ReplyMatchesRequest == last = "reply" => got = awaiting
=============================================================================
