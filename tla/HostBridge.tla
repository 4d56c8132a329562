----------------------------- MODULE HostBridge -----------------------------
(***************************************************************************)
(* scripts/host/HostBridge.gd: the client of the bridge.  One thread runs   *)
(* it; it gives way to timers, notifications and the caller only where the  *)
(* code awaits, that is in the cpc values of Awaiting.  The caller          *)
(* (InitScene.gd) awaits each call before it makes the next.                *)
(***************************************************************************)
EXTENDS TcpLink

VARIABLES
    cpc,        \* where the client is: see ClientPcs
    connected,  \* _connected
    timer,      \* the health timer is running
    awaiting,   \* number of the request the current or last call sent
    need,       \* bytes get_data still has to return
    last,       \* how the last call ended: see Outcomes
    got,        \* number of the response the last successful call returned
    clean,      \* history: nothing was owed when the last call sent its request
    split,      \* history: a header was read whose payload was left in the stream
    losses      \* how often connection_lost was emitted

callVars == <<awaiting, need, last, got, clean, split, losses>>
clientVars == <<cpc, connected, timer, callVars>>

ClientPcs == {"down", "connecting", "idle", "drain", "drainPayload",
              "header", "payload", "closing", "gone"}
Awaiting == {"connecting", "idle", "header", "payload", "closing"}
Outcomes == {"none", "pending", "reply", "notConnected", "headerTimeout",
             "badLength", "payloadTimeout", "badJson", "lost"}

ClientInit ==
    /\ cpc = "down"
    /\ connected = FALSE /\ timer = FALSE
    /\ awaiting = 0 /\ need = 0 /\ last = "none" /\ got = 0
    /\ clean = FALSE /\ split = FALSE /\ losses = 0

ClientTypeOK ==
    /\ cpc \in ClientPcs
    /\ connected \in BOOLEAN /\ timer \in BOOLEAN
    /\ awaiting \in Nat /\ need \in Nat
    /\ last \in Outcomes
    /\ got \in Nat
    /\ clean \in BOOLEAN /\ split \in BOOLEAN
    /\ losses \in Nat

-----------------------------------------------------------------------------
(* Writing to the socket                                                     *)

\* _send_raw on an open socket: the request reaches the stream while the
\* host's end is open; to a closed end it provokes a reset; after a reset
\* the write fails and the socket is closed.
Send(kind) ==
    IF conn # "open" THEN UNCHANGED <<reqs, conn, peer>>
    ELSE \/ peer = "open" /\ reqs' = Append(reqs, kind) /\ UNCHANGED <<conn, peer>>
         \/ peer = "fin" /\ peer' = "rst" /\ UNCHANGED <<reqs, conn>>
         \/ peer = "rst" /\ conn' = "closed" /\ UNCHANGED <<reqs, peer>>

\* The bound on a connection's requests; shutdown requests come on top of it.
MaySend == peer = "open" => Len(reqs) < MaxReqs

-----------------------------------------------------------------------------
(* spawn_host                                                                *)

\* No port, no executable, or create_process failed.
SpawnFails ==
    /\ cpc = "down"
    /\ cpc' = "idle"
    /\ UNCHANGED <<linkVars, connected, timer, callVars>>

Spawn ==
    /\ cpc = "down"
    /\ cpc' = "connecting"
    /\ UNCHANGED <<linkVars, connected, timer, callVars>>

\* A connection attempt succeeds, whoever listens on the port; attempts that
\* fail leave no trace.
Connect(whose) ==
    /\ cpc = "connecting"
    /\ conn' = "open" /\ peer' = "open"
    /\ server' = whose
    /\ connected' = TRUE
    /\ timer' = TRUE
    /\ cpc' = "idle"
    /\ UNCHANGED <<reqs, frames, arrived, consumed, callVars>>

\* CONNECT_TIMEOUT elapses; the host process is left to itself.
GiveUp ==
    /\ cpc = "connecting"
    /\ cpc' = "idle"
    /\ UNCHANGED <<linkVars, connected, timer, callVars>>

-----------------------------------------------------------------------------
(* _send_and_recv: init_game, get_info, get_all_infos, get_art_info          *)

\* Mutant: the health timer goes on during the call.
StartCallKeepsTimer ==
    /\ cpc = "idle"
    /\ connected
    /\ MaySend
    /\ cpc' = "drain"
    /\ last' = "pending"
    /\ UNCHANGED <<linkVars, connected, timer, awaiting, need, got, clean, split, losses>>

\* The call stops the health timer and starts draining.
StartCall ==
    /\ cpc = "idle"
    /\ connected
    /\ MaySend
    /\ timer' = FALSE
    /\ cpc' = "drain"
    /\ last' = "pending"
    /\ UNCHANGED <<linkVars, connected, awaiting, need, got, clean, split, losses>>

\* Without a connection nothing is drained, sent or received.
CallNotConnected ==
    /\ cpc = "idle"
    /\ ~connected
    /\ last' = "notConnected"
    /\ timer' = (conn # "none")
    /\ UNCHANGED <<linkVars, cpc, connected, awaiting, need, got, clean, split, losses>>

\* _drain_stale_responses reads a length word and, if it is in range, goes
\* on to read that many bytes.
DrainHeader ==
    /\ cpc = "drain"
    /\ conn = "open" /\ Available >= Header
    /\ \E w \in Words(consumed) :
        /\ consumed' = consumed + Header
        /\ IF 0 < w /\ w < MaxFrame
             THEN cpc' = "drainPayload" /\ need' = w /\ UNCHANGED split
             ELSE /\ split' = (split \/ ~AtBoundary(consumed'))
                  /\ UNCHANGED <<cpc, need>>
    /\ UNCHANGED <<reqs, frames, arrived, conn, peer>>
    /\ UNCHANGED <<connected, timer, awaiting, last, got, clean, losses>>

\* get_data blocks the thread until it has every byte it was asked for.
DrainPayload ==
    /\ cpc = "drainPayload"
    /\ conn = "open" /\ Available > 0
    /\ LET n == IF Available < need THEN Available ELSE need IN
        /\ consumed' = consumed + n
        /\ need' = need - n
        /\ cpc' = IF n = need THEN "drain" ELSE cpc
    /\ UNCHANGED <<reqs, frames, arrived, conn, peer>>
    /\ UNCHANGED <<connected, timer, awaiting, last, got, clean, split, losses>>

\* Mutant: the blocking read does not notice that the connection is gone.
DrainDroppedAtPollOnly ==
    /\ cpc = "drain"
    /\ PollDrops
    /\ conn' = "closed"
    /\ UNCHANGED <<reqs, frames, arrived, consumed, peer, clientVars>>

\* poll, or the recv under get_data, finds the connection gone: the socket
\* is closed, but _connected is not touched.
DrainDropped ==
    /\ cpc \in {"drain", "drainPayload"}
    /\ PollDrops
    /\ conn' = "closed"
    /\ cpc' = "drain"
    /\ UNCHANGED <<reqs, frames, arrived, consumed, peer, connected, timer, callVars>>

\* Nothing (more) to drain: the request is sent and the wait begins.
SendRequest ==
    /\ cpc = "drain"
    /\ conn = "open" => Available < Header
    /\ Send("query")
    /\ awaiting' = Len(reqs) + 1
    /\ clean' = (consumed = Written /\ Len(frames) = Len(reqs))
    /\ cpc' = "header"
    /\ UNCHANGED <<frames, arrived, consumed>>
    /\ UNCHANGED <<connected, timer, need, last, got, split, losses>>

\* _recv_raw returns to its caller, and the call restarts the timer.
Return(outcome) ==
    /\ last' = outcome
    /\ cpc' = "idle"
    /\ timer' = TRUE

\* Phase 1: four bytes are there; they are read as the frame's length.
ReadHeader ==
    /\ cpc = "header"
    /\ conn = "open" /\ Available >= Header
    /\ \E w \in Words(consumed) :
        /\ consumed' = consumed + Header
        /\ IF 0 < w /\ w <= MaxFrame
             THEN /\ cpc' = "payload" /\ need' = w
                  /\ UNCHANGED <<timer, last, split>>
             ELSE /\ Return("badLength")
                  /\ split' = (split \/ ~AtBoundary(consumed'))
                  /\ UNCHANGED need
    /\ UNCHANGED <<reqs, frames, arrived, conn, peer>>
    /\ UNCHANGED <<connected, awaiting, got, clean, losses>>

\* Mutant: a timeout sends the request again and waits on.
HeaderTimeoutRetries ==
    /\ cpc = "header"
    /\ conn = "open" /\ Available < Header
    /\ MaySend
    /\ Send("query")
    /\ awaiting' = Len(reqs) + 1
    /\ UNCHANGED <<frames, arrived, consumed>>
    /\ UNCHANGED <<cpc, connected, timer, need, last, got, clean, split, losses>>

HeaderTimeout ==
    /\ cpc = "header"
    /\ conn = "open" /\ Available < Header
    /\ Return("headerTimeout")
    /\ UNCHANGED <<linkVars, connected, awaiting, need, got, clean, split, losses>>

\* Mutant: whatever is available is taken, once it is enough.
ReadPayloadAll ==
    /\ cpc = "payload"
    /\ conn = "open" /\ Available >= need
    /\ consumed' = arrived
    /\ \/ \E k \in FramesAt(consumed - Header) :
            got' = frames[k].answers /\ Return("reply")
       \/ /\ FramesAt(consumed - Header) = {}
          /\ Return("badJson")
          /\ UNCHANGED got
    /\ UNCHANGED <<reqs, frames, arrived, conn, peer>>
    /\ UNCHANGED <<connected, awaiting, need, clean, split, losses>>

\* Phase 2: the whole payload is in the socket's buffer; it parses if it is
\* the payload of one frame.
ReadPayload ==
    /\ cpc = "payload"
    /\ conn = "open" /\ Available >= need
    /\ consumed' = consumed + need
    /\ \/ \E k \in FramesAt(consumed - Header) :
            got' = frames[k].answers /\ Return("reply")
       \/ /\ FramesAt(consumed - Header) = {}
          /\ Return("badJson")
          /\ UNCHANGED got
    /\ UNCHANGED <<reqs, frames, arrived, conn, peer>>
    /\ UNCHANGED <<connected, awaiting, need, clean, split, losses>>

\* The header is read, the payload stays behind in the stream.
PayloadTimeout ==
    /\ cpc = "payload"
    /\ conn = "open" /\ Available < need
    /\ Return("payloadTimeout")
    /\ split' = TRUE
    /\ UNCHANGED <<linkVars, connected, awaiting, need, got, clean, losses>>

\* poll finds the connection gone in either phase: _on_connection_lost.
ConnectionLost ==
    /\ cpc \in {"header", "payload"}
    /\ conn = "closed" \/ PollDrops
    /\ conn' = "closed"
    /\ connected' = FALSE
    /\ losses' = IF connected THEN losses + 1 ELSE losses
    /\ Return("lost")
    /\ UNCHANGED <<reqs, frames, arrived, consumed, peer>>
    /\ UNCHANGED <<awaiting, need, got, clean, split>>

-----------------------------------------------------------------------------
(* Timer, shutdown, notifications                                            *)

\* _on_health_ping: sent, and its response awaited by nobody.
HealthPing ==
    /\ timer
    /\ cpc \in Awaiting
    /\ connected
    /\ MaySend
    /\ Send("ping")
    /\ UNCHANGED <<frames, arrived, consumed, clientVars>>

\* shutdown() up to its 0.2 s await; without a connection it ends at once.
Shutdown ==
    /\ cpc = "idle"
    /\ timer' = FALSE
    /\ IF connected THEN Send("shutdown") /\ cpc' = "closing"
                    ELSE UNCHANGED <<cpc, reqs, conn, peer>>
    /\ UNCHANGED <<frames, arrived, consumed, connected, callVars>>

\* ... and after it: the socket is closed whether or not the host answered.
ShutdownDone ==
    /\ cpc = "closing"
    /\ conn' = "closed"
    /\ connected' = FALSE
    /\ cpc' = "idle"
    /\ UNCHANGED <<reqs, frames, arrived, consumed, peer, timer, callVars>>

\* The node is freed or the window closed, wherever the coroutine waits:
\* a connected client sends "shutdown" and closes without waiting.
Notification ==
    /\ cpc \in Awaiting
    /\ cpc' = "gone"
    /\ timer' = FALSE
    /\ connected' = FALSE
    /\ conn' = IF conn = "open" THEN "closed" ELSE conn
    /\ reqs' = IF connected /\ conn = "open" /\ peer = "open"
                 THEN Append(reqs, "shutdown") ELSE reqs
    /\ UNCHANGED <<frames, arrived, consumed, peer, callVars>>

-----------------------------------------------------------------------------
\* What a call does once it has started; the clock sees to the timeouts.
CallStep ==
    \/ DrainHeader \/ DrainPayload \/ DrainDropped \/ SendRequest
    \/ ReadHeader \/ HeaderTimeout \/ ReadPayload \/ PayloadTimeout
    \/ ConnectionLost
=============================================================================
