---------------------------- MODULE TesseraHost ----------------------------
(***************************************************************************)
(* The host process: main.cpp's accept-once command loop over TcpServer,    *)
(* with dispatch_command abstracted to "one response, of some length, for   *)
(* every command".                                                          *)
(***************************************************************************)
EXTENDS TcpLink

VARIABLES
    hpc,    \* where the process is: see HostPcs
    taken   \* how many requests recv_message has returned

hostVars == <<hpc, taken>>

HostPcs == {"down", "init", "listening", "recv", "dispatch", "sending", "exited"}

HostInit == hpc = "down" /\ taken = 0

HostTypeOK == hpc \in HostPcs /\ taken \in Nat

\* The process ends: its sockets are closed, which its client sees as an
\* orderly close or, with data unread on either side, as a reset.
Exit ==
    /\ hpc' = "exited"
    /\ peer' \in (IF server = "other" THEN {peer} ELSE {"fin", "rst"})

\* OS.create_process has returned a pid.
HostStart ==
    /\ hpc = "down"
    /\ hpc' = "init"
    /\ UNCHANGED <<linkVars, taken>>

\* TcpServer::init binds the port it was given and listens on it.
Listen ==
    /\ hpc = "init"
    /\ hpc' = "listening"
    /\ UNCHANGED <<linkVars, taken>>

\* bind() fails: the port was taken after the client had probed it.
BindFails ==
    /\ hpc = "init"
    /\ hpc' = "exited"
    /\ UNCHANGED <<linkVars, taken>>

\* accept_client: the only accept of the process's life, and it blocks.
Accept ==
    /\ hpc = "listening"
    /\ server = "host"
    /\ hpc' = "recv"
    /\ UNCHANGED <<linkVars, taken>>

\* recv_message returns the next request.
Recv ==
    /\ hpc = "recv"
    /\ taken < Len(reqs)
    /\ taken' = taken + 1
    /\ hpc' = "dispatch"
    /\ UNCHANGED linkVars

\* Mutant: the host goes back to accept instead of ending.
DisconnectedReaccepts ==
    /\ hpc = "recv"
    /\ conn = "closed"
    /\ hpc' = "listening"
    /\ UNCHANGED <<linkVars, taken>>

\* recv_message fails: the client closed its end (a reset may have dropped
\* requests that were still unread).
Disconnected ==
    /\ hpc = "recv"
    /\ conn = "closed"
    /\ Exit
    /\ UNCHANGED <<reqs, frames, arrived, consumed, conn, taken>>

\* Mutant: the ping branch forgets to answer.
DispatchSilentPing ==
    /\ hpc = "dispatch"
    /\ IF reqs[taken] = "ping"
         THEN hpc' = "recv" /\ UNCHANGED frames
         ELSE /\ \E n \in Lengths :
                  frames' = Append(frames, [answers |-> taken, start |-> Written, len |-> n])
              /\ hpc' = "sending"
    /\ UNCHANGED <<reqs, arrived, consumed, conn, peer, taken>>

\* Mutant: an error branch without its return sends a second response.
DispatchTwice ==
    /\ hpc = "dispatch"
    /\ \E n \in Lengths :
        LET first == [answers |-> taken, start |-> Written, len |-> n]
        IN  frames' = frames \o <<first, [first EXCEPT !.start = End(first)]>>
    /\ hpc' = "sending"
    /\ UNCHANGED <<reqs, arrived, consumed, conn, peer, taken>>

\* dispatch_command: every branch builds exactly one response.
Dispatch ==
    /\ hpc = "dispatch"
    /\ \E n \in Lengths :
        frames' = Append(frames, [answers |-> taken, start |-> Written, len |-> n])
    /\ hpc' = "sending"
    /\ UNCHANGED <<reqs, arrived, consumed, conn, peer, taken>>

\* The command is answered: the loop goes on, or ends if it was "shutdown".
EndCommand ==
    IF reqs[taken] = "shutdown" THEN Exit ELSE hpc' = "recv" /\ UNCHANGED peer

\* send_message: as many bytes as the client's socket has room for.
SendMessage ==
    /\ hpc = "sending"
    /\ conn = "open"
    /\ \E n \in 1 .. RcvBuf :
        /\ arrived + n <= Written
        /\ Available + n <= RcvBuf
        /\ arrived' = arrived + n
    /\ IF arrived' = Written THEN EndCommand ELSE UNCHANGED <<hpc, peer>>
    /\ UNCHANGED <<reqs, frames, consumed, conn, taken>>

\* send() fails because the client is gone; dispatch ignores the result.
SendFails ==
    /\ hpc = "sending"
    /\ conn = "closed"
    /\ EndCommand
    /\ UNCHANGED <<reqs, frames, arrived, consumed, conn, taken>>

\* The process dies: in the game DLL, in Python, or killed from outside.
Crash ==
    /\ hpc \notin {"down", "exited"}
    /\ Exit
    /\ UNCHANGED <<reqs, frames, arrived, consumed, conn, taken>>

\* What the host does of itself; a crash is nobody's obligation.
HostStep ==
    \/ Listen \/ BindFails \/ Accept \/ Recv \/ Disconnected
    \/ Dispatch \/ SendMessage \/ SendFails
=============================================================================
