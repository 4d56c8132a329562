---------------------------- MODULE BridgeProofs ----------------------------
(***************************************************************************)
(* Proofs about Bridge for every value of the constants that LinkAssumption *)
(* allows.                                                                  *)
(***************************************************************************)
EXTENDS Bridge, TLAPS

(***************************************************************************)
(* Lemmas about the stream                                                   *)
(***************************************************************************)

\* A stream position is a natural number, and so is every length word read.
LEMMA StreamTypes ==
    ASSUME LinkTypeOK
    PROVE  /\ Written \in Nat
           /\ \A k \in DOMAIN frames : frames[k] \in Frame /\ End(frames[k]) \in Nat
           /\ \A p \in Nat : \A w \in Words(p) : w \in Nat
<1>1. ASSUME NEW k \in DOMAIN frames
      PROVE  frames[k] \in Frame /\ End(frames[k]) \in Nat
  <2>1. frames[k] \in Frame
    BY DEF LinkTypeOK
  <2> QED BY <2>1 DEF Frame, End, Header
<1>2. Written \in Nat
  <2>1. CASE frames # <<>>
    <3>1. Len(frames) \in DOMAIN frames
      BY <2>1 DEF LinkTypeOK
    <3> QED BY <1>1, <2>1, <3>1 DEF Written
  <2> QED BY <2>1 DEF Written
<1>3. ASSUME NEW p \in Nat, NEW w \in Words(p)
      PROVE  w \in Nat
  <2>1. CASE FramesAt(p) # {}
    BY <1>1, <1>3, <2>1 DEF Words, FramesAt, Frame
  <2>2. CASE FramesAt(p) = {}
    <3>1. Bogus \subseteq Nat
      BY LinkAssumption DEF LinkAssumption
    <3>2. w \in {0} \cup Bogus
      BY <2>2 DEF Words
    <3> QED BY <3>1, <3>2
  <2> QED BY <2>1, <2>2
<1> QED BY <1>1, <1>2, <1>3

\* The outcome of writing a request, whatever the state of the connection.
LEMMA SendTypes ==
    ASSUME LinkTypeOK, NEW kind \in Kinds, Send(kind)
    PROVE  /\ reqs' \in Seq(Kinds)
           /\ conn' \in {"none", "open", "closed"}
           /\ peer' \in {"open", "fin", "rst"}
BY DEF LinkTypeOK, Send

(***************************************************************************)
(* Type correctness                                                          *)
(***************************************************************************)

\* Every step of the client that the host takes no part in keeps the types.
LEMMA ClientTypes ==
    ASSUME LinkTypeOK, ClientTypeOK, ClientCall \/ ClientOther
    PROVE  LinkTypeOK' /\ ClientTypeOK'
<1>0. UNCHANGED server
  BY DEF ClientCall, ClientOther
<1> USE <1>0 DEF LinkTypeOK, ClientTypeOK, ClientPcs, Outcomes, Header, Available
<1>1. CASE DrainHeader
  <2>1. PICK w \in Words(consumed) :
          /\ consumed' = consumed + Header
          /\ IF 0 < w /\ w < MaxFrame
               THEN cpc' = "drainPayload" /\ need' = w /\ UNCHANGED split
               ELSE /\ split' = (split \/ ~AtBoundary(consumed'))
                    /\ UNCHANGED <<cpc, need>>
    BY <1>1 DEF DrainHeader
  <2>2. w \in Nat
    BY <2>1, StreamTypes
  <2>3. split' \in BOOLEAN
    BY <2>1, Zenon DEF AtBoundary
  <2> QED BY <1>1, <2>1, <2>2, <2>3 DEF DrainHeader
<1>2. CASE DrainPayload
  BY <1>2 DEF DrainPayload
<1>3. CASE DrainDropped
  BY <1>3 DEF DrainDropped, callVars
<1>4. CASE SendRequest
  BY <1>4, SendTypes DEF SendRequest, Kinds
<1>5. CASE ReadHeader
  <2>1. PICK w \in Words(consumed) :
          /\ consumed' = consumed + Header
          /\ IF 0 < w /\ w <= MaxFrame
               THEN /\ cpc' = "payload" /\ need' = w
                    /\ UNCHANGED <<timer, last, split>>
               ELSE /\ Return("badLength")
                    /\ split' = (split \/ ~AtBoundary(consumed'))
                    /\ UNCHANGED need
    BY <1>5 DEF ReadHeader
  <2>2. w \in Nat
    BY <2>1, StreamTypes
  <2>3. split' \in BOOLEAN
    BY <2>1, Zenon DEF AtBoundary
  <2>4. cpc' \in ClientPcs /\ need' \in Nat /\ last' \in Outcomes /\ timer' \in BOOLEAN
    <3>1. CASE 0 < w /\ w <= MaxFrame
      BY <2>1, <2>2, <3>1
    <3>2. CASE ~(0 < w /\ w <= MaxFrame)
      BY <2>1, <3>2 DEF Return
    <3> QED BY <3>1, <3>2
  <2>5. UNCHANGED <<reqs, frames, arrived, conn, peer, connected, awaiting, got, clean, losses>>
    BY <1>5 DEF ReadHeader
  <2> QED BY <2>1, <2>3, <2>4, <2>5
<1>6. CASE HeaderTimeout
  BY <1>6 DEF HeaderTimeout, Return, linkVars
<1>7. CASE ReadPayload
  <2>1. /\ consumed' = consumed + need
        /\ UNCHANGED <<reqs, frames, arrived, conn, peer>>
        /\ UNCHANGED <<connected, awaiting, need, clean, split, losses>>
    BY <1>7 DEF ReadPayload
  <2>2. CASE \E k \in FramesAt(consumed - Header) :
               got' = frames[k].answers /\ Return("reply")
    <3>1. got' \in Nat
      BY <2>2, StreamTypes DEF FramesAt, Frame
    <3>2. cpc' = "idle" /\ timer' = TRUE /\ last' = "reply"
      BY <2>2 DEF Return
    <3> QED BY <2>1, <3>1, <3>2
  <2>3. CASE Return("badJson") /\ UNCHANGED got
    BY <2>1, <2>3 DEF Return
  <2> QED BY <1>7, <2>2, <2>3 DEF ReadPayload
<1>8. CASE PayloadTimeout
  BY <1>8 DEF PayloadTimeout, Return, linkVars
<1>9. CASE ConnectionLost
  <2>1. losses' \in Nat
    <3>1. CASE connected
      BY <1>9, <3>1 DEF ConnectionLost
    <3>2. CASE ~connected
      BY <1>9, <3>2 DEF ConnectionLost
    <3> QED BY <3>1, <3>2
  <2>2. UNCHANGED <<reqs, frames, arrived, consumed, peer, awaiting, need, got, clean, split>>
    BY <1>9 DEF ConnectionLost
  <2>3. conn' = "closed" /\ connected' = FALSE /\ last' = "lost" /\ cpc' = "idle" /\ timer' = TRUE
    BY <1>9, Zenon DEF ConnectionLost, Return
  <2> QED BY <2>1, <2>2, <2>3
<1>10. CASE SpawnFails \/ GiveUp
  BY <1>10 DEF SpawnFails, GiveUp, linkVars, callVars
<1>11. CASE StartCall \/ CallNotConnected
  BY <1>11 DEF StartCall, CallNotConnected, linkVars
<1>12. CASE HealthPing
  BY <1>12, SendTypes DEF HealthPing, clientVars, callVars, Kinds
<1>13. CASE Shutdown
  BY <1>13, SendTypes DEF Shutdown, callVars, Kinds
<1>14. CASE ShutdownDone
  BY <1>14 DEF ShutdownDone, callVars
<1>15. CASE Notification
  <2>1. reqs' = reqs \/ reqs' = Append(reqs, "shutdown")
    BY <1>15, Zenon DEF Notification
  <2>2. reqs' \in Seq(Kinds)
    BY <2>1 DEF Kinds
  <2>3. conn' \in {"none", "open", "closed"}
    BY <1>15 DEF Notification
  <2>4. cpc' = "gone" /\ timer' = FALSE /\ connected' = FALSE
    BY <1>15 DEF Notification
  <2>5. UNCHANGED <<frames, arrived, consumed, peer, callVars>>
    BY <1>15 DEF Notification
  <2> QED BY <2>2, <2>3, <2>4, <2>5 DEF callVars
<1> QED
  BY <1>1, <1>2, <1>3, <1>4, <1>5, <1>6, <1>7, <1>8, <1>9, <1>10, <1>11, <1>12,
     <1>13, <1>14, <1>15 DEF ClientCall, ClientOther, CallStep

\* Every step of the host keeps the types.
LEMMA HostTypes ==
    ASSUME LinkTypeOK, HostTypeOK, HostStep \/ Crash, UNCHANGED server
    PROVE  LinkTypeOK' /\ HostTypeOK'
<1> USE DEF LinkTypeOK, HostTypeOK, HostPcs
<1>1. CASE Listen \/ BindFails \/ Accept
  BY <1>1 DEF Listen, BindFails, Accept, linkVars
<1>2. CASE Recv
  BY <1>2 DEF Recv, linkVars
<1>3. CASE Disconnected \/ Crash
  BY <1>3 DEF Disconnected, Crash, Exit
<1>4. CASE Dispatch
  BY <1>4, StreamTypes, LinkAssumption DEF Dispatch, Frame, LinkAssumption
<1>5. CASE SendMessage
  BY <1>5 DEF SendMessage, EndCommand, Exit
<1>6. CASE SendFails
  BY <1>6 DEF SendFails, EndCommand, Exit
<1> QED BY <1>1, <1>2, <1>3, <1>4, <1>5, <1>6 DEF HostStep

\* Every state of the bridge is well-typed.
THEOREM TypeCorrect == Spec => []TypeOK
<1>1. Init => TypeOK
  <2>1. LinkInit => LinkTypeOK
    BY DEF LinkInit, LinkTypeOK
  <2>2. ClientInit => ClientTypeOK
    <3> SUFFICES ASSUME ClientInit PROVE ClientTypeOK
      OBVIOUS
    <3>1. connected \in BOOLEAN /\ timer \in BOOLEAN /\ clean \in BOOLEAN /\ split \in BOOLEAN
      BY Zenon DEF ClientInit
    <3>2. cpc \in ClientPcs /\ last \in Outcomes
      BY DEF ClientInit, ClientPcs, Outcomes
    <3>3. awaiting \in Nat /\ need \in Nat /\ got \in Nat /\ losses \in Nat
      BY DEF ClientInit
    <3> QED BY <3>1, <3>2, <3>3 DEF ClientTypeOK
  <2>3. HostInit => HostTypeOK
    BY DEF HostInit, HostTypeOK, HostPcs
  <2> QED BY <2>1, <2>2, <2>3 DEF Init, TypeOK
<1>2. TypeOK /\ [Next]_vars => TypeOK'
  <2> SUFFICES ASSUME TypeOK, [Next]_vars PROVE TypeOK'
    OBVIOUS
  <2> USE DEF TypeOK
  <2>1. CASE SpawnHost
    BY <2>1 DEF SpawnHost, HostStart, Spawn, linkVars, callVars, LinkTypeOK, ClientTypeOK,
                HostTypeOK, ClientPcs, HostPcs
  <2>2. CASE Handshake \/ HandshakeOther
    BY <2>2 DEF Handshake, HandshakeOther, Connect, hostVars, callVars, LinkTypeOK, ClientTypeOK,
                HostTypeOK, ClientPcs
  <2>3. CASE ClientCall \/ ClientOther
    BY <2>3, ClientTypes DEF ClientCall, ClientOther, hostVars, HostTypeOK
  <2>4. CASE HostRun \/ HostDies
    BY <2>4, HostTypes DEF HostRun, HostDies, clientVars, callVars, ClientTypeOK
  <2>6. CASE OtherCloses
    BY <2>6 DEF OtherCloses, clientVars, callVars, hostVars, LinkTypeOK, ClientTypeOK,
                HostTypeOK
  <2>5. CASE UNCHANGED vars
    BY <2>5 DEF vars, linkVars, clientVars, callVars, hostVars, LinkTypeOK,
                ClientTypeOK, HostTypeOK
  <2> QED BY <2>1, <2>2, <2>3, <2>4, <2>5, <2>6 DEF Next
<1> QED BY <1>1, <1>2, PTL DEF Spec

(***************************************************************************)
(* What the steps of each side can change                                    *)
(***************************************************************************)

\* A step of the client alone leaves the host and the response stream as they
\* are, adds at most one request, and reads no more than has arrived.
LEMMA ClientFootprint ==
    ASSUME TypeOK, consumed <= arrived, ClientCall \/ ClientOther
    PROVE  /\ UNCHANGED <<frames, arrived, hpc, taken>>
           /\ reqs' = reqs \/ \E kind \in Kinds : reqs' = Append(reqs, kind)
           /\ consumed' \in Nat /\ consumed <= consumed' /\ consumed' <= arrived
<1> USE DEF Available, Header
<1>1. UNCHANGED <<hpc, taken>>
  BY DEF ClientCall, ClientOther, hostVars
<1>2. consumed \in Nat /\ arrived \in Nat /\ need \in Nat
  BY DEF TypeOK, LinkTypeOK, ClientTypeOK
<1>3. CASE DrainHeader
  BY <1>1, <1>2, <1>3 DEF DrainHeader
<1>4. CASE DrainPayload
  BY <1>1, <1>2, <1>4 DEF DrainPayload
<1>5. CASE DrainDropped
  BY <1>1, <1>2, <1>5 DEF DrainDropped
<1>6. CASE SendRequest
  BY <1>1, <1>2, <1>6 DEF SendRequest, Send, Kinds
<1>7. CASE ReadHeader
  BY <1>1, <1>2, <1>7 DEF ReadHeader
<1>8. CASE HeaderTimeout \/ PayloadTimeout
  BY <1>1, <1>2, <1>8 DEF HeaderTimeout, PayloadTimeout, linkVars
<1>9. CASE ReadPayload
  BY <1>1, <1>2, <1>9 DEF ReadPayload
<1>10. CASE ConnectionLost
  BY <1>1, <1>2, <1>10 DEF ConnectionLost
<1>11. CASE SpawnFails \/ GiveUp \/ StartCall \/ CallNotConnected
  BY <1>1, <1>2, <1>11 DEF SpawnFails, GiveUp, StartCall, CallNotConnected, linkVars
<1>12. CASE HealthPing
  BY <1>1, <1>2, <1>12 DEF HealthPing, Send, Kinds
<1>13. CASE Shutdown
  BY <1>1, <1>2, <1>13 DEF Shutdown, Send, Kinds
<1>14. CASE ShutdownDone
  BY <1>1, <1>2, <1>14 DEF ShutdownDone
<1>15. CASE Notification
  <2>1. reqs' = reqs \/ reqs' = Append(reqs, "shutdown")
    BY <1>15, Zenon DEF Notification
  <2> QED BY <1>1, <1>2, <1>15, <2>1 DEF Notification, Kinds
<1> QED
  BY <1>3, <1>4, <1>5, <1>6, <1>7, <1>8, <1>9, <1>10, <1>11, <1>12, <1>13, <1>14,
     <1>15 DEF ClientCall, ClientOther, CallStep

\* A step of the host leaves the client and its reading position as they are;
\* only Dispatch begins a response, and only the end of the process is told to
\* the client.
LEMMA HostFootprint ==
    ASSUME TypeOK, HostRun \/ HostDies
    PROVE  /\ UNCHANGED <<reqs, consumed, conn, clientVars>>
           /\ Dispatch \/ UNCHANGED frames
           /\ arrived' \in Nat /\ arrived <= arrived'
           /\ UNCHANGED server
           /\ UNCHANGED peer \/ (server # "other" /\ peer' # "open" /\ hpc' = "exited")
           /\ hpc # "exited"
<1>1. arrived \in Nat
  BY DEF TypeOK, LinkTypeOK
<1>2. UNCHANGED <<clientVars, server>>
  BY DEF HostRun, HostDies
<1>3. CASE Listen \/ BindFails \/ Accept \/ Recv
  BY <1>1, <1>2, <1>3 DEF Listen, BindFails, Accept, Recv, linkVars
<1>4. CASE Disconnected \/ Crash
  BY <1>1, <1>2, <1>4 DEF Disconnected, Crash, Exit
<1>5. CASE Dispatch
  BY <1>1, <1>2, <1>5 DEF Dispatch
<1>6. CASE SendMessage
  BY <1>1, <1>2, <1>6, LinkAssumption DEF SendMessage, EndCommand, Exit, LinkAssumption
<1>7. CASE SendFails
  BY <1>1, <1>2, <1>7 DEF SendFails, EndCommand, Exit
<1> QED BY <1>3, <1>4, <1>5, <1>6, <1>7 DEF HostRun, HostDies, HostStep

\* Beginning a response moves no earlier one.
LEMMA DispatchAppends ==
    ASSUME TypeOK, Dispatch
    PROVE  \E n \in Nat :
             /\ Len(frames') = Len(frames) + 1
             /\ DOMAIN frames' = 1 .. Len(frames) + 1
             /\ \A k \in DOMAIN frames : frames'[k] = frames[k]
             /\ frames'[Len(frames) + 1] = [answers |-> taken, start |-> Written, len |-> n]
             /\ Written' = Written + Header + n
<1>1. PICK n \in Lengths :
        frames' = Append(frames, [answers |-> taken, start |-> Written, len |-> n])
  BY DEF Dispatch
<1>2. n \in Nat /\ Written \in Nat /\ taken \in Nat /\ frames \in Seq(Frame)
  BY LinkAssumption, StreamTypes DEF LinkAssumption, TypeOK, LinkTypeOK, HostTypeOK
<1> DEFINE f == [answers |-> taken, start |-> Written, len |-> n]
<1>3. f \in Frame
  BY <1>2 DEF Frame
<1> HIDE DEF f
<1>4. /\ Len(frames') = Len(frames) + 1
      /\ DOMAIN frames' = 1 .. Len(frames) + 1
      /\ \A k \in DOMAIN frames : frames'[k] = frames[k]
      /\ frames'[Len(frames) + 1] = f
  BY <1>1, <1>2, <1>3 DEF f
<1>5. Written' = End(f)
  BY <1>2, <1>4 DEF Written
<1>6. End(f) = Written + Header + n
  BY DEF End, f
<1> QED BY <1>2, <1>4, <1>5, <1>6 DEF f

(***************************************************************************)
(* The conjuncts of the inductive invariant, one lemma each                  *)
(***************************************************************************)

\* A step other than a stutter, sorted by who takes it.
LEMMA Steps ==
    Next => \/ SpawnHost \/ OtherCloses \/ (Handshake \/ HandshakeOther)
            \/ (ClientCall \/ ClientOther) \/ (HostRun \/ HostDies)
BY DEF Next

\* The number of responses follows from the host's place in its loop.
LEMMA HostOrderStep ==
    ASSUME TypeOK, HostOrder, consumed <= arrived, [Next]_vars
    PROVE  HostOrder'
<1> USE DEF HostOrder
<1>0. /\ taken \in Nat /\ Len(reqs) \in Nat /\ Len(frames) \in Nat
      /\ reqs \in Seq(Kinds) /\ hpc \in HostPcs
  BY DEF TypeOK, LinkTypeOK, HostTypeOK
<1>1. CASE SpawnHost \/ OtherCloses \/ (Handshake \/ HandshakeOther)
  BY <1>1 DEF SpawnHost, HostStart, OtherCloses, Handshake, HandshakeOther, Spawn, Connect,
              linkVars, hostVars
<1>2. CASE ClientCall \/ ClientOther
  <2>1. Len(reqs) <= Len(reqs')
    BY <1>0, <1>2, ClientFootprint
  <2>2. Len(reqs') \in Nat
    BY <1>0, <1>2, ClientFootprint
  <2> QED BY <1>0, <1>2, <2>1, <2>2, ClientFootprint
<1>3. CASE HostRun \/ HostDies
  <2>1. CASE Listen \/ BindFails \/ Accept \/ Recv
    BY <1>0, <2>1 DEF Listen, BindFails, Accept, Recv, linkVars
  <2>2. CASE Disconnected \/ Crash
    BY <1>0, <2>2 DEF Disconnected, Crash, Exit
  <2>3. CASE Dispatch
    <3>1. Len(frames') = Len(frames) + 1
      BY <2>3, DispatchAppends
    <3>2. hpc' = "sending" /\ UNCHANGED <<reqs, taken>> /\ hpc = "dispatch"
      BY <2>3 DEF Dispatch
    <3> QED BY <1>0, <3>1, <3>2
  <2>4. CASE SendMessage
    BY <1>0, <2>4 DEF SendMessage, EndCommand, Exit
  <2>5. CASE SendFails
    BY <1>0, <2>5 DEF SendFails, EndCommand, Exit
  <2> QED BY <1>3, <2>1, <2>2, <2>3, <2>4, <2>5 DEF HostRun, HostDies, HostStep
<1>4. CASE UNCHANGED vars
  BY <1>4 DEF vars, linkVars, hostVars
<1> QED BY <1>1, <1>2, <1>3, <1>4, Steps

\* In a gapless stream a frame's bounds are ordered as the frames are, and the
\* last one ends at Written.
LEMMA FrameBounds ==
    ASSUME TypeOK, StreamOrder
    PROVE  /\ \A k \in DOMAIN frames : /\ frames[k].start \in Nat /\ frames[k].len \in Nat
                                       /\ End(frames[k]) = frames[k].start + Header + frames[k].len
                                       /\ End(frames[k]) <= Written
           /\ StartOf(Len(frames) + 1) = Written
           /\ \A k \in 1 .. Len(frames) + 1 : StartOf(k) \in Nat /\ StartOf(k) <= Written
           /\ \A i \in DOMAIN frames, k \in 1 .. Len(frames) + 1 :
                i < k => End(frames[i]) <= StartOf(k)
<1>1. frames \in Seq(Frame) /\ DOMAIN frames = 1 .. Len(frames) /\ Len(frames) \in Nat
  BY DEF TypeOK, LinkTypeOK
<1>2. ASSUME NEW k \in DOMAIN frames
      PROVE  /\ frames[k].start \in Nat /\ frames[k].len \in Nat
             /\ End(frames[k]) = frames[k].start + Header + frames[k].len
             /\ End(frames[k]) \in Nat
  BY <1>1, StreamTypes DEF Frame, End, TypeOK
<1>3. ASSUME NEW k \in DOMAIN frames
      PROVE  End(frames[k]) <= Written
  <2>1. CASE k = Len(frames)
    BY <1>1, <1>2, <2>1 DEF Written
  <2>2. CASE k # Len(frames)
    <3>1. Len(frames) \in DOMAIN frames /\ k < Len(frames)
      BY <1>1, <2>2
    <3>2. End(frames[k]) <= frames[Len(frames)].start
      BY <3>1 DEF StreamOrder
    <3> QED BY <1>1, <1>2, <3>1, <3>2 DEF Written, Header
  <2> QED BY <2>1, <2>2
<1>4. StartOf(Len(frames) + 1) = Written
  BY <1>1 DEF StartOf, Written
<1>5. ASSUME NEW k \in 1 .. Len(frames) + 1
      PROVE  StartOf(k) \in Nat /\ StartOf(k) <= Written
  <2>1. CASE k = 1
    BY <2>1, StreamTypes DEF StartOf, TypeOK
  <2>2. CASE k # 1
    <3>1. k - 1 \in DOMAIN frames
      BY <1>1, <2>2
    <3> QED BY <1>2, <1>3, <2>2, <3>1 DEF StartOf
  <2> QED BY <2>1, <2>2
<1>6. ASSUME NEW i \in DOMAIN frames, NEW k \in 1 .. Len(frames) + 1, i < k
      PROVE  End(frames[i]) <= StartOf(k)
  <2>1. CASE k = Len(frames) + 1
    BY <1>3, <1>4, <2>1
  <2>2. CASE k # Len(frames) + 1
    <3>1. k \in DOMAIN frames
      BY <1>1, <2>2
    <3> QED BY <1>6, <3>1 DEF StreamOrder
  <2> QED BY <2>1, <2>2
<1> QED BY <1>2, <1>3, <1>4, <1>5, <1>6

\* The response stream stays gapless and the client behind what has arrived.
LEMMA StreamOrderStep ==
    ASSUME TypeOK, HostOrder, StreamOrder, [Next]_vars
    PROVE  StreamOrder'
<1>0. /\ frames \in Seq(Frame) /\ DOMAIN frames = 1 .. Len(frames) /\ Len(frames) \in Nat
      /\ arrived \in Nat /\ consumed \in Nat /\ Written \in Nat /\ RcvBuf \in Nat
  BY StreamTypes, LinkAssumption DEF TypeOK, LinkTypeOK, LinkAssumption
<1>1. CASE SpawnHost \/ OtherCloses \/ (Handshake \/ HandshakeOther) \/ UNCHANGED vars
  BY <1>1 DEF SpawnHost, HostStart, OtherCloses, Handshake, HandshakeOther, Spawn, Connect, vars, linkVars, StreamOrder,
              StartOf, Written, Available
<1>2. CASE ClientCall \/ ClientOther
  <2>1. /\ frames' = frames /\ arrived' = arrived
        /\ consumed' \in Nat /\ consumed <= consumed' /\ consumed' <= arrived
    BY <1>2, ClientFootprint DEF StreamOrder
  <2>2. PICK c \in Nat : c = consumed'
    BY <2>1
  <2>3. arrived <= Written /\ arrived - c <= RcvBuf
    <3>1. arrived <= Written /\ arrived - consumed <= RcvBuf
      BY DEF StreamOrder, Available
    <3>2. consumed <= c
      BY <2>1, <2>2
    <3> QED BY <1>0, <3>1, <3>2
  <2>4. Written' = Written
    BY <2>1 DEF Written
  <2>5. (consumed <= arrived /\ arrived <= Written /\ Available <= RcvBuf)'
    BY <2>1, <2>2, <2>3, <2>4, Zenon DEF Available
  <2> QED BY <2>1, <2>5 DEF StreamOrder, StartOf
<1>3. CASE Dispatch /\ (HostRun \/ HostDies)
  <2>1. PICK n \in Nat :
             /\ Len(frames') = Len(frames) + 1
             /\ DOMAIN frames' = 1 .. Len(frames) + 1
             /\ \A k \in DOMAIN frames : frames'[k] = frames[k]
             /\ frames'[Len(frames) + 1] = [answers |-> taken, start |-> Written, len |-> n]
             /\ Written' = Written + Header + n
    BY <1>3, DispatchAppends
  <2>2. UNCHANGED <<arrived, consumed>> /\ taken = Len(frames) + 1
    BY <1>3 DEF Dispatch, HostOrder
  <2>3. ASSUME NEW k \in DOMAIN frames'
        PROVE  frames'[k].answers = k /\ frames'[k].start = StartOf(k)'
    <3>1. CASE k \in DOMAIN frames
      <4>1. StartOf(k)' = StartOf(k)
        BY <1>0, <2>1, <3>1 DEF StartOf
      <4> QED BY <2>1, <3>1, <4>1 DEF StreamOrder
    <3>2. CASE k = Len(frames) + 1
      <4>1. StartOf(k)' = Written
        BY <1>0, <2>1, <3>2 DEF StartOf, Written
      <4> QED BY <2>1, <2>2, <3>2, <4>1
    <3> QED BY <1>0, <2>1, <3>1, <3>2
  <2>4. ASSUME NEW i \in DOMAIN frames', NEW j \in DOMAIN frames', i < j
        PROVE  End(frames'[i]) <= frames'[j].start
    <3>1. CASE j \in DOMAIN frames
      <4>1. i \in DOMAIN frames
        BY <1>0, <2>1, <2>4, <3>1
      <4> QED BY <2>1, <2>4, <3>1, <4>1 DEF StreamOrder
    <3>2. CASE j = Len(frames) + 1
      <4>1. i \in DOMAIN frames
        BY <1>0, <2>1, <2>4, <3>2
      <4> QED BY <2>1, <3>2, <4>1, FrameBounds
    <3> QED BY <1>0, <2>1, <3>1, <3>2
  <2>5. (consumed <= arrived /\ arrived <= Written /\ Available <= RcvBuf)'
    BY <1>0, <2>1, <2>2 DEF StreamOrder, Available, Header
  <2> QED BY <2>3, <2>4, <2>5 DEF StreamOrder, End
<1>4. CASE ~Dispatch /\ (HostRun \/ HostDies)
  <2>1. UNCHANGED <<frames, consumed>>
    BY <1>4, HostFootprint
  <2>2. UNCHANGED arrived \/ (arrived' \in Nat /\ arrived <= arrived' /\ arrived' <= Written
                              /\ arrived' - consumed <= RcvBuf)
    <3>1. CASE SendMessage
      BY <1>0, <3>1 DEF SendMessage, Available
    <3>2. CASE ~SendMessage
      BY <1>4, <3>2 DEF HostRun, HostDies, HostStep, Listen, BindFails, Accept, Recv,
                        Disconnected, Crash, SendFails, linkVars
    <3> QED BY <3>1, <3>2
  <2> QED BY <1>0, <2>1, <2>2 DEF StreamOrder, StartOf, Written, Available
<1> QED BY <1>1, <1>2, <1>3, <1>4, Steps

\* The client's flags agree with its phase and with the state of the host.
LEMMA ClientPhaseStep ==
    ASSUME TypeOK, ClientPhase, [Next]_vars
    PROVE  ClientPhase'
<1> USE DEF ClientPhase, LossIsReal
<1>0. /\ Len(reqs) \in Nat /\ reqs \in Seq(Kinds) /\ losses \in Nat /\ awaiting \in Nat
      /\ peer \in {"open", "fin", "rst"} /\ conn \in {"none", "open", "closed"}
      /\ connected \in BOOLEAN /\ timer \in BOOLEAN
  BY DEF TypeOK, LinkTypeOK, ClientTypeOK
<1>1. CASE SpawnHost
  BY <1>0, <1>1 DEF SpawnHost, HostStart, Spawn, linkVars, callVars
<1>2. CASE Handshake \/ HandshakeOther
  BY <1>0, <1>2 DEF Handshake, HandshakeOther, Connect, hostVars, callVars
<1>3. ASSUME UNCHANGED <<hostVars, server>>, CallStep
      PROVE  ClientPhase'
  <2> USE <1>0, <1>3 DEF hostVars, Return, callVars, linkVars
  <2>1. CASE DrainHeader
    BY <2>1 DEF DrainHeader
  <2>2. CASE DrainPayload
    BY <2>2 DEF DrainPayload
  <2>3. CASE DrainDropped
    BY <2>3 DEF DrainDropped, PollDrops
  <2>4. CASE SendRequest
    BY <2>4 DEF SendRequest, Send
  <2>5. CASE ReadHeader
    BY <2>5 DEF ReadHeader
  <2>6. CASE HeaderTimeout \/ PayloadTimeout
    BY <2>6 DEF HeaderTimeout, PayloadTimeout
  <2>7. CASE ReadPayload
    BY <2>7 DEF ReadPayload
  <2>8. CASE ConnectionLost
    BY <2>8 DEF ConnectionLost, PollDrops
  <2> QED BY <2>1, <2>2, <2>3, <2>4, <2>5, <2>6, <2>7, <2>8 DEF CallStep
<1>4. ASSUME ClientOther
      PROVE  ClientPhase'
  <2> USE <1>0 DEF hostVars, callVars, clientVars, linkVars
  <2>1. UNCHANGED <<hostVars, server>>
    BY <1>4 DEF ClientOther
  <2>2. CASE SpawnFails \/ GiveUp
    BY <2>1, <2>2 DEF SpawnFails, GiveUp
  <2>3. CASE StartCall \/ CallNotConnected
    BY <2>1, <2>3 DEF StartCall, CallNotConnected
  <2>4. CASE HealthPing
    BY <2>1, <2>4 DEF HealthPing, Send, Awaiting
  <2>5. CASE Shutdown
    <3>1. CASE connected
      <4>1. cpc = "idle" /\ cpc' = "closing" /\ timer' = FALSE /\ UNCHANGED <<connected, callVars>>
        BY <2>5, <3>1 DEF Shutdown
      <4>2. Send("shutdown")
        BY <2>5, <3>1 DEF Shutdown
      <4>3. UNCHANGED peer \/ (peer' = "rst" /\ peer = "fin")
        BY <4>2 DEF Send
      <4>4. UNCHANGED conn \/ (conn' = "closed" /\ conn = "open" /\ peer = "rst")
        BY <4>2 DEF Send
      <4> QED BY <2>1, <3>1, <4>1, <4>3, <4>4
    <3>2. CASE ~connected
      BY <2>1, <2>5, <3>2 DEF Shutdown
    <3> QED BY <3>1, <3>2
  <2>6. CASE ShutdownDone
    BY <2>1, <2>6 DEF ShutdownDone
  <2>7. CASE Notification
    <3>1. cpc' = "gone" /\ connected' = FALSE /\ UNCHANGED <<peer, losses>>
      BY <2>7 DEF Notification
    <3>2. cpc # "down" /\ (conn' = "none" <=> conn = "none")
      BY <2>7 DEF Notification, Awaiting
    <3> QED BY <2>1, <3>1, <3>2
  <2> QED BY <1>4, <2>2, <2>3, <2>4, <2>5, <2>6, <2>7 DEF ClientOther
<1>5. CASE HostRun \/ HostDies
  BY <1>0, <1>5, HostFootprint DEF clientVars, callVars
<1>6. CASE UNCHANGED vars
  BY <1>6 DEF vars, linkVars, clientVars, callVars, hostVars
<1>7. CASE OtherCloses
  BY <1>0, <1>7 DEF OtherCloses, clientVars, callVars, hostVars
<1> QED BY <1>1, <1>2, <1>3, <1>4, <1>5, <1>6, <1>7, Steps DEF ClientCall

\* Beginning a response does not change where the earlier ones stand, nor what
\* is due at a position the stream has already reached.
LEMMA DueAfterDispatch ==
    ASSUME TypeOK, StreamOrder, Dispatch, UNCHANGED <<awaiting, clean>>,
           NEW p \in Nat, p <= Written, DueAt(p)
    PROVE  DueAt(p)'
<1>0. frames \in Seq(Frame) /\ Len(frames) \in Nat /\ Written \in Nat /\ awaiting \in Nat
      /\ DOMAIN frames = 1 .. Len(frames)
  BY StreamTypes DEF TypeOK, LinkTypeOK, ClientTypeOK
<1>1. PICK n \in Nat :
           /\ Len(frames') = Len(frames) + 1
           /\ DOMAIN frames' = 1 .. Len(frames) + 1
           /\ \A k \in DOMAIN frames : frames'[k] = frames[k]
           /\ frames'[Len(frames) + 1] = [answers |-> taken, start |-> Written, len |-> n]
           /\ Written' = Written + Header + n
  BY DispatchAppends
<1>2. CASE Len(frames) >= awaiting - 1
  <2>1. awaiting \in 1 .. Len(frames) + 1
    BY <1>0, <1>2 DEF DueAt
  <2>2. StartOf(awaiting)' = StartOf(awaiting)
    BY <1>0, <1>1, <2>1 DEF StartOf
  <2> QED BY <1>0, <1>1, <1>2, <2>2 DEF DueAt
<1>3. CASE ~(Len(frames) >= awaiting - 1)
  <2>1. ~clean /\ awaiting >= Len(frames) + 2
    BY <1>0, <1>3 DEF DueAt
  <2>2. ASSUME Len(frames') >= awaiting - 1
        PROVE  p < StartOf(awaiting)'
    <3>1. awaiting = Len(frames) + 2
      BY <1>0, <1>1, <2>1, <2>2
    <3>2. awaiting' = awaiting
      OBVIOUS
    <3>3. StartOf(awaiting)' = End(frames'[Len(frames) + 1])
      BY <1>0, <3>1, <3>2 DEF StartOf, End
    <3>4. End(frames'[Len(frames) + 1]) = Written + Header + n
      BY <1>1 DEF End
    <3> QED BY <1>0, <3>3, <3>4 DEF Header
  <2> QED BY <1>0, <2>1, <2>2 DEF DueAt
<1> QED BY <1>2, <1>3

\* A waiting call stands at its own response if and only if nothing was owed.
LEMMA ReplyDueStep ==
    ASSUME TypeOK, HostOrder, StreamOrder, ClientPhase, ReplyDue, [Next]_vars
    PROVE  ReplyDue'
<1>0. /\ frames \in Seq(Frame) /\ Len(frames) \in Nat /\ DOMAIN frames = 1 .. Len(frames)
      /\ Len(reqs) \in Nat /\ Written \in Nat /\ consumed \in Nat /\ awaiting \in Nat
      /\ need \in Nat /\ taken \in Nat /\ arrived \in Nat
  BY StreamTypes DEF TypeOK, LinkTypeOK, ClientTypeOK, HostTypeOK
<1>1. ASSUME UNCHANGED <<frames, consumed, awaiting, clean, last, got>>,
             cpc' = cpc \/ cpc' \notin {"header", "payload"}
      PROVE  ReplyDue'
  <2>1. cpc' = "header" => DueAt(consumed)'
    BY <1>1 DEF ReplyDue, DueAt, StartOf, End
  <2>2. cpc' = "payload" => (consumed >= Header /\ DueAt(consumed - Header))'
    BY <1>1 DEF ReplyDue, DueAt, StartOf, End
  <2>3. OwnReplyIffNothingOwed'
    BY <1>1, Zenon DEF ReplyDue, OwnReplyIffNothingOwed
  <2> QED BY <2>1, <2>2, <2>3 DEF ReplyDue
<1>2. ASSUME cpc' \notin {"header", "payload"}, last' # "reply"
      PROVE  ReplyDue'
  BY <1>2 DEF ReplyDue, OwnReplyIffNothingOwed
<1>3. CASE SpawnHost \/ OtherCloses \/ (Handshake \/ HandshakeOther) \/ UNCHANGED vars
  BY <1>1, <1>3 DEF SpawnHost, HostStart, OtherCloses, Handshake, HandshakeOther, Spawn, Connect, vars, linkVars, clientVars,
                    callVars
<1>4. CASE DrainHeader \/ DrainPayload \/ DrainDropped
  BY <1>2, <1>4 DEF DrainHeader, DrainPayload, DrainDropped, callVars, ClientPhase
<1>5. CASE SendRequest
  <2>1. awaiting' = Len(reqs) + 1 /\ UNCHANGED <<frames, consumed>> /\ cpc' = "header"
        /\ last' = "pending"
    BY <1>5 DEF SendRequest, ClientPhase
  <2>2. clean' <=> consumed = Written /\ Len(frames) = Len(reqs)
    BY <1>5, Zenon DEF SendRequest
  <2>3. consumed <= Written /\ Len(frames) <= Len(reqs)
    <3>1. consumed <= arrived /\ arrived <= Written
      BY DEF StreamOrder
    <3>2. Len(frames) <= taken /\ taken <= Len(reqs)
      BY DEF HostOrder
    <3> QED BY <1>0, <3>1, <3>2
  <2>4. Len(frames) = Len(reqs) => StartOf(Len(reqs) + 1) = Written
    BY FrameBounds
  <2>5. StartOf(awaiting)' = StartOf(Len(reqs) + 1)
    BY <2>1 DEF StartOf, End
  <2>6. DueAt(consumed)'
    <3>1. CASE consumed = Written /\ Len(frames) = Len(reqs)
      <4>1. clean'
        BY <2>2, <3>1
      <4> QED BY <1>0, <2>1, <2>4, <2>5, <3>1, <4>1 DEF DueAt
    <3>2. CASE ~(consumed = Written /\ Len(frames) = Len(reqs))
      <4>1. ~clean'
        BY <2>2, <3>2
      <4> QED BY <1>0, <2>1, <2>3, <2>4, <2>5, <3>2, <4>1 DEF DueAt
    <3> QED BY <3>1, <3>2
  <2> QED BY <2>1, <2>6 DEF ReplyDue, OwnReplyIffNothingOwed
<1>6. CASE ReadHeader
  <2>1. consumed' = consumed + Header /\ UNCHANGED <<frames, awaiting, got, clean>>
        /\ cpc = "header" /\ last = "pending"
    BY <1>6 DEF ReadHeader, ClientPhase
  <2>2. \/ cpc' = "payload" /\ last' = last
        \/ cpc' = "idle" /\ last' = "badLength"
    BY <1>6 DEF ReadHeader, Return
  <2>3. CASE cpc' = "payload" /\ last' = last
    <3>1. consumed' >= Header /\ consumed' - Header = consumed
      BY <1>0, <2>1 DEF Header
    <3>2. DueAt(consumed)
      BY <2>1 DEF ReplyDue
    <3>3. DueAt(consumed - Header)'
      BY <2>1, <3>1, <3>2 DEF DueAt, StartOf, End
    <3> QED BY <2>1, <2>3, <3>1, <3>3 DEF ReplyDue, OwnReplyIffNothingOwed
  <2>4. CASE cpc' = "idle" /\ last' = "badLength"
    BY <1>2, <2>4
  <2> QED BY <2>2, <2>3, <2>4
<1>7. CASE ReadPayload
  <2>1. cpc = "payload" /\ UNCHANGED <<frames, awaiting, clean>>
    BY <1>7 DEF ReadPayload
  <2>2. CASE Return("badJson")
    BY <1>2, <2>2 DEF Return
  <2>3. CASE \E k \in FramesAt(consumed - Header) :
               got' = frames[k].answers /\ Return("reply")
    <3>1. PICK k \in DOMAIN frames : /\ frames[k].start = consumed - Header
                                     /\ got' = frames[k].answers /\ Return("reply")
      BY <2>3 DEF FramesAt
    <3>2. got' = k /\ consumed - Header = StartOf(k)
      BY <3>1 DEF StreamOrder
    <3>3. DueAt(StartOf(k))
      BY <2>1, <3>2 DEF ReplyDue
    <3>4. Len(frames) <= awaiting
      <4>1. Len(reqs) <= awaiting
        BY <2>1 DEF ClientPhase
      <4>2. Len(frames) <= taken /\ taken <= Len(reqs)
        BY DEF HostOrder
      <4> QED BY <1>0, <4>1, <4>2
    <3>5. StartOf(k) \in Nat /\ End(frames[k]) > StartOf(k)
      BY <1>0, <3>1, <3>2, FrameBounds DEF Header
    <3>6. k = awaiting <=> clean
      <4>1. CASE clean
        <5>1. StartOf(k) = StartOf(awaiting) /\ Len(frames) >= awaiting - 1
          BY <3>3, <4>1 DEF DueAt
        <5>2. k < awaiting => End(frames[k]) <= StartOf(awaiting)
          BY <1>0, <5>1, FrameBounds
        <5>3. k \in Nat /\ k <= Len(frames)
          BY <1>0
        <5>4. k >= awaiting
          <6>1. StartOf(k) < End(frames[k]) /\ End(frames[k]) \in Nat
            BY <3>5, StreamTypes DEF TypeOK
          <6>2. ~(End(frames[k]) <= StartOf(awaiting))
            BY <3>5, <5>1, <6>1
          <6> QED BY <1>0, <5>2, <5>3, <6>2
        <5>5. k = awaiting
          BY <1>0, <3>4, <5>3, <5>4
        <5> QED BY <4>1, <5>5
      <4>2. CASE ~clean
        BY <1>0, <3>3, <3>5, <4>2 DEF DueAt
      <4> QED BY <4>1, <4>2
    <3>7. cpc' = "idle" /\ last' = "reply"
      BY <3>1 DEF Return
    <3>8. OwnReplyIffNothingOwed'
      BY <2>1, <3>2, <3>6, Zenon DEF OwnReplyIffNothingOwed
    <3> QED BY <3>7, <3>8 DEF ReplyDue
  <2> QED BY <1>7, <2>2, <2>3 DEF ReadPayload
<1>8. CASE HeaderTimeout \/ PayloadTimeout \/ ConnectionLost
  BY <1>2, <1>8 DEF HeaderTimeout, PayloadTimeout, ConnectionLost, Return
<1>9. CASE ClientOther
  <2>1. CASE StartCall \/ CallNotConnected
    BY <1>2, <2>1 DEF StartCall, CallNotConnected
  <2>2. CASE SpawnFails \/ GiveUp \/ HealthPing \/ Shutdown \/ ShutdownDone \/ Notification
    BY <1>1, <2>2 DEF SpawnFails, GiveUp, HealthPing, Shutdown, ShutdownDone, Notification,
                      linkVars, clientVars, callVars
  <2> QED BY <1>9, <2>1, <2>2 DEF ClientOther
<1>10. CASE (HostRun \/ HostDies) /\ ~Dispatch
  <2>1. UNCHANGED <<frames, consumed, clientVars>>
    BY <1>10, HostFootprint
  <2> QED BY <1>1, <2>1 DEF clientVars, callVars
<1>11. CASE (HostRun \/ HostDies) /\ Dispatch
  <2>1. UNCHANGED <<consumed, cpc, awaiting, clean, last, got>>
    BY <1>11, HostFootprint DEF clientVars, callVars
  <2>2. consumed <= Written
    BY <1>0 DEF StreamOrder, TypeOK, LinkTypeOK
  <2>3. ASSUME NEW p \in Nat, p <= Written, DueAt(p)
        PROVE  DueAt(p)'
    BY <1>11, <2>1, <2>3, DueAfterDispatch
  <2>4. ASSUME cpc' = "header" PROVE DueAt(consumed)'
    <3>1. DueAt(consumed)
      BY <2>1, <2>4 DEF ReplyDue
    <3>2. PICK p \in Nat : p = consumed
      BY <1>0
    <3>3. DueAt(p)'
      BY <2>2, <2>3, <3>1, <3>2
    <3> QED BY <2>1, <3>2, <3>3 DEF DueAt
  <2>5. ASSUME cpc' = "payload" PROVE (consumed >= Header /\ DueAt(consumed - Header))'
    <3>1. consumed >= Header /\ DueAt(consumed - Header)
      BY <2>1, <2>5 DEF ReplyDue
    <3>2. PICK p \in Nat : p = consumed - Header
      BY <1>0, <3>1 DEF Header
    <3>3. DueAt(p)'
      BY <1>0, <2>2, <2>3, <3>1, <3>2 DEF Header
    <3> QED BY <2>1, <3>1, <3>2, <3>3 DEF DueAt
  <2>6. OwnReplyIffNothingOwed'
    BY <2>1, Zenon DEF ReplyDue, OwnReplyIffNothingOwed
  <2> QED BY <2>4, <2>5, <2>6 DEF ReplyDue
<1> QED
  BY <1>3, <1>4, <1>5, <1>6, <1>7, <1>8, <1>9, <1>10, <1>11, Steps DEF ClientCall, CallStep

\* In a gapless stream at most one header is at a position, and the end of a
\* frame is a boundary.
LEMMA Boundaries ==
    ASSUME TypeOK, StreamOrder
    PROVE  /\ \A p \in Nat : \A i \in FramesAt(p) : \A j \in FramesAt(p) : i = j
           /\ \A k \in DOMAIN frames : AtBoundary(End(frames[k]))
           /\ \A p \in Nat : AtBoundary(p) /\ p < Written =>
                \A w \in Words(p) : AtBoundary(p + Header + w)
<1>0. frames \in Seq(Frame) /\ Len(frames) \in Nat /\ DOMAIN frames = 1 .. Len(frames)
  BY DEF TypeOK, LinkTypeOK
<1>1. ASSUME NEW p \in Nat, NEW i \in FramesAt(p), NEW j \in FramesAt(p)
      PROVE  i = j
  <2>1. ASSUME NEW a \in FramesAt(p), NEW b \in FramesAt(p), a < b
        PROVE  FALSE
    <3>1. a \in DOMAIN frames /\ b \in DOMAIN frames /\ frames[a].start = p /\ frames[b].start = p
      BY DEF FramesAt
    <3>2. End(frames[a]) <= p
      BY <2>1, <3>1 DEF StreamOrder
    <3> QED BY <3>1, <3>2, FrameBounds DEF Header
  <2> QED BY <1>0, <2>1 DEF FramesAt
<1>2. ASSUME NEW k \in DOMAIN frames
      PROVE  AtBoundary(End(frames[k]))
  <2>1. CASE k = Len(frames)
    BY <1>0, <2>1 DEF AtBoundary, Written
  <2>2. CASE k # Len(frames)
    <3>1. k + 1 \in DOMAIN frames
      BY <1>0, <2>2
    <3>2. frames[k + 1].start = End(frames[k])
      BY <1>0, <3>1 DEF StreamOrder, StartOf
    <3> QED BY <3>1, <3>2 DEF AtBoundary, FramesAt
  <2> QED BY <2>1, <2>2
<1>3. ASSUME NEW p \in Nat, AtBoundary(p), p < Written, NEW w \in Words(p)
      PROVE  AtBoundary(p + Header + w)
  <2>1. FramesAt(p) # {}
    BY <1>3, StreamTypes DEF AtBoundary, TypeOK
  <2>2. PICK k \in DOMAIN frames : frames[k].start = p /\ w = frames[k].len
    BY <2>1 DEF Words, FramesAt
  <2>3. End(frames[k]) = p + Header + w
    BY <2>2 DEF End
  <2> QED BY <1>2, <2>3
<1> QED BY <1>1, <1>2, <1>3

\* A response once returned stays behind the client's position.
LEMMA SeenStep ==
    ASSUME TypeOK, HostOrder, StreamOrder, Seen, [Next]_vars
    PROVE  Seen'
<1>0. /\ frames \in Seq(Frame) /\ Len(frames) \in Nat /\ DOMAIN frames = 1 .. Len(frames)
      /\ Written \in Nat /\ consumed \in Nat /\ arrived \in Nat /\ need \in Nat
      /\ got \in Nat /\ RcvBuf \in Nat /\ consumed <= arrived /\ arrived <= Written
      /\ arrived - consumed <= RcvBuf
  BY StreamTypes, LinkAssumption
     DEF TypeOK, LinkTypeOK, ClientTypeOK, StreamOrder, LinkAssumption, Available
<1>1. ASSUME UNCHANGED <<frames, consumed, cpc, need, got>>
      PROVE  Seen'
  BY <1>1 DEF Seen, FramesAt, MessageStart, End
<1>2. ASSUME UNCHANGED <<frames, got>>, cpc' # "payload",
             NEW c \in Nat, c = consumed', consumed <= c
      PROVE  Seen'
  <2>1. MessageStart \in Int /\ MessageStart <= c
    BY <1>0, <1>2 DEF MessageStart, Header
  <2>2. MessageStart' = c
    BY <1>2, Zenon DEF MessageStart
  <2>3. ASSUME got > 0 PROVE End(frames[got]) <= c
    <3>1. got \in DOMAIN frames /\ End(frames[got]) <= MessageStart
      BY <2>3 DEF Seen
    <3>2. End(frames[got]) \in Nat
      BY <3>1, StreamTypes DEF TypeOK
    <3> QED BY <2>1, <3>1, <3>2
  <2>4. got > 0 => got \in DOMAIN frames /\ frames[got].len <= RcvBuf
    BY DEF Seen
  <2> QED BY <1>2, <2>2, <2>3, <2>4 DEF Seen, End
<1>3. CASE SpawnHost \/ OtherCloses \/ (Handshake \/ HandshakeOther) \/ UNCHANGED vars
  <2>1. \/ UNCHANGED <<frames, consumed, cpc, need, got>>
        \/ UNCHANGED <<frames, consumed, got>> /\ cpc' # "payload"
    BY <1>3 DEF SpawnHost, HostStart, OtherCloses, Handshake, HandshakeOther, Spawn, Connect, vars, linkVars, clientVars, callVars
  <2> QED BY <1>0, <1>1, <1>2, <2>1
<1>4. CASE (ClientCall \/ ClientOther) /\ ~ReadHeader /\ ~ReadPayload
  <2>1. UNCHANGED frames /\ consumed' \in Nat /\ consumed <= consumed'
    BY <1>0, <1>4, ClientFootprint
  <2>2. UNCHANGED got /\ (cpc' # "payload" \/ UNCHANGED <<consumed, cpc, need>>)
    <3>1. CASE ClientCall
      BY <1>4, <3>1 DEF ClientCall, CallStep, DrainHeader, DrainPayload, DrainDropped,
         SendRequest, HeaderTimeout, PayloadTimeout, ConnectionLost, Return, callVars
    <3>2. CASE ClientOther
      BY <1>4, <3>2 DEF ClientOther, SpawnFails, GiveUp, StartCall, CallNotConnected,
         HealthPing, Shutdown, ShutdownDone, Notification, linkVars, clientVars, callVars
    <3> QED BY <1>4, <3>1, <3>2
  <2>3. CASE cpc' # "payload"
    BY <1>2, <2>1, <2>2, <2>3
  <2>4. CASE UNCHANGED <<consumed, cpc, need>>
    BY <1>1, <2>1, <2>2, <2>4
  <2> QED BY <2>2, <2>3, <2>4
<1>5. CASE ReadHeader
  <2>1. PICK w \in Words(consumed) :
          IF 0 < w /\ w <= MaxFrame
            THEN /\ cpc' = "payload" /\ need' = w
                 /\ UNCHANGED <<timer, last, split>>
            ELSE /\ Return("badLength")
                 /\ split' = (split \/ ~AtBoundary(consumed'))
                 /\ UNCHANGED need
    BY <1>5 DEF ReadHeader
  <2>2. cpc = "header" /\ consumed' = consumed + Header /\ UNCHANGED <<frames, got>>
    BY <1>5 DEF ReadHeader
  <2>3. PICK c \in Nat : c = consumed' /\ c - Header = consumed
    BY <1>0, <2>2 DEF Header
  <2>4. CASE cpc' = "payload" /\ need' = w
    <3>1. \A k \in FramesAt(consumed) : frames[k].len = w
      <4>1. ASSUME NEW k \in FramesAt(consumed) PROVE frames[k].len = w
        <5>1. PICK j \in FramesAt(consumed) : w = frames[j].len
          BY <2>1, <4>1 DEF Words
        <5> QED BY <1>0, <5>1, Boundaries
      <4> QED BY <4>1
    <3>2. MessageStart = consumed /\ MessageStart' = consumed
      BY <2>2, <2>3, <2>4 DEF MessageStart
    <3>3. (\A k \in FramesAt(consumed - Header) : frames[k].len = need)'
      BY <2>2, <2>3, <2>4, <3>1 DEF FramesAt
    <3> QED BY <2>2, <2>4, <3>2, <3>3 DEF Seen, End
  <2>5. CASE Return("badLength")
    BY <1>0, <1>2, <2>2, <2>3, <2>5 DEF Return, Header
  <2> QED BY <2>1, <2>4, <2>5
<1>6. CASE ReadPayload
  <2>1. /\ cpc = "payload" /\ Available >= need
        /\ consumed' = consumed + need /\ UNCHANGED frames
    BY <1>6 DEF ReadPayload
  <2>2. PICK c \in Nat : c = consumed' /\ c = consumed + need
    BY <1>0, <2>1
  <2>3. CASE \E k \in FramesAt(consumed - Header) :
               got' = frames[k].answers /\ Return("reply")
    <3>1. PICK k \in FramesAt(consumed - Header) :
                 got' = frames[k].answers /\ Return("reply")
      BY <2>3
    <3>2. k \in DOMAIN frames /\ frames[k].start = consumed - Header /\ frames[k].answers = k
      BY <3>1 DEF FramesAt, StreamOrder
    <3>3. frames[k].len = need
      BY <2>1, <3>1 DEF Seen
    <3>4. End(frames[k]) = c
      <4>1. End(frames[k]) = frames[k].start + Header + frames[k].len
        BY <3>2, FrameBounds
      <4> QED BY <1>0, <2>2, <3>2, <3>3, <4>1 DEF Header
    <3>5. need <= RcvBuf
      BY <1>0, <2>1 DEF Available
    <3>6. got' = k /\ cpc' = "idle"
      BY <3>1, <3>2 DEF Return
    <3>7. MessageStart' = c
      BY <2>2, <3>6, Zenon DEF MessageStart
    <3> QED BY <1>0, <2>1, <2>2, <3>2, <3>3, <3>4, <3>5, <3>6, <3>7 DEF Seen, End
  <2>4. CASE Return("badJson") /\ UNCHANGED got
    BY <1>0, <1>2, <2>1, <2>2, <2>4 DEF Return
  <2> QED BY <1>6, <2>3, <2>4 DEF ReadPayload
<1>7. CASE (HostRun \/ HostDies) /\ ~Dispatch
  <2>1. UNCHANGED <<frames, consumed, cpc, need, got>>
    BY <1>7, HostFootprint DEF clientVars, callVars
  <2> QED BY <1>1, <2>1
<1>8. CASE (HostRun \/ HostDies) /\ Dispatch
  <2>1. UNCHANGED <<consumed, cpc, need, got>>
    BY <1>8, HostFootprint DEF clientVars, callVars
  <2>2. PICK n \in Nat :
             /\ Len(frames') = Len(frames) + 1
             /\ DOMAIN frames' = 1 .. Len(frames) + 1
             /\ \A k \in DOMAIN frames : frames'[k] = frames[k]
             /\ frames'[Len(frames) + 1] = [answers |-> taken, start |-> Written, len |-> n]
             /\ Written' = Written + Header + n
    BY <1>8, DispatchAppends
  <2>3. FramesAt(consumed - Header)' = FramesAt(consumed - Header)
    BY <1>0, <2>1, <2>2 DEF FramesAt, Header
  <2>4. MessageStart' = MessageStart
    BY <2>1 DEF MessageStart
  <2>5. FramesAt(consumed - Header) \subseteq DOMAIN frames
    BY DEF FramesAt
  <2>6. got > 0 => got \in DOMAIN frames /\ got \in DOMAIN frames' /\ frames'[got] = frames[got]
    BY <1>0, <2>2 DEF Seen
  <2> QED BY <1>0, <2>1, <2>2, <2>3, <2>4, <2>5, <2>6 DEF Seen, End
<1> QED BY <1>3, <1>4, <1>5, <1>6, <1>7, <1>8, Steps

\* A client that has not abandoned a message stands at a frame boundary, or
\* will once it has read the message it is in.
LEMMA FramingStep ==
    ASSUME TypeOK, HostOrder, StreamOrder, ClientPhase, Framing, [Next]_vars
    PROVE  Framing'
<1>0. /\ frames \in Seq(Frame) /\ Len(frames) \in Nat /\ DOMAIN frames = 1 .. Len(frames)
      /\ Written \in Nat /\ consumed \in Nat /\ arrived \in Nat /\ need \in Nat
      /\ consumed <= arrived /\ arrived <= Written
  BY StreamTypes DEF TypeOK, LinkTypeOK, ClientTypeOK, StreamOrder
<1>1. ASSUME UNCHANGED <<frames, split>>, MessageEnd' = MessageEnd,
             conn' = "open" => conn = "open"
      PROVE  Framing'
  <2>1. Written' = Written /\ (\A p \in {MessageEnd} : FramesAt(p)' = FramesAt(p))
    BY <1>1 DEF Written, FramesAt, End
  <2>2. AtBoundary(MessageEnd)' <=> AtBoundary(MessageEnd)
    BY <1>1, <2>1 DEF AtBoundary, FramesAt
  <2> QED BY <1>1, <2>2, Zenon DEF Framing
<1>2. ASSUME conn' # "open" \/ split'
      PROVE  Framing'
  BY <1>2, Zenon DEF Framing
<1>3. CASE SpawnHost \/ OtherCloses \/ UNCHANGED vars
  <2>1. UNCHANGED <<frames, split, conn>> /\ MessageEnd' = MessageEnd
    BY <1>3 DEF SpawnHost, HostStart, Spawn, OtherCloses, vars, linkVars, clientVars, callVars, MessageEnd
  <2> QED BY <1>1, <2>1
<1>4. CASE Handshake \/ HandshakeOther
  <2>1. UNCHANGED <<frames, consumed>> /\ cpc' = "idle" /\ reqs = <<>>
    BY <1>4 DEF Handshake, HandshakeOther, Connect, ClientPhase
  <2>2. frames = <<>>
    <3>1. Len(frames) <= taken /\ taken <= Len(reqs)
      BY DEF HostOrder
    <3>2. Len(reqs) = 0 /\ taken \in Nat
      BY <2>1 DEF TypeOK, HostTypeOK
    <3>3. Len(frames) = 0
      BY <1>0, <3>1, <3>2
    <3> QED BY <1>0, <3>3
  <2>3. consumed = Written /\ Written' = Written
    BY <1>0, <2>1, <2>2 DEF Written
  <2>4. MessageEnd' = Written'
    BY <2>1, <2>3 DEF MessageEnd
  <2> QED BY <2>4 DEF Framing, AtBoundary
<1>5. CASE DrainHeader \/ ReadHeader
  <2>1. PICK w \in Words(consumed) :
          \/ cpc' \in {"drainPayload", "payload"} /\ need' = w /\ UNCHANGED split
          \/ cpc' \notin {"drainPayload", "payload"}
             /\ split' = (split \/ ~AtBoundary(consumed'))
    BY <1>5 DEF DrainHeader, ReadHeader, Return
  <2>2. /\ cpc \in {"drain", "header"} /\ conn = "open" /\ Available >= Header
        /\ consumed' = consumed + Header /\ UNCHANGED <<frames, conn>>
    BY <1>5 DEF DrainHeader, ReadHeader
  <2>3. MessageEnd = consumed /\ consumed < Written /\ w \in Nat
    BY <1>0, <2>1, <2>2, StreamTypes DEF MessageEnd, Available, Header, TypeOK
  <2>4. \A p : AtBoundary(p)' <=> AtBoundary(p)
    BY <2>2 DEF AtBoundary, FramesAt, Written, End
  <2>5. CASE cpc' \in {"drainPayload", "payload"} /\ need' = w /\ UNCHANGED split
    <3>1. split \/ AtBoundary(consumed)
      BY <2>2, <2>3 DEF Framing
    <3>2. AtBoundary(consumed) => AtBoundary(consumed + Header + w)
      BY <1>0, <2>1, <2>3, Boundaries
    <3>3. PICK p \in Nat : p = MessageEnd' /\ p = consumed + Header + w
      BY <1>0, <2>2, <2>3, <2>5 DEF MessageEnd, Header
    <3>4. AtBoundary(consumed + Header + w) => AtBoundary(p)'
      BY <2>4, <3>3
    <3>5. AtBoundary(p)' => AtBoundary(MessageEnd)'
      BY <3>3 DEF AtBoundary
    <3> QED BY <2>5, <3>1, <3>2, <3>4, <3>5, Zenon DEF Framing
  <2>6. CASE cpc' \notin {"drainPayload", "payload"}
             /\ split' = (split \/ ~AtBoundary(consumed'))
    <3>1. split' \/ AtBoundary(consumed')
      BY <2>6, Zenon
    <3>2. MessageEnd' = consumed'
      BY <2>6, Zenon DEF MessageEnd
    <3>3. PICK c \in Nat : c = consumed'
      BY <1>0, <2>2 DEF Header
    <3>4. AtBoundary(consumed') => AtBoundary(c)'
      BY <2>4, <3>3
    <3>5. AtBoundary(c)' => AtBoundary(MessageEnd)'
      BY <3>2, <3>3, Zenon DEF AtBoundary
    <3> QED BY <3>1, <3>4, <3>5, Zenon DEF Framing
  <2> QED BY <2>1, <2>5, <2>6
<1>6. CASE DrainPayload
  <2>1. PICK n \in Nat : /\ n <= need /\ consumed' = consumed + n /\ need' = need - n
                         /\ cpc' = IF n = need THEN "drain" ELSE cpc
    <3>1. CASE Available < need
      BY <1>0, <1>6, <3>1 DEF DrainPayload, Available
    <3>2. CASE ~(Available < need)
      BY <1>0, <1>6, <3>2 DEF DrainPayload, Available
    <3> QED BY <3>1, <3>2
  <2>2. cpc = "drainPayload" /\ UNCHANGED <<frames, split, conn>>
    BY <1>6 DEF DrainPayload
  <2>3. MessageEnd = consumed + need
    BY <2>2 DEF MessageEnd
  <2>4. PICK c \in Nat, d \in Nat : c = consumed' /\ d = need' /\ c + d = consumed + need
                                    /\ (n = need => d = 0)
    BY <1>0, <2>1
  <2>5. MessageEnd' = IF n = need THEN c ELSE c + d
    BY <2>1, <2>2, <2>4, Zenon DEF MessageEnd
  <2>6. MessageEnd' = MessageEnd
    <3>1. (IF n = need THEN c ELSE c + d) = consumed + need
      BY <2>4
    <3> QED BY <2>3, <2>5, <3>1, Zenon
  <2> QED BY <1>1, <2>2, <2>6
<1>7. CASE ReadPayload
  <2>1. cpc = "payload" /\ consumed' = consumed + need /\ UNCHANGED <<frames, split, conn>>
    BY <1>7 DEF ReadPayload
  <2>2. cpc' = "idle"
    BY <1>7 DEF ReadPayload, Return
  <2>3. MessageEnd' = MessageEnd
    BY <2>1, <2>2, Zenon DEF MessageEnd
  <2> QED BY <1>1, <2>1, <2>3
<1>8. CASE DrainDropped \/ PayloadTimeout \/ ConnectionLost \/ ShutdownDone \/ Notification
  BY <1>2, <1>8, Zenon DEF DrainDropped, PayloadTimeout, ConnectionLost, ShutdownDone, Notification
<1>9. CASE SendRequest \/ HeaderTimeout \/ (ClientOther /\ ~ShutdownDone /\ ~Notification)
  <2>1. UNCHANGED <<frames, split, consumed, need>> /\ (conn' = "open" => conn = "open")
    BY <1>9 DEF SendRequest, HeaderTimeout, Send, ClientOther, SpawnFails, GiveUp, StartCall,
       CallNotConnected, HealthPing, Shutdown, linkVars, clientVars, callVars
  <2>2. \/ cpc' = cpc
        \/ {cpc, cpc'} \cap {"drainPayload", "payload"} = {}
    BY <1>9 DEF SendRequest, HeaderTimeout, Return, ClientOther, SpawnFails, GiveUp, StartCall,
       CallNotConnected, HealthPing, Shutdown, linkVars, clientVars, callVars
  <2>3. MessageEnd' = MessageEnd
    BY <2>1, <2>2 DEF MessageEnd
  <2> QED BY <1>1, <2>1, <2>3
<1>10. CASE (HostRun \/ HostDies) /\ ~Dispatch
  <2>1. UNCHANGED <<frames, consumed, conn, clientVars>>
    BY <1>10, HostFootprint
  <2>2. MessageEnd' = MessageEnd /\ UNCHANGED split
    BY <2>1 DEF clientVars, callVars, MessageEnd
  <2> QED BY <1>1, <2>1, <2>2
<1>11. CASE (HostRun \/ HostDies) /\ Dispatch
  <2>1. UNCHANGED <<consumed, conn, clientVars>>
    BY <1>11, HostFootprint
  <2>2. MessageEnd' = MessageEnd /\ UNCHANGED split
    BY <2>1 DEF clientVars, callVars, MessageEnd
  <2>3. PICK n \in Nat :
             /\ Len(frames') = Len(frames) + 1
             /\ DOMAIN frames' = 1 .. Len(frames) + 1
             /\ \A k \in DOMAIN frames : frames'[k] = frames[k]
             /\ frames'[Len(frames) + 1] = [answers |-> taken, start |-> Written, len |-> n]
             /\ Written' = Written + Header + n
    BY <1>11, DispatchAppends
  <2>4. AtBoundary(MessageEnd) => AtBoundary(MessageEnd)'
    <3>1. CASE MessageEnd = Written
      <4>1. Len(frames) + 1 \in DOMAIN frames' /\ frames'[Len(frames) + 1].start = MessageEnd'
        BY <1>0, <2>2, <2>3, <3>1
      <4> QED BY <4>1 DEF AtBoundary, FramesAt
    <3>2. ASSUME NEW k \in FramesAt(MessageEnd)
          PROVE  AtBoundary(MessageEnd)'
      <4>1. k \in DOMAIN frames' /\ frames'[k].start = MessageEnd'
        BY <1>0, <2>2, <2>3 DEF FramesAt
      <4> QED BY <4>1 DEF AtBoundary, FramesAt
    <3> QED BY <3>1, <3>2 DEF AtBoundary
  <2> QED BY <2>1, <2>2, <2>4, Zenon DEF Framing
<1> QED
  BY <1>3, <1>4, <1>5, <1>6, <1>7, <1>8, <1>9, <1>10, <1>11, Steps DEF ClientCall, CallStep

(***************************************************************************)
(* The theorems                                                              *)
(***************************************************************************)

\* The invariant that makes the safety properties inductive holds throughout.
THEOREM Invariance == Spec => []IInv
<1>1. Init => IInv
  <2> SUFFICES ASSUME Init PROVE IInv
    OBVIOUS
  <2> USE DEF Init, LinkInit, ClientInit, HostInit
  <2>1. TypeOK
    <3>1. connected \in BOOLEAN /\ timer \in BOOLEAN /\ clean \in BOOLEAN /\ split \in BOOLEAN
      BY Zenon
    <3>2. ClientTypeOK
      BY <3>1 DEF ClientTypeOK, ClientPcs, Outcomes
    <3> QED BY <3>2 DEF TypeOK, LinkTypeOK, HostTypeOK, HostPcs
  <2>2. HostOrder
    BY DEF HostOrder
  <2>3. StreamOrder
    BY LinkAssumption DEF StreamOrder, Written, Available, LinkAssumption
  <2>4. ClientPhase
    <3>1. ~connected /\ ~timer
      BY Zenon
    <3> QED BY <3>1 DEF ClientPhase, LossIsReal
  <2>5. ReplyDue
    BY DEF ReplyDue, OwnReplyIffNothingOwed
  <2>6. Seen
    BY DEF Seen
  <2>7. Framing
    BY DEF Framing
  <2> QED BY <2>1, <2>2, <2>3, <2>4, <2>5, <2>6, <2>7 DEF IInv
<1>2. IInv /\ TypeOK' /\ [Next]_vars => IInv'
  <2> SUFFICES ASSUME IInv, TypeOK', [Next]_vars PROVE IInv'
    OBVIOUS
  <2>1. TypeOK /\ HostOrder /\ StreamOrder /\ ClientPhase /\ ReplyDue /\ Seen /\ Framing
    BY DEF IInv
  <2>2. consumed <= arrived
    BY <2>1 DEF StreamOrder
  <2> QED BY <2>1, <2>2, HostOrderStep, StreamOrderStep, ClientPhaseStep, ReplyDueStep, SeenStep,
             FramingStep DEF IInv
<1> QED BY <1>1, <1>2, TypeCorrect, PTL DEF Spec

\* The host answers every request once, in order, in adjoining frames.
THEOREM OrderedAnswers == Spec => []AnswersInOrder
<1>1. IInv => AnswersInOrder
  <2> SUFFICES ASSUME IInv PROVE AnswersInOrder
    OBVIOUS
  <2>1. Len(frames) \in Nat /\ Len(reqs) \in Nat /\ taken \in Nat
    BY DEF IInv, TypeOK, LinkTypeOK, HostTypeOK
  <2>2. Len(frames) <= taken /\ taken <= Len(reqs)
    BY DEF IInv, HostOrder
  <2> QED BY <2>1, <2>2 DEF IInv, StreamOrder, AnswersInOrder
<1> QED BY <1>1, Invariance, PTL

\* A call gets its own response if and only if nothing was owed when it sent.
THEOREM OwnReply == Spec => []OwnReplyIffNothingOwed
<1>1. IInv => OwnReplyIffNothingOwed
  BY DEF IInv, ReplyDue
<1> QED BY <1>1, Invariance, PTL

\* Only a message that was left behind takes the client off the frame
\* boundaries.
THEOREM FramingHolds == Spec => []FramingKept
<1>1. IInv => FramingKept
  <2> SUFFICES ASSUME IInv, cpc = "idle", conn = "open", ~split PROVE AtBoundary(consumed)
    BY DEF FramingKept
  <2> QED BY DEF IInv, Framing, MessageEnd
<1> QED BY <1>1, Invariance, PTL

\* While a call waits, the timer is stopped and no later request is on its way.
THEOREM PingsPaused == Spec => []NoPingDuringCall
<1>1. IInv => NoPingDuringCall
  BY DEF IInv, ClientPhase, NoPingDuringCall
<1> QED BY <1>1, Invariance, PTL

\* No response larger than the socket's buffer is ever delivered.
THEOREM DeliveryBound == Spec => []DeliveredFits
<1>1. IInv => DeliveredFits
  BY DEF IInv, Seen, DeliveredFits
<1> QED BY <1>1, Invariance, PTL

\* A reported loss is a loss, and it is reported once.
THEOREM LossesReal == Spec => []LossIsReal
<1>1. IInv => LossIsReal
  BY DEF IInv, ClientPhase
<1> QED BY <1>1, Invariance, PTL

\* What a caller may rely on around a call, all of it together: no ping behind a
\* waiting request, no response beyond the buffer, no loss that is none.
THEOREM CallsHold == Spec => []CallsSafe
<1>1. TypeOK /\ NoPingDuringCall /\ DeliveredFits /\ LossIsReal => CallsSafe
  BY DEF CallsSafe
<1> QED BY <1>1, TypeCorrect, PingsPaused, DeliveryBound, LossesReal, PTL

\* What the caller can rely on is RequestReply's promise: every step of the
\* bridge is one of its steps or invisible to the caller.
THEOREM Refinement == Spec => ImplementsRequestReply
<1>1. Init => RR!RRInit
  <2> SUFFICES ASSUME Init PROVE RR!RRInit
    OBVIOUS
  <2>1. connected = FALSE /\ got = 0 /\ reqs = <<>> /\ cpc = "down" /\ last = "none"
    BY DEF Init, LinkInit, ClientInit
  <2>2. Len(reqs) = 0 /\ Call = "idle"
    BY <2>1 DEF Call
  <2> QED BY <2>1, <2>2, Zenon DEF RR!RRInit
<1>2. IInv /\ [Next]_vars => [RR!RRNext]_(RR!rrVars)
  <2> SUFFICES ASSUME IInv, [Next]_vars PROVE RR!RRNext \/ UNCHANGED RR!rrVars
    OBVIOUS
  <2>0. /\ TypeOK /\ ClientPhase /\ Seen /\ HostOrder /\ StreamOrder
        /\ reqs \in Seq(Kinds) /\ Len(reqs) \in Nat /\ got \in Nat
        /\ connected \in BOOLEAN
    BY DEF IInv, TypeOK, LinkTypeOK, ClientTypeOK
  <2>00. cpc \in {"drain", "drainPayload", "header", "payload"} => last = "pending" /\ connected
    BY <2>0 DEF ClientPhase
  \* the shapes a step can have
  <2>1. ASSUME UNCHANGED <<reqs, connected, got>>, Call' = Call
        PROVE  UNCHANGED RR!rrVars
    <3>1. Len(reqs)' = Len(reqs)
      BY <2>1
    <3> QED BY <2>1, <3>1, Zenon DEF RR!rrVars
  <2>2. ASSUME UNCHANGED <<reqs, connected, got>>, Call = "waiting", Call' = "idle"
        PROVE  RR!Fail
    <3>1. Len(reqs)' = Len(reqs)
      BY <2>2
    <3> QED BY <2>2, <3>1, Zenon DEF RR!Fail
  <2>3. ASSUME NEW kind \in Kinds, Send(kind)
        PROVE  Len(reqs)' = Len(reqs) \/ Len(reqs)' = Len(reqs) + 1
    BY <2>0, <2>3 DEF Send
  <2>4. ASSUME connected, Call # "waiting", Call' = Call, UNCHANGED <<connected, got>>,
               NEW kind \in Kinds, Send(kind)
        PROVE  RR!Tell \/ UNCHANGED RR!rrVars
    <3>2. CASE Len(reqs)' = Len(reqs)
      BY <2>4, <3>2, Zenon DEF RR!rrVars
    <3>3. CASE Len(reqs)' = Len(reqs) + 1
      BY <2>4, <3>3, Zenon DEF RR!Tell
    <3> QED BY <2>3, <2>4, <3>2, <3>3
  <2>5. ASSUME connected' = FALSE, UNCHANGED got,
               Call' = IF Call = "waiting" THEN "idle" ELSE Call,
               \/ reqs' = reqs
               \/ connected /\ reqs' = Append(reqs, "shutdown")
        PROVE  RR!Hangup
    <3>1. Len(reqs)' \in {Len(reqs), IF connected THEN Len(reqs) + 1 ELSE Len(reqs)}
      <4>1. CASE reqs' = reqs
        BY <4>1
      <4>2. CASE connected /\ reqs' = Append(reqs, "shutdown")
        BY <2>0, <4>2
      <4> QED BY <2>5, <4>1, <4>2
    <3> QED BY <2>5, <3>1, Zenon DEF RR!Hangup
  <2>11. ASSUME UNCHANGED <<reqs, connected, got>>, Call # "waiting", Call' = "idle"
         PROVE  RR!Begin \/ UNCHANGED RR!rrVars
    <3>1. Len(reqs)' = Len(reqs)
      BY <2>11
    <3>2. CASE Call = "answered"
      BY <2>11, <3>1, <3>2, Zenon DEF RR!Begin
    <3>3. CASE Call = "idle"
      BY <2>11, <3>1, <3>3, Zenon DEF RR!rrVars
    <3> QED BY <2>11, <3>2, <3>3 DEF Call
  \* the steps
  <2>6. CASE SpawnHost \/ OtherCloses \/ UNCHANGED vars
    BY <2>1, <2>6 DEF SpawnHost, HostStart, Spawn, OtherCloses, vars, linkVars, clientVars, callVars, Call
  <2>7. CASE Handshake \/ HandshakeOther
    <3>1. /\ ~connected /\ connected' = TRUE /\ UNCHANGED <<reqs, got>>
          /\ Len(reqs) = 0 /\ Call' = Call
      BY <2>0, <2>7 DEF Handshake, HandshakeOther, Connect, ClientPhase, callVars, Call
    <3>2. Len(reqs)' = Len(reqs)
      BY <3>1, Zenon
    <3> QED BY <3>1, <3>2, Zenon DEF RR!RRNext, RR!Establish
  <2>8. CASE ClientCall
    <3>1. CASE DrainHeader \/ DrainPayload \/ DrainDropped
      <4>1. UNCHANGED <<reqs, connected, got, last>>
        BY <3>1 DEF DrainHeader, DrainPayload, DrainDropped, callVars
      <4>2. /\ cpc \in {"drain", "drainPayload"}
            /\ cpc' = "drain" \/ cpc' = "drainPayload" \/ cpc' = cpc
        BY <3>1 DEF DrainHeader, DrainPayload, DrainDropped
      <4>3. Call' = Call
        BY <2>00, <4>1, <4>2 DEF Call
      <4> QED BY <2>1, <4>1, <4>3
    <3>2. CASE SendRequest
      <4>1. connected /\ Call = "idle" /\ Call' = "waiting" /\ UNCHANGED <<connected, got>>
        BY <2>00, <3>2 DEF SendRequest, Call
      <4>2. Send("query") /\ "query" \in Kinds
        BY <3>2 DEF SendRequest, Kinds
      <4>3. Len(reqs)' \in {Len(reqs), Len(reqs) + 1}
        BY <2>3, <4>2
      <4> QED BY <4>1, <4>3, Zenon DEF RR!RRNext, RR!Ask
    <3>3. CASE ReadHeader
      <4>1. UNCHANGED <<reqs, connected, got>> /\ Call = "waiting"
        BY <3>3 DEF ReadHeader, Call
      <4>2. Call' = "waiting" \/ Call' = "idle"
        BY <3>3 DEF ReadHeader, Return, Call
      <4> QED BY <2>1, <2>2, <4>1, <4>2 DEF RR!RRNext
    <3>4. CASE HeaderTimeout \/ PayloadTimeout
      BY <2>2, <3>4 DEF HeaderTimeout, PayloadTimeout, Return, linkVars, RR!RRNext, Call
    <3>5. CASE ReadPayload
      <4>1. cpc = "payload" /\ UNCHANGED <<frames, reqs, connected>>
        BY <3>5 DEF ReadPayload
      <4>2. CASE Return("badJson") /\ UNCHANGED got
        BY <2>2, <4>1, <4>2 DEF Return, RR!RRNext, Call
      <4>3. CASE \E k \in FramesAt(consumed - Header) :
                   got' = frames[k].answers /\ Return("reply")
        <5>1. PICK k \in DOMAIN frames : /\ frames[k].start = consumed - Header
                                         /\ got' = frames[k].answers /\ Return("reply")
          BY <4>3 DEF FramesAt
        <5>2. got' = k
          BY <2>0, <5>1 DEF StreamOrder
        <5>3. k \in Nat /\ k <= Len(reqs)
          <6>1. Len(frames) \in Nat /\ taken \in Nat /\ DOMAIN frames = 1 .. Len(frames)
            BY <2>0 DEF TypeOK, LinkTypeOK, HostTypeOK
          <6>2. Len(frames) <= taken /\ taken <= Len(reqs)
            BY <2>0 DEF HostOrder
          <6>3. k \in Nat /\ k <= Len(frames)
            BY <6>1
          <6> QED BY <2>0, <6>1, <6>2, <6>3
        <5>4. got < k
          <6>1. ASSUME got > 0, k <= got
                PROVE  FALSE
            <7>1. got \in DOMAIN frames /\ End(frames[got]) <= frames[k].start
              BY <2>0, <4>1, <5>1, <6>1 DEF Seen, MessageStart
            <7>2. /\ frames[k].start \in Nat /\ frames[got].start \in Nat
                  /\ End(frames[k]) \in Nat /\ End(frames[got]) \in Nat
                  /\ frames[k].start < End(frames[k])
                  /\ frames[got].start < End(frames[got])
              <8>1. \A j \in DOMAIN frames : /\ frames[j].start \in Nat /\ frames[j].len \in Nat
                       /\ End(frames[j]) = frames[j].start + Header + frames[j].len
                BY <2>0, FrameBounds
              <8> QED BY <7>1, <8>1 DEF Header
            <7>3. CASE k = got
              BY <7>1, <7>2, <7>3
            <7>4. CASE k # got
              <8>1. k < got
                BY <2>0, <5>3, <6>1, <7>4
              <8>2. End(frames[k]) <= frames[got].start
                BY <2>0, <7>1, <8>1 DEF StreamOrder
              <8> QED BY <7>1, <7>2, <8>2
            <7> QED BY <7>3, <7>4
          <6>2. CASE got = 0
            <7>1. k \in 1 .. Len(frames)
              BY <2>0 DEF TypeOK, LinkTypeOK
            <7> QED BY <2>0, <6>2, <7>1
          <6> QED BY <2>0, <5>3, <6>1, <6>2
        <5>5. got' \in got + 1 .. Len(reqs)
          BY <2>0, <5>2, <5>3, <5>4
        <5>6. connected /\ Call = "waiting" /\ Call' = "answered"
          BY <2>00, <4>1, <5>1 DEF Return, Call
        <5>7. Len(reqs)' = Len(reqs) /\ connected' = connected
          BY <4>1
        <5> QED BY <5>5, <5>6, <5>7, Zenon DEF RR!RRNext, RR!Deliver
      <4> QED BY <3>5, <4>2, <4>3 DEF ReadPayload
    <3>6. CASE ConnectionLost
      <4>1. /\ connected' = FALSE /\ UNCHANGED <<got, reqs>>
            /\ Call = "waiting" /\ Call' = "idle"
        BY <3>6 DEF ConnectionLost, Return, Call
      <4> QED BY <2>5, <4>1 DEF RR!RRNext
    <3> QED BY <2>8, <3>1, <3>2, <3>3, <3>4, <3>5, <3>6 DEF ClientCall, CallStep
  <2>9. CASE ClientOther
    <3>1. CASE SpawnFails \/ GiveUp
      <4>1. UNCHANGED <<reqs, connected, got, last>>
        BY <3>1 DEF SpawnFails, GiveUp, linkVars, callVars
      <4>2. cpc \in {"down", "connecting"} /\ cpc' = "idle"
        BY <3>1 DEF SpawnFails, GiveUp
      <4>3. Call' = Call
        BY <4>1, <4>2 DEF Call
      <4> QED BY <2>1, <4>1, <4>3
    <3>6. CASE StartCall \/ CallNotConnected
      <4>1. UNCHANGED <<reqs, connected, got>>
        BY <3>6 DEF StartCall, CallNotConnected, linkVars
      <4>2. Call # "waiting" /\ Call' = "idle"
        BY <3>6 DEF StartCall, CallNotConnected, Call
      <4> QED BY <2>11, <4>1, <4>2 DEF RR!RRNext
    <3>2. CASE HealthPing
      <4>1. connected /\ Call # "waiting" /\ Call' = Call /\ UNCHANGED <<connected, got>>
        BY <2>0, <3>2 DEF HealthPing, ClientPhase, clientVars, callVars, Call
      <4>2. Send("ping") /\ "ping" \in Kinds
        BY <3>2 DEF HealthPing, Kinds
      <4> QED BY <2>4, <4>1, <4>2 DEF RR!RRNext
    <3>3. CASE Shutdown
      <4>1. Call # "waiting" /\ Call' = Call /\ UNCHANGED <<connected, got>>
        <5>1. cpc = "idle" /\ (cpc' = "closing" \/ cpc' = cpc)
              /\ UNCHANGED <<last, connected, got>>
          BY <3>3 DEF Shutdown, callVars
        <5> QED BY <5>1 DEF Call
      <4>2. CASE connected
        <5>1. Send("shutdown") /\ "shutdown" \in Kinds
          BY <3>3, <4>2 DEF Shutdown, Kinds
        <5> QED BY <2>4, <4>1, <4>2, <5>1 DEF RR!RRNext
      <4>3. CASE ~connected
        <5>1. UNCHANGED reqs
          BY <3>3, <4>3 DEF Shutdown
        <5> QED BY <2>1, <4>1, <5>1
      <4> QED BY <4>2, <4>3
    <3>4. CASE ShutdownDone
      <4>1. /\ connected' = FALSE /\ UNCHANGED <<got, reqs>>
            /\ Call # "waiting" /\ Call' = Call
        BY <3>4 DEF ShutdownDone, callVars, Call
      <4> QED BY <2>5, <4>1 DEF RR!RRNext
    <3>5. CASE Notification
      <4>1. /\ connected' = FALSE /\ UNCHANGED <<got, last>>
            /\ cpc \in Awaiting /\ cpc' = "gone"
        BY <3>5 DEF Notification, callVars
      <4>2. reqs' = reqs \/ (connected /\ reqs' = Append(reqs, "shutdown"))
        BY <3>5, Zenon DEF Notification
      <4>3. Call' = IF Call = "waiting" THEN "idle" ELSE Call
        <5>1. CASE cpc \in {"header", "payload"}
          BY <2>00, <4>1, <5>1 DEF Call
        <5>2. CASE cpc \notin {"header", "payload"}
          BY <4>1, <5>2 DEF Call
        <5> QED BY <5>1, <5>2
      <4> QED BY <2>5, <4>1, <4>2, <4>3 DEF RR!RRNext
    <3> QED BY <2>9, <3>1, <3>2, <3>3, <3>4, <3>5, <3>6 DEF ClientOther
  <2>10. CASE HostRun \/ HostDies
    <3>1. UNCHANGED <<reqs, clientVars>>
      BY <2>0, <2>10, HostFootprint
    <3> QED BY <2>1, <3>1 DEF clientVars, callVars, Call
  <2> QED BY <2>6, <2>7, <2>8, <2>9, <2>10 DEF Next
<1> QED BY <1>1, <1>2, Invariance, PTL DEF Spec, ImplementsRequestReply, RR!RRSpec
=============================================================================
