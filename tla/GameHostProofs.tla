--------------------------- MODULE GameHostProofs ---------------------------
(***************************************************************************)
(* Proofs about GameHost: whatever the mods, the DLLs and their defects, any *)
(* sequence of inits leaves handles, relay and bindings consistent.          *)
(***************************************************************************)
EXTENDS GameHost, TLAPS

\* The DLL an init loads is one the loader counts.
LEMMA DllType == \A m \in Mods : Dll(m) \in Dlls /\ Dll(m) # None
  BY HostAssumption DEF Dll, Dlls, HostAssumption

\* What the relay's reference count can do in a step: it never goes below zero.
LEMMA RelayRefsNat == IInv /\ [Next]_vars => relayRefs' \in Nat
<1> SUFFICES ASSUME IInv, [Next]_vars PROVE relayRefs' \in Nat
  OBVIOUS
<1>1. relayRefs \in Nat /\ (hRelay => relayRefs > 0)
  BY DEF IInv, TypeOK, HandlesMapped
<1>2. \/ relayRefs' = relayRefs
      \/ relayRefs' = relayRefs + 1
      \/ hRelay /\ relayRefs' = relayRefs - 1
  BY DEF Next, vars, relayVars, BeginInit, BadInit, LoadRelay, LoadDll, Wire, Initialize,
     LoadXml, StartPython, Query, End, Unload
<1> QED
  BY <1>1, <1>2

\* All of the types but the count's, which needs arithmetic of its own.
OtherTypes ==
    /\ stage \in Stages /\ modName \in Mods
    /\ hDll \in Dlls \cup {None} /\ fns \in Dlls \cup {None}
    /\ globals \in Dlls \cup {None} /\ hRelay \in BOOLEAN
    /\ callbacks \in BOOLEAN
    /\ refs \in [Dlls -> Nat] /\ wired \subseteq Dlls /\ up \subseteq Dlls
    /\ data \in [Dlls -> {"none", "partial", "full"}]
    /\ pyReady \in BOOLEAN /\ bound \in Dlls \cup {None}
    /\ reply \in {"none", "ok", "error", "data"} /\ inits \in 0 .. MaxInits

\* Every step of the host keeps the variables in their types.
LEMMA TypeStep == IInv /\ [Next]_vars => TypeOK'
<1> SUFFICES ASSUME IInv, [Next]_vars PROVE TypeOK'
  OBVIOUS
<1>0. OtherTypes /\ StageFacts
  BY DEF IInv, TypeOK, OtherTypes
<1> USE <1>0, DllType DEF OtherTypes, Stages, loaderVars, relayVars, dllVars, pyVars,
        Respond, Proceed
<1>1. BeginInit => OtherTypes'
  BY HostAssumption DEF BeginInit, HostAssumption
<1>2. BadInit \/ Query => OtherTypes'
  BY DEF BadInit, Query
<1>3. LoadRelay => OtherTypes'
  BY DEF LoadRelay
<1>4. LoadDll => OtherTypes'
  BY DEF LoadDll
<1>5. Wire => OtherTypes'
  BY DEF Wire, Unload
<1>6. Initialize => OtherTypes'
  BY DEF Initialize, StageFacts
<1>7. LoadXml => OtherTypes'
  BY DEF LoadXml, StageFacts
<1>8. StartPython => OtherTypes'
  BY DEF StartPython, StageFacts
<1>9. End => OtherTypes'
  BY DEF End, Unload
<1>10. UNCHANGED vars => OtherTypes'
  BY DEF vars
<1>11. OtherTypes'
  BY <1>1, <1>2, <1>3, <1>4, <1>5, <1>6, <1>7, <1>8, <1>9, <1>10, Zenon DEF Next
<1> QED
  BY <1>11, RelayRefsNat, Zenon DEF TypeOK, OtherTypes

\* What the invariant says beyond types.
Facts ==
    /\ HandlesMapped /\ CallbacksReach /\ WiredRelayStays /\ ServedIsUsable
    /\ StageFacts /\ RelayCount /\ WiredLoaded

\* A successful or failed load_relay keeps it: the count only grows.
LEMMA LoadRelayStep == IInv /\ LoadRelay => Facts'
<1> SUFFICES ASSUME IInv, LoadRelay PROVE Facts'
  OBVIOUS
<1>0. TypeOK /\ Facts
  BY DEF IInv, Facts
<1> USE DEF Facts, TypeOK, HandlesMapped, CallbacksReach, WiredRelayStays, ServedIsUsable,
        StageFacts, RelayCount, WiredLoaded
<1>1. /\ stage' \in {"idle", "load"} /\ (stage' = "load" => hRelay')
      /\ UNCHANGED <<hDll, fns, globals, refs, wired, up, data, pyReady, bound>>
  BY DEF LoadRelay, Respond, Proceed, dllVars, pyVars
<1>2. CASE relayRefs = 0 /\ stage' = "idle" /\ hRelay' = FALSE /\ UNCHANGED relayVars
  <2>1. ~hRelay /\ wired = {}
    BY <1>0, <1>2 DEF LoadRelay
  <2>2. callbacks' = hRelay' /\ (hRelay => relayRefs > 0)'
    <3>1. callbacks' = FALSE
      BY <1>0, <1>2, <2>1, Zenon DEF relayVars
    <3> QED BY <1>2, <3>1
  <2>3. /\ (hDll # None => refs[hDll] > 0 /\ fns = hDll)'
        /\ (globals # None => refs[globals] > 0)'
    BY <1>0, <1>1
  <2>4. HandlesMapped'
    BY <2>2, <2>3, Zenon
  <2>5. CallbacksReach' /\ WiredRelayStays' /\ RelayCount' /\ StageFacts'
    BY <1>1, <1>2, <2>1
  <2>6. ServedIsUsable' /\ WiredLoaded'
    BY <1>0, <1>1
  <2> QED BY <2>4, <2>5, <2>6
<1>3. CASE /\ stage' = "load" /\ hRelay' = TRUE /\ callbacks' = TRUE
           /\ relayRefs' = relayRefs + 1
  <2>1. relayRefs' > 0 /\ (wired' # {} => relayRefs' > 1)
    BY <1>0, <1>1, <1>3 DEF LoadRelay
  <2>2. callbacks' = hRelay'
    BY <1>3
  <2>3. /\ (hDll # None => refs[hDll] > 0 /\ fns = hDll)'
        /\ (globals # None => refs[globals] > 0)'
    BY <1>0, <1>1
  <2>4. HandlesMapped'
    BY <2>1, <2>2, <2>3, Zenon
  <2>5. CallbacksReach' /\ WiredRelayStays' /\ RelayCount' /\ StageFacts'
    BY <1>1, <1>3, <2>1
  <2>6. ServedIsUsable' /\ WiredLoaded'
    BY <1>0, <1>1
  <2> QED BY <2>4, <2>5, <2>6
<1> QED
  BY <1>2, <1>3 DEF LoadRelay, Respond, Proceed

\* A wiring keeps it too: the reference unload gives back is this init's own.
LEMMA WireStep == IInv /\ Wire => Facts'
<1> SUFFICES ASSUME IInv, Wire PROVE Facts'
  OBVIOUS
<1>0. TypeOK /\ Facts
  BY DEF IInv, Facts
<1> USE DEF Facts, TypeOK, HandlesMapped, CallbacksReach, WiredRelayStays, ServedIsUsable,
        StageFacts, RelayCount, WiredLoaded
<1>1. /\ stage = "wire" /\ hRelay /\ relayRefs > 0 /\ (wired # {} => relayRefs > 1)
      /\ UNCHANGED <<modName, refs, up, data, pyReady, bound>>
  BY <1>0 DEF Wire, pyVars
<1>2. CASE Unload /\ Respond("error") /\ UNCHANGED wired
  <2>1. /\ hDll' = None /\ globals' = None /\ hRelay' = FALSE /\ callbacks' = FALSE
        /\ relayRefs' = relayRefs - 1 /\ stage' = "idle" /\ wired' = wired
    BY <1>1, <1>2 DEF Unload, Respond
  <2>2. wired' # {} => relayRefs' > 0
    BY <1>0, <1>1, <2>1
  <2>3. HandlesMapped' /\ CallbacksReach' /\ WiredRelayStays' /\ StageFacts' /\ RelayCount'
    BY <2>1, <2>2
  <2>4. ServedIsUsable' /\ WiredLoaded'
    BY <1>0, <1>1, <2>1
  <2> QED BY <2>3, <2>4
<1>3. CASE /\ hDll # None /\ globals' = hDll /\ wired' = wired \cup {hDll}
           /\ stage' = "init" /\ UNCHANGED <<hDll, fns, hRelay, relayRefs, callbacks>>
  <2>1. HandlesMapped'
    BY <1>0, <1>1, <1>3
  <2>2. CallbacksReach' /\ StageFacts'
    <3>1. hDll = Dll(modName) /\ callbacks
      BY <1>0, <1>1, Zenon
    <3>2. callbacks'
      BY <1>3, <3>1, Zenon
    <3> QED BY <1>1, <1>3, <3>1, <3>2
  <2>3. WiredRelayStays' /\ RelayCount'
    BY <1>1, <1>3
  <2>4. ServedIsUsable' /\ WiredLoaded'
    BY <1>0, <1>1, <1>3
  <2> QED BY <2>1, <2>2, <2>3, <2>4
<1> QED
  BY <1>2, <1>3 DEF Wire, Proceed, relayVars

\* The end forgets the handles and keeps the DLLs.
LEMMA EndStep == IInv /\ End => Facts'
<1> SUFFICES ASSUME IInv, End PROVE Facts'
  OBVIOUS
<1>0. TypeOK /\ Facts
  BY DEF IInv, Facts
<1>1. /\ stage' = "exited" /\ hDll' = None /\ globals' = None /\ hRelay' = FALSE
      /\ UNCHANGED <<refs, wired, up, data, pyReady, bound>>
  BY DEF End, Unload, dllVars, pyVars
<1>2. callbacks' = FALSE
  BY <1>0 DEF Facts, TypeOK, HandlesMapped, End, Unload, relayVars
<1>3. HandlesMapped'
  BY <1>1, <1>2 DEF HandlesMapped
<1>4. CallbacksReach' /\ WiredRelayStays' /\ StageFacts' /\ RelayCount'
  BY <1>1 DEF CallbacksReach, WiredRelayStays, StageFacts, RelayCount
<1>5. ServedIsUsable' /\ WiredLoaded'
  BY <1>0, <1>1 DEF Facts, ServedIsUsable, WiredLoaded
<1> QED
  BY <1>3, <1>4, <1>5 DEF Facts

\* Every step keeps the whole invariant.
LEMMA InvStep == IInv /\ [Next]_vars => IInv'
<1> SUFFICES ASSUME IInv, [Next]_vars PROVE IInv'
  OBVIOUS
<1>0. TypeOK'
  BY TypeStep
<1> USE DllType DEF IInv, Facts, loaderVars, relayVars, dllVars, pyVars, Respond, Proceed,
        TypeOK, HandlesMapped, CallbacksReach, WiredRelayStays, ServedIsUsable, StageFacts,
        RelayCount, WiredLoaded
<1>1. BeginInit => Facts'
  BY DEF BeginInit
<1>2. BadInit => Facts'
  BY DEF BadInit
<1>3. LoadRelay => Facts'
  BY LoadRelayStep, Zenon
<1>4. LoadDll => Facts'
  BY DEF LoadDll
<1>5. Wire => Facts'
  BY WireStep, Zenon
<1>6. Initialize => Facts'
  BY DEF Initialize
<1>7. LoadXml => Facts'
  BY DEF LoadXml
<1>8. StartPython => Facts'
  BY DEF StartPython
<1>9. Query => Facts'
  BY DEF Query
<1>10. End => Facts'
  BY EndStep, Zenon
<1>11. UNCHANGED vars => Facts'
  BY DEF vars
<1> HIDE DEF Facts, TypeOK, HandlesMapped, CallbacksReach, WiredRelayStays, ServedIsUsable,
        StageFacts, RelayCount, WiredLoaded, IInv
<1>12. Facts'
  BY <1>1, <1>2, <1>3, <1>4, <1>5, <1>6, <1>7, <1>8, <1>9, <1>10, <1>11, Zenon DEF Next
<1> QED
  BY <1>0, <1>12, Zenon DEF IInv, Facts

\* The inductive invariant holds of every reachable state of the host.
THEOREM HostInvariance == Spec => []IInv
<1>1. Init => IInv
  <2> SUFFICES ASSUME Init PROVE IInv
    OBVIOUS
  <2>1. TypeOK
    <3>1. inits \in 0 .. MaxInits
      BY HostAssumption DEF Init, HostAssumption
    <3>2. refs \in [Dlls -> Nat] /\ relayRefs \in Nat /\ data \in [Dlls -> {"none", "partial", "full"}]
      BY DEF Init
    <3>3. modName \in Mods
      BY HostAssumption DEF Init, HostAssumption
    <3> QED BY <3>1, <3>2, <3>3 DEF Init, TypeOK, Stages
  <2>2. HandlesMapped /\ ServedIsUsable
    BY DEF Init, HandlesMapped, ServedIsUsable
  <2>3. /\ CallbacksReach /\ WiredRelayStays /\ StageFacts /\ RelayCount /\ WiredLoaded
    BY DEF Init, CallbacksReach, WiredRelayStays, StageFacts, RelayCount, WiredLoaded
  <2> QED BY <2>1, <2>2, <2>3 DEF IInv
<1> QED
  BY <1>1, InvStep, PTL DEF Spec

\* The host's handles, counts and answers are always of their types.
THEOREM HostTypeCorrect == Spec => []TypeOK
<1>1. IInv => TypeOK
  BY DEF IInv
<1> QED BY <1>1, HostInvariance, PTL

\* A handle is never held of a module that is gone (DllLoader::load, unload).
THEOREM HandlesHold == Spec => []HandlesMapped
<1>1. IInv => HandlesMapped
  BY DEF IInv
<1> QED BY <1>1, HostInvariance, PTL

\* After any sequence of inits, failed ones included, what the host holds of its
\* two modules is of its type and in the process (handle_init, main's unload).
THEOREM HandlesSound == Spec => []HandlesSafe
<1>1. TypeOK /\ HandlesMapped => HandlesSafe
  BY DEF HandlesSafe
<1> QED BY <1>1, HostTypeCorrect, HandlesHold, PTL

\* A running game DLL reaches the host, and the files of its own mod.
THEOREM CallbacksHold == Spec => []CallbacksReach
<1>1. IInv => CallbacksReach
  BY DEF IInv
<1> QED BY <1>1, HostInvariance, PTL

\* A wired game DLL's relay is there for as long as commands are served.
THEOREM RelayHolds == Spec => []WiredRelayStays
<1>1. IInv => WiredRelayStays
  BY DEF IInv
<1> QED BY <1>1, HostInvariance, PTL

\* Queries run on a DLL that is loaded, wired and initialised; no other has data.
THEOREM ServiceUsable == Spec => []ServedIsUsable
<1>1. IInv => ServedIsUsable
  BY DEF IInv
<1> QED BY <1>1, HostInvariance, PTL

\* The host implements DataService: it serves one DLL's data, after an ok.
THEOREM ServiceRefined == Spec => ImplementsDataService
<1>1. Init => DS!SvcInit
  BY DEF Init, DS!SvcInit
<1>2. IInv /\ [Next]_vars => [DS!SvcNext]_(DS!svcVars)
  <2> SUFFICES ASSUME IInv, [Next]_vars PROVE [DS!SvcNext]_(DS!svcVars)
    OBVIOUS
  <2> DEFINE S == IF pyReady THEN bound ELSE None
  <2>0. TypeOK /\ ServedIsUsable /\ StageFacts
    BY DEF IInv
  <2> USE DEF pyVars, Respond, Proceed
  <2>1. CASE BeginInit
    BY <2>1 DEF BeginInit, DS!SvcNext, DS!Command
  <2>2. CASE BadInit
    BY <2>2 DEF BadInit, DS!SvcNext, DS!Refuse
  <2>3. CASE LoadRelay
    BY <2>3 DEF LoadRelay, DS!SvcNext, DS!Refuse, DS!svcVars
  <2>4. CASE LoadDll
    BY <2>4 DEF LoadDll, DS!SvcNext, DS!Refuse, DS!svcVars
  <2>5. CASE Wire
    BY <2>5 DEF Wire, DS!SvcNext, DS!Refuse, DS!svcVars
  <2>6. CASE Initialize
    BY <2>6 DEF Initialize, DS!SvcNext, DS!Refuse, DS!svcVars
  <2>7. CASE LoadXml
    BY <2>7 DEF LoadXml, DS!SvcNext, DS!svcVars
  <2>8. CASE StartPython
    BY <2>0, <2>8 DEF StartPython, TypeOK, ServedIsUsable, DS!SvcNext, DS!Accept
  <2>9. CASE Query
    BY <2>0, <2>9 DEF Query, ServedIsUsable, DS!SvcNext, DS!Refuse, DS!Answer
  <2>10. CASE End
    BY <2>10 DEF End, DS!SvcNext, DS!svcVars
  <2>11. CASE UNCHANGED vars
    BY <2>11 DEF vars, DS!svcVars
  <2> QED
    BY <2>1, <2>2, <2>3, <2>4, <2>5, <2>6, <2>7, <2>8, <2>9, <2>10, <2>11 DEF Next
<1> QED
  BY <1>1, <1>2, HostInvariance, PTL DEF Spec, ImplementsDataService, DS!SvcSpec
=============================================================================
