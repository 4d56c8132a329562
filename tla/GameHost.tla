------------------------------ MODULE GameHost ------------------------------
(***************************************************************************)
(* What TesseraHost does to its own process: the init command of            *)
(* message_protocol.cpp over DllLoader, the relay and PythonBridge, the     *)
(* queries, and the end of main.  One thread runs it; the stages are the    *)
(* calls handle_init makes, and in the stages "init" and "xml" the game DLL *)
(* runs and calls back through the relay.                                   *)
(***************************************************************************)
EXTENDS Integers

CONSTANTS
    Mods,        \* what an init can name; BaseMod stands for "no mod"
    BaseMod,
    OwnDll,      \* the mods that bring a CvGameCoreDLL.dll of their own
    Complete,    \* the DLLs with all three CvGlobals exports
    XmlCapable,  \* the DLLs with the four CvXMLLoadUtility exports it checks
    NullInstance,\* the DLLs whose getInstance returns null
    None,
    MaxInits     \* bound on the number of init commands

ASSUME HostAssumption ==
    /\ BaseMod \in Mods /\ OwnDll \subseteq Mods
    /\ None \notin Mods
    /\ MaxInits \in Nat

\* resolve_dll_path: a mod without a DLL runs on the base game's.
Dll(m) == IF m \in OwnDll THEN m ELSE BaseMod
Dlls == OwnDll \cup {BaseMod}

VARIABLES
    stage,      \* the call handle_init is in, "idle" between commands, "exited"
    modName,    \* g_modName (with g_basePath)
    hDll,       \* m_hDll: the DLL it is the handle of
    fns,        \* the DLL the CvGlobals pointers were last taken from
    globals,    \* m_pGlobals: the DLL whose singleton it points to
    hRelay,     \* m_hRelay is set
    relayRefs,  \* the loader's reference count of the relay
    callbacks,  \* the relay's g_callbacks is set
    refs,       \* the loader's reference count of each game DLL
    wired,      \* the DLLs whose gDLL points to the relay's interface
    up,         \* the DLLs whose CvGlobals::init has completed
    data,       \* what each DLL's last XML loading got: "none", "partial", "full"
    pyReady,    \* PythonBridge::m_initialized
    bound,      \* the DLL whose bindings CvPythonExtensions holds
    reply,      \* the answer to the last init or query, "none" while an init runs
    inits       \* init commands so far

loaderVars == <<hDll, fns, globals, hRelay>>
relayVars == <<relayRefs, callbacks>>
dllVars == <<refs, wired, up, data>>
pyVars == <<pyReady, bound>>
vars == <<stage, modName, loaderVars, relayVars, dllVars, pyVars, reply, inits>>

Stages == {"idle", "relay", "load", "wire", "init", "xml", "python", "exited"}

Init ==
    /\ stage = "idle" /\ modName = BaseMod
    /\ hDll = None /\ fns = None /\ globals = None /\ hRelay = FALSE
    /\ relayRefs = 0 /\ callbacks = FALSE
    /\ refs = [d \in Dlls |-> 0] /\ wired = {} /\ up = {}
    /\ data = [d \in Dlls |-> "none"]
    /\ pyReady = FALSE /\ bound = None
    /\ reply = "none" /\ inits = 0

-----------------------------------------------------------------------------
(* The steps of handle_init                                                  *)

\* A command ends with its response.
Respond(r) == reply' = r /\ stage' = "idle"
Proceed(s) == stage' = s /\ UNCHANGED reply

\* The paths are set before anything is loaded.
BeginInit ==
    /\ stage = "idle" /\ inits < MaxInits
    /\ \E m \in Mods : modName' = m
    /\ inits' = inits + 1
    /\ stage' = "relay" /\ reply' = "none"
    /\ UNCHANGED <<loaderVars, relayVars, dllVars, pyVars>>

\* No JSON, or no base_path in it.
BadInit ==
    /\ stage = "idle"
    /\ Respond("error")
    /\ UNCHANGED <<modName, loaderVars, relayVars, dllVars, pyVars, inits>>

\* Mutant: a relay that is loaded is not loaded again.
LoadRelayOnce ==
    /\ stage = "relay"
    /\ \/ /\ relayRefs = 0
          /\ hRelay' = FALSE
          /\ Respond("error")
          /\ UNCHANGED relayVars
       \/ /\ hRelay' = TRUE
          /\ relayRefs' = IF hRelay THEN relayRefs ELSE relayRefs + 1
          /\ callbacks' = TRUE
          /\ Proceed("load")
    /\ UNCHANGED <<modName, hDll, fns, globals, dllVars, pyVars, inits>>

\* load_relay.  A relay that is missing, lacks an export or has another API
\* version is not in the process afterwards; one that is in the process
\* already has been checked.
LoadRelay ==
    /\ stage = "relay"
    /\ \/ /\ relayRefs = 0
          /\ hRelay' = FALSE
          /\ Respond("error")
          /\ UNCHANGED relayVars
       \/ /\ hRelay' = TRUE
          /\ relayRefs' = relayRefs + 1
          /\ callbacks' = TRUE
          /\ Proceed("load")
    /\ UNCHANGED <<modName, hDll, fns, globals, dllVars, pyVars, inits>>

\* Mutant: a DLL without the exports is freed, but its handle is kept.
LoadDllKeepsHandle ==
    /\ stage = "load"
    /\ LET d == Dll(modName) IN
        \/ /\ d \notin Complete
           /\ hDll' = d /\ fns' = d
           /\ Respond("error")
           /\ UNCHANGED refs
        \/ /\ d \in Complete
           /\ hDll' = d /\ fns' = d
           /\ refs' = [refs EXCEPT ![d] = @ + 1]
           /\ Proceed("wire")
    /\ UNCHANGED <<modName, globals, hRelay, relayVars, wired, up, data, pyVars, inits>>

\* Mutant: a handle that is set is used for whatever mod comes next.
LoadDllReuses ==
    /\ stage = "load"
    /\ LET d == IF hDll # None THEN hDll ELSE Dll(modName) IN
        /\ d \in Complete
        /\ hDll' = d /\ fns' = d
        /\ refs' = [refs EXCEPT ![d] = @ + 1]
        /\ Proceed("wire")
    /\ UNCHANGED <<modName, globals, hRelay, relayVars, wired, up, data, pyVars, inits>>

\* load.  A failed LoadLibrary leaves the old function pointers in place; a
\* DLL that lacks an export is freed and leaves its own behind.
LoadDll ==
    /\ stage = "load"
    /\ LET d == Dll(modName) IN
        \/ /\ refs[d] = 0
           /\ hDll' = None
           /\ Respond("error")
           /\ UNCHANGED <<fns, refs>>
        \/ /\ d \notin Complete
           /\ hDll' = None /\ fns' = d
           /\ Respond("error")
           /\ UNCHANGED refs
        \/ /\ d \in Complete
           /\ hDll' = d /\ fns' = d
           /\ refs' = [refs EXCEPT ![d] = @ + 1]
           /\ Proceed("wire")
    /\ UNCHANGED <<modName, globals, hRelay, relayVars, wired, up, data, pyVars, inits>>

\* unload: the game DLL stays in the process, one reference to the relay goes.
Unload ==
    /\ hDll' = None /\ fns' = None /\ globals' = None /\ hRelay' = FALSE
    /\ IF hRelay THEN relayRefs' = relayRefs - 1 /\ callbacks' = FALSE
                 ELSE UNCHANGED relayVars

\* wire_interfaces, and the unload handle_init answers its failure with.
Wire ==
    /\ stage = "wire"
    /\ IF hDll = None \/ fns = None \/ ~hRelay \/ hDll \in NullInstance
         THEN /\ Unload
              /\ Respond("error")
              /\ UNCHANGED wired
         ELSE /\ globals' = hDll
              /\ wired' = wired \cup {hDll}
              /\ Proceed("init")
              /\ UNCHANGED <<hDll, fns, hRelay, relayVars>>
    /\ UNCHANGED <<modName, refs, up, data, pyVars, inits>>

\* Mutant: a crash in init counts as partial success.
InitializeGoesOn ==
    /\ stage = "init"
    /\ up' = up \cup {hDll} \/ UNCHANGED up
    /\ Proceed("xml")
    /\ UNCHANGED <<modName, loaderVars, relayVars, refs, wired, data, pyVars, inits>>

\* initialize: CvGlobals::init completes, or crashes and the host goes on.
Initialize ==
    /\ stage = "init"
    /\ \/ up' = up \cup {hDll} /\ Proceed("xml")
       \/ Respond("error") /\ UNCHANGED up
    /\ UNCHANGED <<modName, loaderVars, relayVars, refs, wired, data, pyVars, inits>>

\* load_xml_data gives up before its first step, or takes every step whatever
\* becomes of the one before; its result is only logged.
LoadXml ==
    /\ stage = "xml"
    /\ \/ UNCHANGED data
       \/ /\ hDll \in XmlCapable
          /\ \E got \in {"partial", "full"} : data' = [data EXCEPT ![hDll] = got]
    /\ Proceed("python")
    /\ UNCHANGED <<modName, loaderVars, relayVars, refs, wired, up, pyVars, inits>>

\* Mutant: the bindings are published again for every init.
StartPythonRebinds ==
    /\ stage = "python"
    /\ \/ UNCHANGED pyVars
       \/ bound' = hDll /\ UNCHANGED pyReady
       \/ bound' = hDll /\ pyReady' = TRUE
    /\ Respond("ok")
    /\ UNCHANGED <<modName, loaderVars, relayVars, dllVars, inits>>

\* PythonBridge::init, once: it may fail before the bindings are published,
\* in the middle, or (no temporary path) after.  The response is ok anyway.
StartPython ==
    /\ stage = "python"
    /\ IF pyReady THEN UNCHANGED pyVars
       ELSE \/ UNCHANGED pyVars
            \/ bound' = hDll /\ UNCHANGED pyReady
            \/ bound' = hDll /\ pyReady' = TRUE
    /\ Respond("ok")
    /\ UNCHANGED <<modName, loaderVars, relayVars, dllVars, inits>>

-----------------------------------------------------------------------------
(* The other commands, and the end                                           *)

\* get_all_infos, get_info, get_art_info.
Query ==
    /\ stage = "idle"
    /\ \/ Respond("error")
       \/ pyReady /\ Respond("data")
    /\ UNCHANGED <<modName, loaderVars, relayVars, dllVars, pyVars, inits>>

\* The command loop ends, with a shutdown command or the client's departure;
\* main unloads before it returns.
End ==
    /\ stage = "idle"
    /\ stage' = "exited"
    /\ Unload
    /\ UNCHANGED <<modName, dllVars, pyVars, reply, inits>>

Next ==
    \/ BeginInit \/ BadInit \/ LoadRelay \/ LoadDll \/ Wire \/ Initialize
    \/ LoadXml \/ StartPython \/ Query \/ End

Spec == Init /\ [][Next]_vars

-----------------------------------------------------------------------------
(* Properties                                                                *)

TypeOK ==
    /\ stage \in Stages /\ modName \in Mods
    /\ hDll \in Dlls \cup {None} /\ fns \in Dlls \cup {None}
    /\ globals \in Dlls \cup {None} /\ hRelay \in BOOLEAN
    /\ relayRefs \in Nat /\ callbacks \in BOOLEAN
    /\ refs \in [Dlls -> Nat] /\ wired \subseteq Dlls /\ up \subseteq Dlls
    /\ data \in [Dlls -> {"none", "partial", "full"}]
    /\ pyReady \in BOOLEAN /\ bound \in Dlls \cup {None}
    /\ reply \in {"none", "ok", "error", "data"} /\ inits \in 0 .. MaxInits

\* A handle stands for a module that is in the process, and the pointers used
\* under it point into that module: load and unload, over any sequence of
\* inits that fail at any step.
HandlesMapped ==
    /\ hDll # None => refs[hDll] > 0 /\ fns = hDll
    /\ globals # None => refs[globals] > 0
    /\ hRelay => relayRefs > 0
    /\ callbacks = hRelay

\* What handle_init, unload and main hold of the two modules after any sequence
\* of inits, however each of them failed: values of their types, and nothing
\* that points into a module that is gone (dll_loader.cpp, load to unload).
HandlesSafe == TypeOK /\ HandlesMapped

\* While the game DLL runs its initialisation it can reach the host: it is
\* wired, the relay has its callbacks, and the paths they look files up with
\* are those of the mod whose DLL this is.
CallbacksReach ==
    stage \in {"init", "xml"} =>
        /\ hDll \in wired /\ globals = hDll
        /\ relayRefs > 0 /\ callbacks
        /\ hDll = Dll(modName)

\* As long as the command loop runs, a game DLL that has been given the
\* relay's interface never holds a pointer into a relay that is gone: unload
\* returns the reference its own init took, never an earlier one's.
WiredRelayStays == wired # {} /\ stage # "exited" => relayRefs > 0

\* Queries run on a DLL that is loaded, wired, and once initialised; and it is only into
\* such a DLL that XML data is loaded, though a DLL whose loading failed is served too.
ServedIsUsable ==
    /\ pyReady => bound # None /\ refs[bound] > 0 /\ bound \in wired \cap up
    /\ \A d \in Dlls : data[d] # "none" => d \in wired \cap up

\* The host keeps DataService's promise: no data before an ok, and one DLL's
\* data for the life of the process.
DS == INSTANCE DataService WITH serving <- IF pyReady THEN bound ELSE None
ImplementsDataService == DS!SvcSpec

-----------------------------------------------------------------------------
(* The inductive invariant behind them.                                      *)

\* What has been established when a stage is reached.
StageFacts ==
    /\ stage \in {"load", "wire", "init", "xml", "python"} => hRelay
    /\ stage \in {"wire", "init", "xml", "python"} => hDll = Dll(modName)
    /\ stage \in {"init", "xml", "python"} => hDll \in wired /\ globals = hDll
    /\ stage \in {"xml", "python"} => hDll \in up

\* An init that is not wired yet holds a reference of its own, beside the one
\* of an earlier init that is.
RelayCount == stage \in {"load", "wire"} /\ wired # {} => relayRefs > 1

\* DLLs are never unloaded once they are wired.
WiredLoaded == \A d \in wired : refs[d] > 0

IInv ==
    /\ TypeOK /\ HandlesMapped /\ CallbacksReach /\ WiredRelayStays /\ ServedIsUsable
    /\ StageFacts /\ RelayCount /\ WiredLoaded

=============================================================================
