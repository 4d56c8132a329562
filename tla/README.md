# Formal models of Project Tessera

Project Tessera reimplements the Civilization IV engine in Godot 4.5 and runs
the original, 32-bit `CvGameCoreDLL.dll` in a process of its own. This
directory holds TLA+ models of the program, the TLC configurations that check
them, and TLAPS proofs about them. Every definition is translated from the
source; `PROJECT.json` gives the lines.

    tlc -config bridge.cfg Bridge.tla            # model-check a run
    tlapm BridgeProofs.tla                       # check the proofs

## 1. The system

| Component | Source | State | Operations | What makes it hard |
|---|---|---|---|---|
| HostBridge client | `scripts/host/HostBridge.gd` | socket, `_connected`, health timer, host pid | spawn and connect, `init_game`, `get_*`, ping, shutdown, notifications | one thread of coroutines that give way at every `await`; timeouts; a blocking read in the drain |
| TesseraHost server | `host/src/tcp_server.cpp`, `main.cpp` | listening and client socket, command loop | bind, accept (once), recv, dispatch, send | partial sends, crash, a client that leaves |
| Command dispatch | `host/src/message_protocol.cpp` | `g_basePath`, `g_modName`, extractor | one branch per command | exactly one response on every path |
| Host initialisation | `host/src/dll_loader.cpp`, `host/relay/src/relay_main.cpp` | module handles, function pointers, globals pointer | load relay, load DLL, wire, initialize, load XML, unload | half-finished steps, a second `init`, crashes that are caught |
| PythonBridge | `host/src/python_bridge.cpp` | initialised flag, result file | init, run script | errors returned as text, a stale result file |
| DataExtractor | `host/src/data_extractor.cpp` | none of its own | `get_all_infos`, `get_info`, `get_art_info` | which results count as failures |
| Host callbacks | `host/src/host_callbacks.cpp` | XML cursor, file lists | navigation, path resolution, enumeration | cursor state across calls, overlay order |
| Relay DLL | `host/relay/src` | callback table | forwards the DLL's virtual calls | ABI; mostly constants |
| VFS | `scripts/VFS.gd` | archive index, file name index, disk cache | initialize, lookup, extract, find | precedence, caches that outlive their data |
| FPK loader | `scripts/loaders/FPK_Loader.gd` | position, files read | parse header, parse list | the end of an entry is found by searching for a marker in binary data |
| Scene flow | `InitScene.gd`, `VerificationScene.gd`, `SplashScreenScene.gd`, `Global.gd` | current scene, configuration file | the start-up sequence | awaits while scenes are freed |
| Main menu | `MenuScene.gd` | visible menu, buttons | one handler | every state must have a way back |
| AssetCycler | `AssetCycler.gd` | listed assets, the one shown, debug mode, override, clips, auto-cycle | one handler per key, `_process` | a load that fails half-way; settings that change while nothing is shown |
| NIF extension | `extensions/gdext_niflib` | the scene being built, skeleton and texture caches, pending controllers | NIF to Godot conversion | skeletons that are shared, grow and move while the scene is built; tracks that find their nodes by path |
| niflib, qhull | `external` | - | - | third party |

How they interact: `InitScene._ready` reads the archives, initialises the VFS,
creates the HostBridge, and awaits `spawn_host`, `init_game` and six queries in
sequence. HostBridge starts TesseraHost with a port and talks to it in JSON
messages behind a 4-byte length. TesseraHost takes one command at a time. `init`
loads the relay and the game DLL, hands the relay's interfaces to the DLL, runs
the DLL's initialisation, and embeds Python; queries run Python scripts against
the DLL's bindings. While it loads XML the DLL calls back through the relay
into the host's XML and file functions. The viewer scenes and the NIF extension
take files from the VFS.

What makes each component correct, in a sentence: the client returns to a
caller the response to the caller's request and keeps its place in the stream;
the server answers every command once, in order, and ends when its client does;
initialisation leaves either everything usable or nothing that dangles; the
extractor never passes an error off as data; the XML cursor is always at a node
of the document, and leaving a node restores where it was entered; the VFS
serves the source with the highest priority and never stale bytes; the loader
returns exactly the archive's entries or nothing; the start-up comes to
the menu whatever the archives and the host are like; the menu never strands the user; the viewer's labels are about what it shows; the NIF
extension's scene stays a tree, its skeletons fit the meshes on them, and its tracks reach
what they animate. Where the code falls short of one of these, section 5 has a finding. The hazards behind these sentences are listed, line by line, in
`PROJECT.json`.

## 2. The plan

In order of importance; what is done is marked.

1. **Bridge** (done, proved): `TcpLink`, `TesseraHost`, `HostBridge`, composed in
   `Bridge`, refining `RequestReply`.
2. **GameHost** (done, proved): the `init` command over DllLoader, relay and
   PythonBridge, with repeated inits, failures at every step and `unload`,
   refining `DataService`.
3. **DataExtraction** (done, proved): scripts, the result file, and which
   texts are taken for data.
4. **HostCallbacks** (done, proved): the XML cursor, the resolution of paths over the layers of an
   install, and the lists of files.
5. **VFS** (done, proved): lookups against "highest priority wins", extraction over several
   sessions. `FpkArchive` (done, proved): the list of an archive against what was packed, byte by byte.
6. **FrontEnd** (done, proved): start-up and configuration over several sessions, composed with
   `FpkArchive`, `MainMenu` and `AssetCycler`.
7. **NIF extension** (done, proved): `NifFile`, `NifScene`, `NifMaterial`, `NifAnimation`.

Left: the game world beyond the viewer, once the repository has one.

Modules that are proved about use no RECURSIVE operators; neither does any other. Where the code filters or sorts, the modules
say which elements are left and take them by rank (`Orders`); where it walks up a tree, they say which set of nodes the walk meets. Both can be
reasoned about without induction over data.

## 3. The modules

**`TcpLink`** is the connection. Requests are whole messages (`reqs`): the host
reads with a blocking `recv_exact` and cannot lose its place. Responses are a
stream of bytes, because the client can stop in the middle of a message:
`frames` are the responses the host has begun to write, each with the position
of its header and its length; `arrived` counts the bytes in or through the
client's socket, `consumed` those the client has read. No byte values are kept.
What `get_32` returns at a position follows from where the position lies
(`Words`): at a header, the frame's length; elsewhere, either a value outside the
accepted range (a payload is text, and text in a word's top byte makes it larger
than 64 MB or negative) or, if the word's top byte is a byte of some header, a
small value, from the constant `Bogus`. `peer` is what the other end has told
the client's: nothing, an orderly close, or a reset. `server` is whose end that is: the client connects to a port, and another process may
have taken it.

**`TesseraHost`** is `main`: `hpc` is the process's place (not started,
initialising, listening, in `recv`, in a command, sending, exited), `taken` the
number of requests read. `Dispatch` appends exactly one response, which is what
every branch of `dispatch_command` and every return of `handle_init` does; its
length is any of `Lengths`, 0 standing for a response that could not be
serialised. `SendMessage` delivers it in pieces of any size the client's
receive buffer (`RcvBuf`) has room for. `Crash` may happen at any time.

**`HostBridge`** is the GDScript class; `cpc` is its place. The coroutine gives
way only where the code awaits (`Awaiting`), and it is exactly there that the
timer (`HealthPing`) and `Notification` are enabled. A call goes
`idle` - `drain` - `header` - `payload` - `idle`. `drainPayload` is the blocking `get_data`
of the drain: from it nothing but more bytes or the end of the connection leads
out. The timeouts are actions that are enabled while the bytes have not come;
time itself is not modelled, so a call may time out at any point at which
waiting is possible. `awaiting` is the number of the call's own request, `got`
the number of the request whose response the last successful call returned;
`clean` and `split` are history variables (section 5).

**`Bridge`** joins the two (`Spawn` of one is `HostStart` of the other;
everything else interleaves), states the properties, and gives the fairness. `Handshake` reaches the host, `HandshakeOther` another
process, before the host listens or after it has died. That process is silent or ends the connection (`OtherCloses`): what it
might send is nothing this program says anything about.

**`RequestReply`** is what the caller is promised: requests are numbered; a call
ends with an error or with a response that answers a request already made and
is newer than any response delivered before; nothing is delivered after the
connection is lost. It does *not* promise that the response is the call's own.

**`GameHost`** is what the commands do to the host process itself, one level below
`TesseraHost`, where a command is a single step: there the question is what travels
over the connection, here what is loaded. `stage` is the call `handle_init` is in.
`hDll`, `globals`, `hRelay` are DllLoader's handles and `fns` its function pointers;
`refs`, `relayRefs` are the operating system's reference counts of the modules,
`wired` the DLLs whose `gDLL` has been set, `up` those whose `CvGlobals::init` has
completed, `data` what XML loading got: these are the state of the *process*,
which a failed init or an `unload` does not undo. `bound` is the DLL whose
bindings the embedded Python has. `LoadLibrary` of a module that is in the process succeeds
and adds a reference; a missing file, missing exports (`Complete`,
`XmlCapable`), a null `getInstance` (`NullInstance`, which the code checks), and crashes that SEH catches are the failures.
A mod stands for a pair of base path and mod name, a DLL for its file.

**`DataService`** is what a client may rely on across commands: no data before an
init was answered with ok, then one DLL's data and no other's. It says openly
what an ok does *not* promise: that anything is served.

**`DataExtraction`** is one level below `GameHost`'s `Query`: the script a query
composes, its run in the embedded interpreter, the result file, and the parsing.
A text is a sequence of fields (a field is all the parsers look at: its kind, and whether it ends its
line), so that it is visible whose row a line is made of. The state that matters is `f`: every script binds
its file object to the same global name, and Python closes a file object when the
name is bound to another. A script that fails between two rows leaves `f` open with
rows in the C runtime's buffer (`Buf` fields) and its own position; `Open` truncates the file and
then lets the old `f` write the rest. `Handle`, `Break` and `Unreadable` are the ways to fail, `Answer` is
the C++ side with its different treatment of lists (`Items`) and single infos (`Item`).
`before` is a history variable: the `f` the query's script found. The English sentences that `run_script_with_output` returns in
place of results are one field, `Word("sentence")`, which the parsers treat as they would any text.
Python's file objects and the C runtime are not in the repository; they are modelled from the way the scripts use them.

**`VFS`** is the autoload of that name over several sessions of the program. A path is
one of `Paths`; what normalisation and `get_file` make of it are the functions `Norm`
and `FileName`, so that spellings can coincide and names can be shared. Contents are known by
the archive entry they come from (`Data`), which is enough to say which of several files was
served. `fpkData` and `nameIndex` are filled entry by entry (`IndexEntry`, `NextArchive`) and last for the
session, as does `diskCache`, the memory of `_check_disk`; `cacheDir` is the directory `user://vfs_cache`, which
no action empties. Every lookup is one action, except `get_file_as_disk_path` of an archived file: between
`ExtractToCache`, which creates the file, and `StoreBuffer` the session can end, and
`StoreBuffer` may write less than it was given, since the code does not look. `loose` changes between
sessions and by `Edit`. `answer` is the call last made and what it returned. `writers` and
`cut` are history variables: which installs' sessions have written to `cacheDir`, and the files whose write was cut short.
There is one layer of loose files, because `_check_disk` and `find_files` look in `base_path/Assets` and nowhere else: the "mods/expansions override base" of VFS.gd:11 is not in the
code, and hence not in the model.

**`NifFile`** is a NIF as niflib hands it over: objects numbered in the order of the traversal, with what walking `GetParent`
from each one collects (`over`), and the functions of nif_skinning.cpp that look at nothing else: the common ancestor, the bones
`build_skeleton` adds above a skin's bones (`BuiltBones`), those `grow_skeleton` adds for another skin (`GrownBones`), the orders in which it may add them (`DepthOrders`: by their distance from the skeleton root, those of one depth in any order), and the bone each is linked to (`AddedLinks`: the nearest there is when it is added).

**`NifScene`** is `load_nif_scene` up to the animations. The recursion is `stack`: a step handles one child of the top frame, and
the mode of a frame says whether the node is handled as an `NiNode`, an LOD or a switch (only `process_ni_node` knows the subclasses).
`kids` is the Godot scene, a function from Godot nodes to their children in order, because hiding a level means hiding the *last* child.
`skel` is `skeleton_cache` with the maps keyed alike: host, bones in order, links, the number of binds of the shared Skin, and the
bookkeeping of the rotation correction (`Track`). A shape's skeleton is made (`FirstSkeleton`), or shared: then it moves to the common ancestor if the
shape's node is not below its host (`Rehosted`), and grows by the bones it misses, in one of their orders (`Growth`, `Grown`). A NULL child is a child of kind "skip": it is counted and leaves nothing. After the traversal each skeleton of the cache has its pass of
`reparent_bone_attachments` (`Attach`, in any order, since the map is ordered by address), then `Correct` turns skeletons. `Throw` is the `catch` of `load_nif_scene`.

**`NifMaterial`** is what a shape's properties become: where a texture is found, which slot gives the albedo, transparency, and when the team colour shader is used.

**`NifAnimation`** extends the traversal with the controllers it collects (`pending`) and the materials it decides, then builds
the tracks of the two players, one controller or one action of the `.kfm` a step. A track keeps its node and, as `path`, the nodes the path
named when it was taken; `ready` are the players that have got their library. The end of the load clears the caches (`Clear`); an exception does not.

**`HostCallbacks`** is the `FXml` the game DLL navigates, behind the relay's XML interface: the document held, the cursor (a document *and* a node, since a failed
load destroys the document under it) and `loaded`, with every navigation, count and read. A document is a tree of elements and texts; of a text only the length is
kept, of the 1024 characters of the buffers a small number. `Searched` are the layers of an install that `resolve_xml_path` tries; the enumerations return names or full paths of
some of them. The DLL is any sequence of calls. Of the navigation only `cb_xml_locate_node` looks at `loaded`; every other call on a destroyed document is
`UseDestroyed`, which may leave the cursor at any node of it or none and return anything. The two reads that fill no buffer of the relay's (the size of a text, the tag's name) change nothing and are left out.
`trail` (how it came down) and `loads` are history variables.

**`FpkArchive`** is the list of files at the head of an archive, byte by byte: after each path the loader looks at 30 bytes and searches them backwards for `bsu` (the
next path's `art` as it is stored) or `03 00 00`. `ReadPath` and `ReadData` are the halves of the loop's body; `entries` and `first` say what was packed, for the properties only. The header's count is the number of entries, as any archive of the game has it; a read past the end of the file returns what there is, as Godot's `get_buffer` does. `Packed` is
the layout the loader relies on, `Regular` and `Plain` the archives whose markers cannot mislead it, or not for long.

**`MainMenu`** is the menus that are visible, the bar with its two buttons, and one action per press. **`AssetCycler`** is the viewer: one action per key and
`Frame` for `_process`; `Load` is `_load_asset` with its early end when the file cannot be had. `view`, `red`, `playing` and `hud` are what is to be seen.

**`FrontEnd`** composes the two and `FpkArchive` with the scenes from the splash screen on, over several sessions: `config` outlives a session and is saved key by key (`SaveValue`); the
installation may change between sessions (`exe`), and the file a user chooses may be any (`SelectFile`); `quit` takes effect at the end of its frame (`QuitEnds`); `Close` ends the program between any two steps. `Program` are the steps that happen by themselves, `User` those that do
not. The host's calls are answered, fail (`CallReturns`) or are never answered (`CallBlocks`); `Bridge` has when.

Each module contains, next to a few definitions, a mutated form of it named for
the mistake (`HeaderTimeoutRetries`, `DispatchTwice`, ...). They are used by no
action; substituted for the original they show that the property listed with them
in `PROJECT.json` fails, that is, that it depends on the code.

## 4. The runs

| Run | Constants | Shows |
|---|---|---|
| `bridge` | lengths 0, 3, 6; buffer 5; limit 7; stray word 5; 3 requests | the safety invariants of the bridge, its refinement of RequestReply, that a call on an intact stream returns and that a served host ends (1.9 million states) |
| `bridge_own_reply` | length 3; stray words 5 and 40; limit 50; buffer 7 | finding: a call can return the response to a ping or to an earlier call |
| `game_host` | 5 mods: no mod, two with whole DLLs (one of them with a null `getInstance`, one with XML exports), one with an incomplete DLL, one without a DLL; 4 inits | four safety invariants, refinement of DataService (31 000 states) |
| `data_extraction` | one type of each layout with 1 to 3 infos, one with none; buffer 4; 3 queries | the three safety invariants of extraction (40 000 states) |
| `extraction_header` | two types of one field; buffer 4; 2 queries | findings: a failure is answered with ok, and with a sentence as an info; rows of another type are served |
| `vfs` | 2 installs, 6 paths, 2 loose paths, 2 sessions, 1 edit | the invariants of VFS (0.58 million states) |
| `vfs_cache` | same, no edits | finding: one install's extracted files are served to another |
| `nif` | 6 852 files of 6 objects, of seven tree shapes | what a load makes of a NIF: the scene, the skeletons, the levels, the correction, the attachments; what the tracks of both players reach, and which players it leaves behind, whole or not (190 000 states) |
| `nif_levels` | same | finding: of an LOD more or less than the visible child is drawn |
| `host_callbacks` | 3 documents, 2 names, 18 installs; 2 loads, depth 2, buffer 5 | where the cursor can be, whether counts agree with steps, from where files are loaded |
| `front_end` | 2 sessions, archives of two files each with 2 to be read, 2 queries, 3 assets, 3 listings, 2 targets | configuration, verification, archives, menu and viewer; that the init scene ends (45 000 states) |
| `front_end_documents` | same, 1 session, no archives, no queries | findings: a chosen file is not hashed; "Everything visible" hides the labels; an asset moves while the rest pose is announced |

The bounds. Three requests are what the interesting histories need: one whose
response is left behind (a ping or a call that timed out), one that receives it,
and one that shows that the order is kept after that; shutdown requests come on
top of them. The lengths are one response that fits into the receive buffer, one
that does not (the payload can then only time out) and the empty one. The buffer
holds one header and a byte, or one whole short frame and not two, so that frames arrive in
pieces, across reads, with parts of two in the buffer at once. `Bogus` gives the
stray words that can appear when the framing is lost: one that is shorter than
what follows and one that is longer than all the host will ever send. All bounds
are in the constants; the only bound in a guard is `MaySend`, on the number of
requests.

In `game_host` four inits allow a first that serves, a second of another mod that
fails after its relay was loaded, a third that fails in wiring and calls `unload`, and one more
to meet what these left behind; the mods differ in every respect the code tests. `MaxInits` is the bound,
in the guard of `BeginInit`; other commands are not bounded.

In `data_extraction` the buffer takes one row of the longest layout but not two, so that
a failed script leaves its rows partly in the file and partly in the buffer, at a
position behind its start; rows of different widths make the leftover begin in
the middle of a row. Three queries are one that fails, one that fails over its leavings, and one that succeeds.

In `vfs` the first install has a path in its lowest and, spelled differently, in its highest archive, two more paths of the same
file name, and an archive without entries; the second has different contents under two of these paths, one of them in
two archives. One path has a loose file and no archived one, one is in
no archive at all and resolves by its name, one lies in a directory whose name begins with that of another. Two sessions are
what a file of an earlier one takes; one edit in a session suffices for a lookup to be out of date. `MaxSessions` and `MaxEdits` bound
`StartSession` and `Edit`; the calls in a session are not bounded.

Most NIF files of `nif` have nothing to animate. They are four families, the first three all that five trees of six objects give: two shapes on one skeleton with every choice of its
root and of each shape's bones (one or two of them, of the second shape also the root itself), the second with or without skin data where it has one bone; an LOD, a switch or a billboard at every inner node, with shapes skinned or not, empty or not;
two skeletons, the second possibly on a bone of the first; and, on a sixth tree, three shapes with every combination of a few prefixes and turns around the thresholds of 5, 15 and 20 degrees.
Six objects are what it takes for two sibling branches with a shape and a bone each, or a chain of bones between skeleton root and shape. The fifth family is one more tree, with few skins,
every choice of controllers, every list of actions over an opaque material, and every material under the actions that animate materials. Nothing bounds a load but its file.

In `host_callbacks` the documents have texts between elements, tags that repeat on a level and on the next one, a text longer than the buffer and one as long; the installs have a name in each
layer, in several, malformed, or nowhere. Two loads are a good one and a bad one, in both orders; `MaxLoads` and `MaxDepth` are in the guards of `LoadXml` and `SetToChild`.

In `front_end` the signatures are 4, 15 and 16 bytes long (the window of 30 bytes just takes the marker, or just does not), names have the marker twice, only, or not at all, data that looks like a marker
is among the first file's. Two sessions are one that is killed while it saves and one that finds what that left; `MaxSessions` bounds `Start`.

`CHECK_DEADLOCK FALSE`: the system may rest, with the client gone and the host
exited or waiting; `GameHost` ends in `exited`, `DataExtraction` with its last query, `VFS` and
`FrontEnd` with their last session, a NIF with its load. `host_callbacks` is checked for deadlock.

**Fairness** (`Fairness` in `Bridge`). A call's next step, because Godot's main loop
runs and its timers expire; the host's next step, because the operating system
schedules it and a command takes the game DLL finite time; one of connecting to the host and
giving up, because `spawn_host` counts its own time (none for meeting another process); the ping, because the timer repeats; the end
of `shutdown`, because its timer expires. There is no fairness for starting calls, for closing, or
for crashes. All of it is weak fairness: none of these actions has to be taken because
it is enabled now and then. `FramedCallReturns` needs the first two: the drain's blocking read
ends because the host goes on sending. In `FrontEnd` fairness is assumed of `Program`, because Godot's timers and frames go on and a
handler that has begun goes to its end, and of `CallReturns`, which `Bridge` shows for intact streams; `CallBlocks` may happen
all the same, and `InitEnds` says so. There is none for the user. `HeaderHolds` is a disjunction of two temporal formulas; its run assumes that a script that has ended is answered (`FairSpec` of `DataExtraction`), since nothing waits in between.

## 5. What the properties say

Several invariants are conjunctions of named parts, one run checking them together; the parts are named in parentheses. Each module's
type invariant is one of the parts.

Of `Bridge`:

* `AnswersInOrder`: the k-th response answers the k-th request; there are never
  more responses than requests; frames do not overlap.
* `OwnReplyIffNothingOwed`: nothing in a response says which request it
  answers, and `_send_and_recv` takes the first one. It gets its own exactly if, when it
  sent, every earlier request had been answered and every response read. `clean`
  records that. The condition is exact in both directions: draining what has
  arrived is not enough, and nothing else is needed.
* `FramingKept`: between calls the client is at the start of a frame unless a
  call has left a payload behind; `split` records that, be it by a timeout in
  phase 2 or by the rejection of a length whose payload follows (the drain rejects
  the limit itself, phase 1 accepts it). It holds although responses of length
  zero are rejected, since no payload follows them.
* `CallsSafe`: no ping goes out during a call (`NoPingDuringCall`, what the comment at HostBridge.gd:184 does achieve); what is delivered fits the socket's
  receive buffer, in which phase 2 waits for all of it (`DeliveredFits`); `connection_lost` is emitted at most once, and only when the other end is gone, the host's if the host it was (`LossIsReal`).
* `ImplementsRequestReply`: the refinement; `up` is `_connected`, `asked` the
  number of requests written, `call` whether a call waits or has just been
  answered, `delivered` is `got`. A response that is delivered a second time is no
  step of RequestReply.
* `FramedCallReturns`, `ServedHostExits`: liveness, above. The host in question is one the client has reached: a host that was started while the client met another process waits in `accept` for ever.

Of `GameHost`:

* `HandlesSafe` (`HandlesMapped`): every handle is of a module that is in the process, and the function
  pointers used under it are that module's. Loading overwrites handles without
  looking at them, and a failed `load` leaves pointers into a freed DLL behind; what
  saves it is that `m_hDll` is reset in the same place.
* `CallbacksReach`: the game DLL calls back in the middle of its initialisation; at
  that time it is wired, the relay's table is set, and `g_basePath`,
  `g_modName`, which every init replaces before anything can fail, are those of the DLL that is running.
* `WiredRelayStays`: a failed wiring unloads the relay although an earlier init's
  DLL still points into it. It survives because every init takes a reference of its own
  and `unload` returns one.
* `ServedIsUsable`: a bridge that is initialised has the bindings of a DLL that
  is loaded, wired, and initialised once, whatever failed since; XML data is loaded into no other.
* `ImplementsDataService`: `serving` is the bound DLL once the bridge is initialised.
  An init of another mod is answered with ok and leaves the first one's data in service.

Of `DataExtraction`:

* `OwnRowsFirst`: a script that ran to its end answers with all of its rows, first
  and in order, since the leavings are written before it writes and it writes from the start of the file.
* `ForeignOnlyLeftOver`: how far the damage of a failed script can reach: one query further, and only
  as far as its rows reach beyond the new ones.
* `ExtractionSafe` (`AnswerToFailure`): the answer after a failure is determined by the query and by the kind of failure, whatever the file and the buffers hold: neither the rows a failed script
  wrote before it failed nor anyone else's. It is an error only if the script handled its exception. Otherwise the error's own sentence is parsed: it is served as the one info of a type with one field
  (promotions, bonuses, civilizations, eras), while the other types have no infos. That is not what the header promises (`EmptyOnError`).

Of `VFS`:

* `IndexesSafe` (`IndexByPriority`, `NamesByPriority`): what a sequence of assignments to two dictionaries, in four loops, amounts to: the last entry of a
  path, and of a file name, in the order of the archives. The second index must name a path that the first has.
* `DataByPriority`: what `get_file_data` serves, against the archives themselves and not against the indexes. The only exception
  is a loose file that appeared after its path was first looked up; one that disappeared is made up for, because
  the file cannot be opened and the archives are next.
* `ViewsAgree`: the scripts read bytes, the C++ side reads paths; both must see the same file. Each of
  the two conditions is needed: a cache directory filled by another install, or a loose file that came or went, lead
  the two apart. A write that was cut short does so too, and there the property says exactly what happens: nobody looks at `store_buffer`'s result (VFS.gd:284) and the short file
  exists (VFS.gd:272), so it is served, in this session and all later ones; every other file is whole.
* `FoundIsServed`: `find_files` looks at the disk, the lookups at what they remember.

Of `NifScene`:

* `SceneIsTree`: skeletons move up, nodes move under attachments, and an attachment hangs under a skeleton that may itself lie below the node: nothing is lost, nothing
  has two parents, no cycle is closed.
* `SkeletonOverItsShapes`: whichever branches the shapes of a skeleton come from and in whichever order, it ends under a node that is over all of them.
* `SkeletonsFit` (`BonesAreAForest`, `WeightsBound`), in whatever order bones of one depth are added: the meshes built first hold indices into a skeleton that grows afterwards; those stay inside the Skin the mesh was given, and they
  still mean its own bones.
* `LevelsHidden`: the nodes of an LOD or a switch that are in the scene are hidden but for the one kept, if no skeleton is shared across its levels. `hidden` is written by "the last
  child", which is another node when a shape was passed over or hung on a skeleton.
* `TurnedSafely`: a skeleton is turned for meshes that agree about it: prefixes within 30 degrees of each other (15 from the first, either way), and after a move none that turns already.
* `AttachmentsFollow`: after a skeleton's pass, what hangs below a bone of it hangs on an attachment, unless it carries the skeleton itself.

Of `NifAnimation`:

* `TracksReach` (`TracksResolve`, `BonesMoveOnSkeletons`): paths are taken after the last node has moved, and a bone's keys go to its skeleton, never to the `Node3D` that mirrors it.
* `PlayersSafe` (`PlayersComplete`): the scene's player is put in the scene before there is a track for it, and goes again if there is none. After a load that an exception ended, exactly the player it was
  building is left without a library.
* `MaterialTracksApply`: controllers are collected before the materials are decided, and none drives a property of a `ShaderMaterial`; an alpha track has a material that is not opaque.

Of `HostCallbacks`:

* `CursorSafe` (`CursorInDocument`, `TrailAbove`): while `loaded` holds, the cursor is an element of the document that is held, and however the DLL went along siblings, `SetToParent` takes it back
  to where it came from. `answer` stays within the relay's buffers. Nothing is claimed of a use of a destroyed document, but that the next load is none the worse for it.
* `CountsAreSteps` (`AllCountsAreSteps`, `TagCountsAreSteps`): a loop that counts children, siblings or elements and then steps as often meets exactly those, with texts in between and tags that repeat. The loops begin at the first element, which host_callbacks.cpp:383 calls the SDK's only usage: from a later one `NumSiblings` is too large by the code's own account.
* `LoadsFromTop`: the first layer that has the file is the one it is loaded from.
* `ListedFilesLie`: every name listed can be loaded, and where the mod has it, is loaded from the mod.

Of `FrontEnd`:

* `StoredComplete`: the program decides by one of six keys whether it is configured; as that one is saved last, a session killed between two of them leaves no half configuration that counts.
* `StoredIsVerified`: a path that an earlier session stored leads past the verification only to the right executable, whatever became of the file; `hash_file` quits, but `_ready` goes on. For a path chosen in this session there is no such property: `EntersHashed` is one of the claims below.
* `ListsRight` (`AcceptedIsRight`, `PlainIsAccepted`): of the markers found in binary data, some are wrong; an archive in which that happened is noticed by its number of files, but for the last entry; and an archive whose
  markers are in their places is not refused.
* `ScreenSafe` (`MenuConsistent`): one menu at most, and the bar's button that fits it. `BackLeadsUp`: the way back leads to the menu with the button that opens this one, and from the empty screen behind a button that opens nothing to the top.
* `ViewerTells` (`ShownAsAnnounced`, `LabelsAgree`, `ClipPlays`): with an asset in the viewer, meshes, overlay and materials are what the name of the mode announces (a table of its own, `ModeShows`, not the code's `Parts`), also when
  the settings were changed while nothing was there; the labels are of one asset, the one shown or, after a load that failed, the one before; a clip that was asked for is the one that plays. Mode 6 is only held to "some overlay" here, and "(none)" to "nothing
  was started": what the comments say of both is in the claims `EverythingVisible` and `RestPoseAtRest` below.
* `AutoCycleTriesAll`: an auto-cycle that comes to its end has come to every asset, whatever was loaded in between. `tried` and the place in the list go together within one auto-cycle; what can go wrong is that a new one does not begin at the beginning.
* `InitEnds`: liveness, above.

The claims `ReplyMatchesRequest`, `AllOfTheType`, `EmptyOnError`, `CacheServesArchive`, `LevelsDrawn`, `EntersHashed`, `EverythingVisible` and
`RestPoseAtRest` are statements of the code's comments and documents that its behaviour contradicts; `PROJECT.json` quotes the lines. Claims about one component share a run, which checks that a history
(`HeaderHolds`) or a state (`DocumentsHold`) keeps at least one of them: its counterexample contradicts them all.

Smaller disagreements and oddities that the models contain or that came up in writing them, without a run of their own:

* While `spawn_host` tries to connect, nothing tells another process that has taken the released port from the host that was started (HostBridge.gd:169 and 78-90; `HandshakeOther`): it returns true, and the host has
  exited or waits for ever.
* An exception that ends a load in the middle of `build_scene_animations` leaves the scene's player without a library, though nif_controllers.cpp:512 removes an empty one. The place to expect one is the call of `NormalizeKeys` at
  nif_controllers.cpp:360, which alone is not guarded against what line 310 says of it; `load_nif_scene` catches and removes nothing (gdext_niflib.cpp:349).
* A skeleton root that is itself a bone to be added comes after the bones below it, which then do not get it for a parent: depths are counted up to the skeleton root, and its own to the root of the file (`Depth`;
  nif_skinning.cpp:97). The comment at line 92 says that parents are added first.
* "Mods/expansions override base" (VFS.gd:11) describes layers of loose files that the code does not have: there is one loose directory, and the order of archives in `initialize`. `VFS` models that.
* A host that dies between two calls is not noticed: the ping ignores whether it could be written (HostBridge.gd:280).
* A drain on a stream that lost its framing can block the program for good in `get_data` (HostBridge.gd:208): what `FramedCallReturns` excludes by `~split`.
* A host that listens too late, after its client gave up, waits in `accept` for ever (tcp_server.cpp:73).
* `unload` frees the relay while the game DLL stays (dll_loader.cpp:455 has it the other way round); `init` is answered with ok when XML loading has failed, in part or altogether
  (`LoadXml` of `GameHost` may leave `data` as it was).
* A path that is only found by its bare name is served from the archive even
  if a loose file overrides the path it was led to (VFS.gd:140); `find_files` takes its prefix as text in the archives and
  as a directory on disk (`Prefixed` and `Below`; VFS.gd:218).
* `Global.host_bridge` names a node that was freed with the init scene's tree (Global.gd:36).
* What `NiStencilProperty` sets is set again before the material is returned (`Cull`; nif_materials.cpp:377).
* A `.kfm`'s clips cannot be chosen in the viewer when the file has scene controllers too: the first player is taken (`Picked`; AssetCycler.gd:262).
* Every debug mode but one shows all meshes, those included that an LOD had hidden (`Applied`; AssetCycler.gd:348).
* F6 calls itself for ever when the VFS has none of the targets (`CycleDiagTarget`; AssetCycler.gd:492).
* Without Sylfaen the menu is shown and no button of it works (`EnterMenu`; MenuScene.gd:32).
* A load that ends by an exception leaves the caches of `GdextNiflib` filled (gdext_niflib.cpp:349); the viewer takes a new object for each load (AssetCycler.gd:252), so that nothing comes of it.
* A controller of a node without a mesh of its own may be given a sphere of the bone visualization (`Meshes`; nif_controllers.cpp:171).

## 6. The proofs

`BridgeProofs` proves, for every value of the constants that `LinkAssumption`
allows (any set of lengths, any stray words, any buffer of at least a header,
any number of requests), that the specification implies each safety property of
`bridge` and the refinement.

None of the safety properties is inductive. `IInv` strengthens them, one conjunct per
matter: `HostOrder` (the number of responses follows from the host's place in its
loop), `StreamOrder` (frames adjoin, the client is behind what has arrived, what
is unread fits the buffer), `ClientPhase` (the flags in each phase, and that a
closed connection means that its other end is gone, with the host if it was the host's), `ReplyDue` (a waiting call stands at the
place where its own response will start if nothing was owed, and before it
otherwise: what makes `OwnReplyIffNothingOwed` inductive), `Seen` (the response returned last lies behind
the client's position, hence none is returned twice), `Framing` (`FramingKept` extended
to the middle of a message). Adding `IInv` to the
invariants of `bridge.cfg` checks it on the small instance first.

The argument: `StreamTypes`, `FrameBounds` and `Boundaries` are facts about adjoining
frames; `ClientFootprint`, `HostFootprint` and `DispatchAppends` say what a step of
each side can change, so that each conjunct's lemma (`HostOrderStep` ...
`FramingStep`) treats the steps that matter to it one by one and the rest
together. `Invariance` combines them, and the property theorems follow from it.
`Refinement` maps every step to a step of RequestReply or to a stutter; delivery
is the one step that needs the invariant, for the response must be newer than the
last and answer a request that exists.

`GameHostProofs` proves the same for `GameHost`: every invariant of `game_host` and
the refinement of DataService, for any mods and DLLs with any defects and any number of inits. `IInv` adds
`StageFacts` (what each stage has established: the relay's handle, that the DLL is the
mod's own, the wiring), `RelayCount` (an init that is loading holds a second
reference beside that of the init that was wired: why `unload` after a
failed wiring does not take the relay from under it) and `WiredLoaded` (no wired DLL
is ever freed). `RelayRefsNat` is the arithmetic of the relay's count; `LoadRelayStep`, `WireStep` and
`EndStep` are the three actions that change it; the others follow in one step each.

`VFSProofs` proves every invariant of `vfs` for any archives, paths and installs, and any number of sessions and edits. `IInv` adds
`CacheGenuine` (a file in the cache directory is the content its path has in an install that wrote there, or is a cut one, or
is being written), `LookupsRight` (without edits the remembered lookups are true) and `CallRight` (what is being written is what the call
resolved). `LastStep` and `LastNext` say how "the last entry with a path in S" moves when an entry is indexed and
when an archive ends; with `S` a single path they give `IndexByPriority`, with `S` the paths of a name `NamesByPriority`. `Resolving` draws
the conclusion for a complete index: what a path resolves to is the best there is. `LastUnique` makes "the last entry" one, which
identifies a file in the cache directory with the archive's (`CachedIsBest`). `DataStep`, `ViewsStep` and `FoundStep` are the properties proper.

In these three modules `CallsHold`, `HandlesSound` and `IndexesHold` put the parts together to the conjunctions the runs check.

`FrontEndProofs` proves the safety invariants of `front_end` and its two action properties, for any listings, scenes, targets, fonts
and numbers of archives, queries and sessions. `IInv` has one conjunct per part: `Flow` (the scenes and stages; that the keys stored are a prefix of `Keys`, not shorter than what the session
has saved; that the scenes past the verification were come to with the right executable or a path just chosen), `MenuFacts`, `Viewer` (what is shown and said with an asset, and what holds of mode, label and clip without one) and `Cycles` (what an auto-cycle has tried are the assets before `next`). `MenuSteps` and `WorldSteps` say what a step
leaves alone, so that each conjunct has its own few actions; `SavesNext`, `LoadShows`, `DiagInList` and `ClipsOfAsset` are the facts about the saving order, a load, the target found, and the clips. The action properties follow from the
invariant before the step. The assumption is `Parameters`.

Of `FpkArchive` it proves `ListsRight` for every archive that is `Regular`: its names are text, each entry's marker is within the 30 bytes, and a marker behind its place can only be one that the
next path contains. That is the layout for which the search for the marker is written, and it is a condition and not an assumption on `Archives`: the run also has archives that are not regular, for which nothing is claimed in general,
since the bytes of a signature can be anything. `Reading` is the invariant: the loader is in its list (`OnList`: position, path and window are the entry's, and the files so far are the first ones) or `Astray`. It goes astray at a marker inside a path. The four bytes before that
are then taken for a length, and the highest of them is a character: the length is at least 2^29 (`TextWord`), more than the archive has. So the next path is the rest of the file, no byte is left to look for a marker in, and the loop ends with fewer files than it should.
`MarkAt`, `FoundBefore` and `FoundLast` say what the backward search finds, `PathInPlace`, `DataInPlace` and `StaysAstray` what a step makes of it.

`DataExtractionProofs` proves the three invariants of `data_extraction` for any numbers of infos of each type, any buffer and any number of
queries. `IInv` adds `Progress` (while a script writes, the rows so far are in the file up to the file object's position and on in its buffer, without a gap, and what lies
behind is a gap or was flushed by the file object that the script's `open` replaced: what `ForeignOnlyLeftOver` is about before there is an answer), `Complete` (the same after `close`, for all rows due)
and `Handled`. `Overwritten` is what a write to the file does to that; `WriteRowStep` and `CloseStep` use it for the front and for the rest of the buffer. The other half is about the
parser: `LineOf` finds the line that ends at a field, `OwnLines` that in a complete text exactly the multiples of the row's width end a line and each of these lines is the row that was written, `OwnItems` that
the k-th item is therefore the k-th row. No induction is needed, because lines and items are put in order by `InOrder`, which takes the number of rank k in a set: `RankTaken` and `OrderAt`
are facts about cardinalities of finite sets. `ItemFields` does the same for the prefix up to a zero byte, and `Sources` says whose a field that is served can be.

`HostCallbacksProofs` proves the four invariants of `host_callbacks` for any documents, installs, buffers and numbers of loads, and any sequence of the DLL's
calls. `IInv` has two halves that do not depend on each other: `CursorInv` adds `CursorPlaced` (a cursor that was ever set is at a place of its document, the document node or an element and never a
text, whether or not a load has failed since) to the two parts of `CursorSafe`, and `FilesInv` is `LoadsFromTop` and `ListedFilesLie`. `FirstOf` and `FinalOf` are the least
and the greatest node of a set; `Siblings` and `Upwards` what a document being a tree gives; `ResolvesFromTop` and `Listings` what the layers give. `CountsAreSteps` needs no
invariant but an induction over the steps of a loop: `FirstRank` and `NextRank` say that going on to the next sibling raises the rank by one, hence (`Loop`, `AllMet`) a loop that takes
as many steps as were counted meets all that were counted; `TaggedMet` is the same for those of one tag.

`Orders` and `OrderLemmas` are what the proofs share: a finite set of numbers in its order (`InOrder`: the number of rank k), the elements of a sequence at some indices (`Selected`),
least and greatest members, induction up to a number (from the least counterexample) and the recursive functions it justifies. They replace folds and sorts, about which nothing can be proved here.

`NifProofs` proves every invariant of `nif` and the action property `AttachmentsFollow`, for any files (any number of objects in any tree, any skins,
levels, turns, controllers and actions). The parts of its invariant:

* `Types` and `Weighed`, about skeletons without the scene: the binds of a mesh are the first ones of its skeleton's bones and are its own, whatever
  the skeleton has grown by (`mesh.weights` and `mesh.binds`); the host is over every shape built on it; what `alike` says of the prefixes (`TurnedSafely`).
* `Calls`: the stack of the traversal is a path of the file. `Unmet` are the objects still to come; each of them is met once.
* `Hangs`: `Sound` (the scene is a tree, each skeleton in its cache hangs on the node of its host), `Settled` (what was met has its place, what was not has none) and,
  while the traversal lasts, `Follows` (below a node hang only nodes of its children in the file and skeletons, below a skeleton its debug mesh and shapes). A move of a skeleton to its new host closes no
  cycle because the host is the node of an `NiNode` and below a skeleton there are only leaves (`MovedTree`). An attachment is one run of steps,
  each of which adds a new node or moves one under it; `TreeAdded` and `TreeMoved` say what these leave alone.
* `Shows`: which of the nodes of a level are hidden. A node comes below the node of its call and is the last there unless a skeleton has been moved behind it (`Lasts`), which is the case
  the invariant `LevelsHidden` excludes by its condition; `Levels` says for each level, past and present, that the hidden ones are those met but for the one kept.
* `Loading`, for the whole load: `Traversed` while the scene is built; `Cast` (the scene is that of the traversal with no, one or both players at the end of the container, in order); `Lined` (each skeleton had its
  pass); `Playing` (whose the tracks are, and that a scene player that is ready has one). A path is followed to one place only, since the scene is a tree, and the players are added without changing what lies below the
  container's first child: why a track taken earlier still leads to its node. Materials keep their kind from the traversal on (`MaterialsKept`), so what was decided for one controller holds for the next.

In these proofs a tree (`Tree`) is a function from nodes to the sequences of their children in which no node occurs twice, and in which all that has a place or a child lies under the container; `Below` characterises `Under` as the least set closed under children, which makes induction over the scene unnecessary.

Only model-checked: the liveness properties, which are outside what the prover handles (`FramedCallReturns`, `ServedHostExits`, `InitEnds`); and the findings, each of which is a counterexample.

The assumptions are `LinkAssumption` (sizes are numbers, the buffer holds a header),
`HostAssumption` (`None` is no mod, the mods with DLLs are mods), `ExtractionAssumption`, `VFSAssumption` and `DataAssumption` (the functions on
paths have the domains and ranges their names say; `None` and `Torn` are no content), `CallbacksAssumption` (documents are trees whose texts have no children and that have a root element; the relay's buffers take
more than a few characters), `FilesAssumption` (a NIF is a tree of `NiNode`s with leaves; a skin's root is above its shape and its bones differ), `AnimationAssumption` (the types of
controllers and of the links of a `.kf`) and `Parameters`; TLC evaluates them in every run.
## 7. Not modelled

* Time. Timeouts are nondeterministic; that a timeout is 5 s or 60 s does not
  matter to the properties.
* A connection attempt that is still pending when the client abandons it. On the
  loopback interface an attempt succeeds or is refused at once.
* The contents of messages: JSON, UTF-8, the commands' parameters.
* A request too large to send, or a send that blocks: requests are a few
  hundred bytes and the client waits for each response.
* A second client. The host accepts once.
* What the game DLL itself computes, and its damage: a DLL that crashes is
  assumed to leave the loader's tables intact.
* File names that the disk treats differently from `_normalize_path`: the original game's file system does not tell
  upper from lower case, and neither does the model.
* Decoding of images and fonts.
* A configuration that cannot be written: `ConfigFile.save` is assumed to succeed.
* The viewer's lights (F7), where it puts an asset, and what it prints; the camera and the 3D views: per-frame arithmetic without state that outlives it.
* Of a NIF: vertices, normals and the numbers in transforms and keys; lights, particles, collision objects, extra data, the header queries. Rotations are angles about one axis.
* The relay's interfaces other than XML and file lists: they return constants.
* niflib, qhull and the other vendored libraries; the developer scripts beside the host.
