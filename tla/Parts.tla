-------------------------------- MODULE Parts --------------------------------
(***************************************************************************)
(* Components that share no state in these models, side by side: external *)
(* clients, the handle tables, the timers and file watches, the realtime   *)
(* sampler, the operations of pages on effects, the views of the Windows   *)
(* back end, the redrawing of its Dockers, the inspectors of the three     *)
(* systems, the keys of pages in REAPER and where windows were.  One of    *)
(* them moves; MC_Parts chooses it.  PartsProofs and, of keys and clients, *)
(* StreamsProofs prove about them what the run of MC_Parts checks.         *)
(***************************************************************************)
EXTENDS Naturals, FiniteSets

CONSTANTS
  Visitor, Rival,
  Contexts, Addresses, NoObject, MaxObjects, MaxTokens, MaxResets, PruneStep,
  Windows, Callers, MaxIds, WatchLimit, TimerLimit, ChangeLimit, EventLimit, MaxFound,
  Subscribers, Rates, MaxSerial, MaxActive, MaxFailures,
  Gestures, Notes, Uploads, Undone, NodeLimit, MaxDocuments, MaxEffects,
  Apps, FxPages, MaxNavigations, MaxViews, MaxAttempts,
  Dockers, Nested, MaxDepth, MaxNested,
  Frames, MaxPresses,
  MaxFronts,
  Shortcuts, Space,
  Single, Several, Overlays, Spots, MaxSessions, MaxSaves, FewSaves, MaxMoves, FewMoves, MaxCrashes, FewCrashes

ASSUME ClientsAssumption ==
  \A r \in {Visitor, Rival} :
    /\ IsFiniteSet(r.connections) /\ r.connections = 1 .. Cardinality(r.connections)
    /\ {r.sockets, r.pending, r.output, r.requests} \subseteq Nat /\ {r.secrets, r.projects} \subseteq Nat \ {0}
ASSUME HandlesAssumption ==
  {MaxObjects, MaxTokens, MaxResets, PruneStep} \subseteq Nat
ASSUME TasksAssumption ==
  /\ {MaxIds, WatchLimit, TimerLimit, ChangeLimit, EventLimit, MaxFound} \subseteq Nat
  /\ ChangeLimit + WatchLimit <= EventLimit
ASSUME SamplingAssumption ==
  /\ {MaxSerial, MaxActive, MaxFailures} \subseteq Nat
  /\ Rates \subseteq 1 .. 120
ASSUME ControlAssumption ==
  {NodeLimit, MaxDocuments, MaxEffects} \subseteq Nat /\ "nobody" \notin Gestures \union Notes
ASSUME ViewsAssumption ==
  {MaxNavigations, MaxViews, MaxAttempts} \subseteq Nat /\ MaxAttempts > 0
ASSUME DrawsAssumption ==
  {MaxDepth, MaxNested} \subseteq Nat
ASSUME InspectorsAssumption ==
  0 \notin Windows \union Frames /\ {MaxPresses, MaxFronts} \subseteq Nat
ASSUME RoutesAssumption ==
  /\ Shortcuts.route = "shortcut" /\ Space.route = "space" /\ \A a, b \in Space.keys : a = b
  /\ \A r \in {Shortcuts, Space} : IsFiniteSet(r.keys) /\ {r.limit, r.documents} \subseteq Nat \ {0}
                                  /\ {r.presses, r.wire} \subseteq Nat
ASSUME PlacesAssumption ==
  /\ {MaxSessions, MaxSaves, FewSaves, MaxMoves, FewMoves, MaxCrashes, FewCrashes} \subseteq Nat
  /\ IsFiniteSet(Single) /\ IsFiniteSet(Several) /\ 1 \in Spots /\ 0 \notin Spots

VARIABLES
  part,
  channel, sockets, listed, guests, settings, project, known, served, turn, reached,
  heap, allocated, handles, scan, tokens, resets,
  sequence, watches, windowOf, timers, events, todo, found, due, output, lost,
  subs, made, rate, thread, stop, mutex, call, streams, attached, used, failures, shut, stray,
  ops, commands, queue, started, results, document, documents, releases, holder, changes, ran,
  env, tries, waiting, pool, target, blanks, win,
  above, shown, parents, children, suppressed, depth, draws,
  opening, dev, frame, asked, late, key, posted, toggles,
  webkit, leaving, view, visible, pending, requested, detaching, floating, container, ownWindow, hid, mode,
  native, front, inside, where, window, flights, ready, raised, mac,
  page, toHost, toPage, desk, strokes, down, pressed, focused, reaper, presses,
  open, session, cache, files, saves, leftAs, moves, crashes

clientVars == <<channel, sockets, listed, guests, settings, project, known, served, turn, reached>>
handleVars == <<heap, allocated, handles, scan, tokens, resets>>
taskVars == <<sequence, watches, windowOf, timers, events, todo, found, due, output, lost>>
samplerVars == <<subs, made, rate, thread, stop, mutex, call, streams, attached, used, failures, shut, stray>>
controlVars == <<ops, commands, queue, started, results, document, documents, releases, holder, changes, ran>>
viewVars == <<env, tries, waiting, pool, target, blanks, win>>
drawVars == <<above, shown, parents, children, suppressed, depth, draws>>
winVars == <<opening, dev, frame, asked, late, key, posted, toggles>>
gtkVars == <<webkit, leaving, view, visible, pending, requested, detaching, floating, container, ownWindow, hid, mode>>
macVars == <<native, front, inside, where, window, flights, ready, raised, mac>>
keyVars == <<page, toHost, toPage, desk, strokes, down, pressed, focused, reaper, presses>>
placeVars == <<open, session, cache, files, saves, leftAs, moves, crashes>>
partVars == <<part, clientVars, handleVars, taskVars, samplerVars, controlVars, viewVars, drawVars, winVars, gtkVars, macVars, keyVars, placeVars>>

\* One client with every kind of request, a change of the settings and of the project;
\* two clients beside a window that always has a request.
Clients(r) == INSTANCE ExternalClients WITH
  sessions <- guests, cursor <- served, ran <- reached, Connections <- r.connections, Ids <- r.ids, Kinds <- r.kinds,
  MaxSockets <- r.sockets, MaxPending <- r.pending, MaxOutput <- r.output, MaxRequests <- r.requests, MaxSecret <- r.secrets,
  MaxProject <- r.projects
\* Two documents in turn, three objects at three addresses: REAPER uses memory again while tokens are out.
Table == INSTANCE HandleTable WITH Nothing <- NoObject
\* Two windows and a service; a queue for two changes and four events.
Tasks == INSTANCE NativeTasks WITH Owners <- Callers
\* One window with two subscriptions of different rates, threads that cannot be started.
Sampling == INSTANCE Realtime WITH serial <- made, Windows <- Subscribers
\* An upload and a state that both need an Undo gesture, a queue of two;
\* two continuous commands of a document that goes, and comes back.
Control(rs) == INSTANCE JsfxControl WITH
  serial <- commands, owner <- document, owned <- documents, held <- holder, Requests <- rs, Undoable <- Undone,
  QueueLimit <- NodeLimit, MaxOwners <- MaxDocuments, MaxChanges <- MaxEffects,
  Kinds <- [r \in rs |-> IF r \in Uploads THEN "upload" ELSE IF r \in Notes THEN "continuous" ELSE "state"]
\* A floating window that is docked and undocked, environments that fail, blank views made in advance;
\* a page inside FX windows.
Views(ws, fx) == INSTANCE WindowsViews WITH attempts <- tries, made <- blanks, Windows <- ws, Hosted <- fx
\* Two pages, two windows above them; two pages in one window, brackets that are nested.
Draws(hs, most) == INSTANCE WinDockRedraw WITH inside <- above, Children <- Windows, Hosts <- hs, MaxDepth <- most
\* Two pages with inspectors on Windows, a shortcut that is held; no frame comes after its deadline, which the
\* next page would claim.
Win == INSTANCE WinDevTools WITH MaxLate <- 0
\* The inspector on Linux.
Gtk == INSTANCE GtkDevTools WITH window <- ownWindow, place <- container
\* The inspector on macOS, made twice.
Mac == INSTANCE MacDevTools WITH d <- mac
\* A shortcut of a page that is reloaded, closed while it cleans up, and fails;
\* space in a page of an effect that is parked and taken back.
Routed(r) == INSTANCE KeyRouting WITH
  s <- desk, events <- strokes, keys <- pressed, Route <- r.route, Keys <- r.keys, Hosted <- r.hosted, Cleans <- r.cleans,
  QueueLimit <- r.limit, MaxDocs <- r.documents, MaxPresses <- r.presses, MaxWire <- r.wire
\* A window that is moved, docked, hidden and opened again after exits and crashes;
\* a window and a transparent one of the same page, a worker that is busy.
Saved(ws, qs, ms, cs) == INSTANCE WindowState WITH
  w <- session, queue <- saves, left <- leftAs, Windows <- ws, Floating <- Overlays, MaxOpen <- MaxSessions, Places <- Spots,
  QueueLimit <- qs, MaxMoves <- ms, MaxCrashes <- cs

\* A component that does not move stays at 0.
NoClients ==
  channel = 0 /\ sockets = 0 /\ listed = 0 /\ guests = 0 /\ settings = 0 /\ project = 0 /\ known = 0
  /\ served = 0 /\ turn = 0 /\ reached = 0
NoHandles ==
  heap = 0 /\ allocated = 0 /\ handles = 0 /\ scan = 0 /\ tokens = 0 /\ resets = 0
NoTasks ==
  sequence = 0 /\ watches = 0 /\ windowOf = 0 /\ timers = 0 /\ events = 0 /\ todo = 0 /\ found = 0 /\ due = 0
  /\ output = 0 /\ lost = 0
NoSampling ==
  subs = 0 /\ made = 0 /\ rate = 0 /\ thread = 0 /\ stop = 0 /\ mutex = 0 /\ call = 0 /\ streams = 0
  /\ attached = 0 /\ used = 0 /\ failures = 0 /\ shut = 0 /\ stray = 0
NoControl ==
  ops = 0 /\ commands = 0 /\ queue = 0 /\ started = 0 /\ results = 0 /\ document = 0 /\ documents = 0
  /\ releases = 0 /\ holder = 0 /\ changes = 0 /\ ran = 0
NoViews ==
  env = 0 /\ tries = 0 /\ waiting = 0 /\ pool = 0 /\ target = 0 /\ blanks = 0 /\ win = 0
NoDraws ==
  above = 0 /\ shown = 0 /\ parents = 0 /\ children = 0 /\ suppressed = 0 /\ depth = 0 /\ draws = 0
NoWinspector ==
  opening = 0 /\ dev = 0 /\ frame = 0 /\ asked = 0 /\ late = 0 /\ key = 0 /\ posted = 0 /\ toggles = 0
NoGtkinspector ==
  webkit = 0 /\ leaving = 0 /\ view = 0 /\ visible = 0 /\ pending = 0 /\ requested = 0 /\ detaching = 0
  /\ floating = 0 /\ container = 0 /\ ownWindow = 0 /\ hid = 0 /\ mode = 0
NoMacinspector ==
  native = 0 /\ front = 0 /\ inside = 0 /\ where = 0 /\ window = 0 /\ flights = 0 /\ ready = 0 /\ raised = 0
  /\ mac = 0
NoKeys ==
  page = 0 /\ toHost = 0 /\ toPage = 0 /\ desk = 0 /\ strokes = 0 /\ down = 0 /\ pressed = 0 /\ focused = 0
  /\ reaper = 0 /\ presses = 0
NoPlaces ==
  open = 0 /\ session = 0 /\ cache = 0 /\ files = 0 /\ saves = 0 /\ leftAs = 0 /\ moves = 0 /\ crashes = 0
PartInit ==
  /\ IF part = "client" THEN Clients(Visitor)!Init
     ELSE IF part = "rivals" THEN Clients(Rival)!Init
     ELSE NoClients
  /\ IF part = "handles" THEN Table!Init ELSE NoHandles
  /\ IF part = "tasks" THEN Tasks!Init ELSE NoTasks
  /\ IF part = "sampling" THEN Sampling!Init ELSE NoSampling
  /\ IF part = "gestures" THEN Control(Gestures)!Init
     ELSE IF part = "notes" THEN Control(Notes)!Init
     ELSE NoControl
  /\ IF part = "presenting" THEN Views(Apps, {})!Init
     ELSE IF part = "hosted" THEN Views(FxPages, FxPages)!Init
     ELSE NoViews
  /\ IF part = "redraw" THEN Draws(Dockers, MaxDepth)!Init
     ELSE IF part = "nested" THEN Draws(Nested, MaxNested)!Init
     ELSE NoDraws
  /\ IF part = "winspector" THEN Win!Init ELSE NoWinspector
  /\ IF part = "gtkinspector" THEN Gtk!Init ELSE NoGtkinspector
  /\ IF part = "macinspector" THEN Mac!Init ELSE NoMacinspector
  /\ IF part = "shortcuts" THEN Routed(Shortcuts)!Init
     ELSE IF part = "space" THEN Routed(Space)!Init
     ELSE NoKeys
  /\ IF part = "places" THEN Saved(Single, MaxSaves, MaxMoves, MaxCrashes)!Init
     ELSE IF part = "slots" THEN Saved(Several, FewSaves, FewMoves, FewCrashes)!Init
     ELSE NoPlaces
PartNext ==
  \/ part = "client" /\ Clients(Visitor)!Next /\
     UNCHANGED <<part, handleVars, taskVars, samplerVars, controlVars, viewVars, drawVars, winVars, gtkVars, macVars, keyVars, placeVars>>
  \/ part = "rivals" /\ Clients(Rival)!Next /\
     UNCHANGED <<part, handleVars, taskVars, samplerVars, controlVars, viewVars, drawVars, winVars, gtkVars, macVars, keyVars, placeVars>>
  \/ part = "handles" /\ Table!Next /\
     UNCHANGED <<part, clientVars, taskVars, samplerVars, controlVars, viewVars, drawVars, winVars, gtkVars, macVars, keyVars, placeVars>>
  \/ part = "tasks" /\ Tasks!Next /\
     UNCHANGED <<part, clientVars, handleVars, samplerVars, controlVars, viewVars, drawVars, winVars, gtkVars, macVars, keyVars, placeVars>>
  \/ part = "sampling" /\ Sampling!Next /\
     UNCHANGED <<part, clientVars, handleVars, taskVars, controlVars, viewVars, drawVars, winVars, gtkVars, macVars, keyVars, placeVars>>
  \/ part = "gestures" /\ Control(Gestures)!Next /\
     UNCHANGED <<part, clientVars, handleVars, taskVars, samplerVars, viewVars, drawVars, winVars, gtkVars, macVars, keyVars, placeVars>>
  \/ part = "notes" /\ Control(Notes)!Next /\
     UNCHANGED <<part, clientVars, handleVars, taskVars, samplerVars, viewVars, drawVars, winVars, gtkVars, macVars, keyVars, placeVars>>
  \/ part = "presenting" /\ Views(Apps, {})!Next /\
     UNCHANGED <<part, clientVars, handleVars, taskVars, samplerVars, controlVars, drawVars, winVars, gtkVars, macVars, keyVars, placeVars>>
  \/ part = "hosted" /\ Views(FxPages, FxPages)!Next /\
     UNCHANGED <<part, clientVars, handleVars, taskVars, samplerVars, controlVars, drawVars, winVars, gtkVars, macVars, keyVars, placeVars>>
  \/ part = "redraw" /\ Draws(Dockers, MaxDepth)!Next /\
     UNCHANGED <<part, clientVars, handleVars, taskVars, samplerVars, controlVars, viewVars, winVars, gtkVars, macVars, keyVars, placeVars>>
  \/ part = "nested" /\ Draws(Nested, MaxNested)!Next /\
     UNCHANGED <<part, clientVars, handleVars, taskVars, samplerVars, controlVars, viewVars, winVars, gtkVars, macVars, keyVars, placeVars>>
  \/ part = "winspector" /\ Win!Next /\
     UNCHANGED <<part, clientVars, handleVars, taskVars, samplerVars, controlVars, viewVars, drawVars, gtkVars, macVars, keyVars, placeVars>>
  \/ part = "gtkinspector" /\ Gtk!Next /\
     UNCHANGED <<part, clientVars, handleVars, taskVars, samplerVars, controlVars, viewVars, drawVars, winVars, macVars, keyVars, placeVars>>
  \/ part = "macinspector" /\ Mac!Next /\
     UNCHANGED <<part, clientVars, handleVars, taskVars, samplerVars, controlVars, viewVars, drawVars, winVars, gtkVars, keyVars, placeVars>>
  \/ part = "shortcuts" /\ Routed(Shortcuts)!Next /\
     UNCHANGED <<part, clientVars, handleVars, taskVars, samplerVars, controlVars, viewVars, drawVars, winVars, gtkVars, macVars, placeVars>>
  \/ part = "space" /\ Routed(Space)!Next /\
     UNCHANGED <<part, clientVars, handleVars, taskVars, samplerVars, controlVars, viewVars, drawVars, winVars, gtkVars, macVars, placeVars>>
  \/ part = "places" /\ Saved(Single, MaxSaves, MaxMoves, MaxCrashes)!Next /\
     UNCHANGED <<part, clientVars, handleVars, taskVars, samplerVars, controlVars, viewVars, drawVars, winVars, gtkVars, macVars, keyVars>>
  \/ part = "slots" /\ Saved(Several, FewSaves, FewMoves, FewCrashes)!Next /\
     UNCHANGED <<part, clientVars, handleVars, taskVars, samplerVars, controlVars, viewVars, drawVars, winVars, gtkVars, macVars, keyVars>>
PartSpec == PartInit /\ [][PartNext]_partVars

\* A request number belongs to one request at a time, and API calls run in the project and under the token they
\* were accepted with (ExternalClients).
RequestsHonest ==
  /\ part = "client" => Clients(Visitor)!TypeOK /\ Clients(Visitor)!NumberedOnce
  /\ part = "rivals" => Clients(Rival)!TypeOK /\ Clients(Rival)!NumberedOnce
  /\ part = "client" => Clients(Visitor)!RunsAsAccepted
\* What a document would destroy is there and its own (HandleTable).
OwnersReal == part = "handles" => Table!TypeOK /\ Table!OwnersReal
\* What a page is told of an operation on an effect is what happened (JsfxControl).
OperationsTrue ==
  /\ part = "gestures" => Control(Gestures)!TypeOK /\ Control(Gestures)!OperationsTrue
  /\ part = "notes" => Control(Notes)!TypeOK /\ Control(Notes)!OperationsTrue
\* No window is seen before the frame of its document (WindowsViews), and a Docker draws again (WinDockRedraw).
PagesSeen ==
  /\ part = "presenting" => Views(Apps, {})!TypeOK /\ Views(Apps, {})!FramesFirst
  /\ part = "hosted" => Views(FxPages, FxPages)!TypeOK /\ Views(FxPages, FxPages)!FramesFirst
  /\ part = "redraw" => Draws(Dockers, MaxDepth)!TypeOK /\ Draws(Dockers, MaxDepth)!DrawsAgain
  /\ part = "nested" => Draws(Nested, MaxNested)!TypeOK /\ Draws(Nested, MaxNested)!DrawsAgain
\* An inspector is where the user wants it and nowhere else (WinDevTools, GtkDevTools, MacDevTools).
InspectorKept ==
  /\ part = "winspector" => Win!TypeOK /\ Win!InspectorKept
  /\ part = "gtkinspector" => Gtk!TypeOK /\ Gtk!InspectorKept
  /\ part = "macinspector" => Mac!TypeOK /\ Mac!InspectorKept
\* No change of a watched file is lost without a notice (NativeTasks), and one thread samples at the rate of
\* the fastest subscription (Realtime).
ThreadsHonest ==
  /\ part = "tasks" => Tasks!TypeOK /\ Tasks!LossesTold
  /\ part = "sampling" => Sampling!TypeOK /\ Sampling!OneSampler
\* REAPER holds no key that nobody will release (KeyRouting).
KeysComeUp ==
  /\ part = "shortcuts" => Routed(Shortcuts)!TypeOK /\ Routed(Shortcuts)!KeysComeUp
  /\ part = "space" => Routed(Space)!TypeOK /\ Routed(Space)!KeysComeUp
\* A window opens where the last one was left (WindowState).
PlacesRemembered ==
  /\ part = "places" => Saved(Single, MaxSaves, MaxMoves, MaxCrashes)!TypeOK /\ Saved(Single, MaxSaves, MaxMoves, MaxCrashes)!PlacesRemembered
  /\ part = "slots" => Saved(Several, FewSaves, FewMoves, FewCrashes)!TypeOK /\ Saved(Several, FewSaves, FewMoves, FewCrashes)!PlacesRemembered
=============================================================================
