------------------------------ MODULE MC_Parts ------------------------------
(***************************************************************************)
(* Components that share no state in these models, each on small           *)
(* instances of its own.  The initial state chooses the instance and only  *)
(* that one moves.  Streams and the components of Parts, which are proved  *)
(* about too, have variables of their own; those of the others are x1, x2, *)
(* ... in the order in which the module declares them, and the rest stay 0.*)
(***************************************************************************)
EXTENDS Streams, Parts

VARIABLES
  x1, x2, x3, x4, x5, x6, x7, x8, x9, x10, x11, x12, x13, x14, x15

\* The variables after the n first ones.
After14 == <<x15>>
After13 == <<x14, After14>>
After12 == <<x13, After13>>
After11 == <<x12, After12>>
After10 == <<x11, After11>>
After9 == <<x10, After10>>
All == <<x1, x2, x3, x4, x5, x6, x7, x8, x9, After9>>
\* They stay 0.
None14 == x15 = 0
None13 == x14 = 0 /\ None14
None12 == x13 = 0 /\ None13
None11 == x12 = 0 /\ None12
None10 == x11 = 0 /\ None11
None9 == x10 = 0 /\ None10

\* Two effects of which one begins anew, two slots, one parameter copied.
LeasesPart == INSTANCE JsfxChannel WITH
  slots <- x1, given <- x2, vm <- x3, param <- x4, lease <- x5, actions <- x6, results <- x7, failed <- x8,
  retired <- x9, started <- x10,
  Effects <- {1, 2}, Slots <- {1, 2}, MaxEpoch <- 3, MaxTokens <- 2, MaxRequests <- 0, MaxCopies <- 1
\* Three commands for one effect that begins anew.
CommandsPart == INSTANCE JsfxChannel WITH
  slots <- x1, given <- x2, vm <- x3, param <- x4, lease <- x5, actions <- x6, results <- x7, failed <- x8,
  retired <- x9, started <- x10,
  Effects <- {1}, Slots <- {1}, MaxEpoch <- 4, MaxTokens <- 2, MaxRequests <- 3, MaxCopies <- 0
\* A transparent window that is hidden, shown, reloaded and closed while its page makes a frame.
AlphaPart == INSTANCE LinuxWebKit WITH
  helper <- x1, error <- x2, toHelper <- x3, toHost <- x4, host <- x5, frames <- x6, call <- x7, parked <- x8,
  natives <- x9, page <- x10, desktop <- x11, asked <- x12, work <- x13, late <- x14, history <- x15,
  Windows <- {1}, Transparent <- {1}, MaxNatives <- 2, MaxLate <- 0, MaxReloads <- 1, MaxAsked <- 0
\* A window that is docked and hidden, and two desktop calls.
DockingPart == INSTANCE LinuxWebKit WITH
  helper <- x1, error <- x2, toHelper <- x3, toHost <- x4, host <- x5, frames <- x6, call <- x7, parked <- x8,
  natives <- x9, page <- x10, desktop <- x11, asked <- x12, work <- x13, late <- x14, history <- x15,
  Windows <- {1}, Transparent <- {}, MaxNatives <- 3, MaxLate <- 0, MaxReloads <- 0, MaxAsked <- 2
\* A page that once does not answer in time.
SlowPart == INSTANCE LinuxWebKit WITH
  helper <- x1, error <- x2, toHelper <- x3, toHost <- x4, host <- x5, frames <- x6, call <- x7, parked <- x8,
  natives <- x9, page <- x10, desktop <- x11, asked <- x12, work <- x13, late <- x14, history <- x15,
  Windows <- {1}, Transparent <- {}, MaxNatives <- 2, MaxLate <- 1, MaxReloads <- 1, MaxAsked <- 0
\* Two effects with pages and one without, in two windows one after the other.
SwitchingPart == INSTANCE JsfxEditors WITH
  present <- x1, selected <- x2, editors <- x3, switching <- x4, chain <- x5, open <- x6, layout <- x7,
  hosts <- x8, pending <- x9, found <- x10, blocked <- x11, sessions <- x12, turn <- x13, left <- x14,
  Web <- {"w1", "w2"}, Plain <- {"p"}, Hosts <- 1 .. 4, Sessions <- {1, 2}, MaxChains <- 2, MaxSwitches <- 2, MaxDeletes <- 0,
  MaxFailures <- 0
\* An effect that is removed, a page that fails.
RemovalPart == INSTANCE JsfxEditors WITH
  present <- x1, selected <- x2, editors <- x3, switching <- x4, chain <- x5, open <- x6, layout <- x7,
  hosts <- x8, pending <- x9, found <- x10, blocked <- x11, sessions <- x12, turn <- x13, left <- x14,
  Web <- {"w1", "w2"}, Plain <- {"p"}, Hosts <- 1 .. 4, Sessions <- {1, 2}, MaxChains <- 1, MaxSwitches <- 1, MaxDeletes <- 1,
  MaxFailures <- 1
\* A meter of the hardware or of a track, with resets of the page and of the playback.
MeteringPart == INSTANCE Metering WITH
  kind <- x1, onStart <- x2, active <- x3, moved <- x4, was <- x5, source <- x6, entry <- x7, request <- x8,
  main <- x9, ring <- x10, worker <- x11, meter <- x12, added <- x13,
  RingSize <- 2, MaxBlocks <- 3, MaxBreaks <- 1, MaxResets <- 2
\* Producers of the hardware and of a track, one more than there may be, and an analysis thread that fails.
ListeningPart == INSTANCE Producers WITH
  counter <- x1, entries <- x2, users <- x3, failed <- x4, asked <- x5, broken <- x6, opened <- x7,
  consumers <- x8, events <- x9, midi <- x10, got <- x11,
  Windows <- {1}, Sources <- {"input", "track"}, Limit <- 2, History <- 1, MaxNames <- 3, MaxEvents <- 0
\* A MIDI input with more events between two ticks than the host remembers.
MidiPart == INSTANCE Producers WITH
  counter <- x1, entries <- x2, users <- x3, failed <- x4, asked <- x5, broken <- x6, opened <- x7,
  consumers <- x8, events <- x9, midi <- x10, got <- x11,
  Windows <- {1}, Sources <- {}, Limit <- 2, History <- 2, MaxNames <- 1, MaxEvents <- 3
\* Folders three deep with sends both ways, under every solo.
FoldersPart == INSTANCE AggregateSource WITH
  project <- x1, block <- x2, done <- x3, reading <- x4, stale <- x5, sources <- x6, moved <- x7, last <- x8,
  told <- x9,
  Tracks <- {1, 2, 3}, Root <- 1, ParentOf <- <<0, 1, 2>>, Sends <- {<<3, 1>>, <<1, 3>>},
  Editable <- {"solo", "send"}, MaxGuids <- 1
\* Tracks that are removed and whose places others get, while a sum is being read.
ReplacedPart == INSTANCE AggregateSource WITH
  project <- x1, block <- x2, done <- x3, reading <- x4, stale <- x5, sources <- x6, moved <- x7, last <- x8,
  told <- x9,
  Tracks <- {1, 2, 3}, Root <- 1, ParentOf <- <<0, 1, 2>>, Sends <- {<<3, 2>>, <<2, 1>>},
  Editable <- {"track", "main"}, MaxGuids <- 2
\* The project video beside its user.
VideoPart == INSTANCE VideoPreview WITH
  project <- x1, moved <- x2, rendering <- x3, window <- x4, visible <- x5, module <- x6, leased <- x7,
  stream <- x8, consumers <- x9, old <- x10, shown <- x11, refused <- x12, stopped <- x13,
  MaxProjects <- 3, MaxRefused <- 0

\* One client with every kind of request, a change of the settings and of the project.
OneVisitor == [connections |-> {1}, ids |-> {1, 2}, kinds |-> {"auth", "guess", "api", "input", "invoke", "subscribe"},
               sockets |-> 2, pending |-> 2, output |-> 2, requests |-> 3, secrets |-> 2, projects |-> 2]
\* Two clients beside a window that always has a request.
OneRival == [connections |-> {1, 2}, ids |-> {1}, kinds |-> {"auth", "invoke"},
             sockets |-> 2, pending |-> 1, output |-> 1, requests |-> 2, secrets |-> 1, projects |-> 1]
\* A shortcut of a page that is reloaded, closed while it cleans up, and fails.
OneShortcut == [route |-> "shortcut", keys |-> {"a"}, hosted |-> FALSE, cleans |-> TRUE, limit |-> 1, documents |-> 2,
                presses |-> 1, wire |-> 2]
\* Space in a page of an effect that is parked and taken back.
OneSpace == [route |-> "space", keys |-> {"Space"}, hosted |-> TRUE, cleans |-> FALSE, limit |-> 2, documents |-> 2,
             presses |-> 2, wire |-> 1]

AllInit ==
  /\ \/ part \in {"streams", "client", "rivals", "handles", "tasks", "sampling", "gestures", "notes", "presenting", "hosted", "redraw", "nested", "winspector", "gtkinspector", "macinspector", "shortcuts", "space", "places", "slots"} /\ None9 /\ x1 = 0 /\ x2 = 0 /\ x3 = 0 /\ x4 = 0 /\ x5 = 0 /\ x6 = 0 /\ x7 = 0 /\ x8 = 0 /\ x9 = 0
     \/ part = "leases" /\ LeasesPart!Init /\ None10
     \/ part = "commands" /\ CommandsPart!Init /\ None10
     \/ part = "alpha" /\ AlphaPart!Init
     \/ part = "docking" /\ DockingPart!Init
     \/ part = "slow" /\ SlowPart!Init
     \/ part = "switching" /\ SwitchingPart!Init /\ None14
     \/ part = "removal" /\ RemovalPart!Init /\ None14
     \/ part = "metering" /\ MeteringPart!Init /\ None13
     \/ part = "listening" /\ ListeningPart!Init /\ None11
     \/ part = "midi" /\ MidiPart!Init /\ None11
     \/ part = "folders" /\ FoldersPart!Init /\ None9
     \/ part = "replaced" /\ ReplacedPart!Init /\ None9
     \/ part = "video" /\ VideoPart!Init /\ None13
  /\ Init /\ PartInit
AllNext ==
  \/ part = "streams" /\ Next /\ UNCHANGED <<partVars, All>>
  \/ PartNext /\ UNCHANGED <<vars, All>>
  \/ part = "leases" /\ LeasesPart!Next /\ UNCHANGED <<vars, partVars, After10>>
  \/ part = "commands" /\ CommandsPart!Next /\ UNCHANGED <<vars, partVars, After10>>
  \/ part = "alpha" /\ AlphaPart!Next /\ UNCHANGED <<vars, partVars>>
  \/ part = "docking" /\ DockingPart!Next /\ UNCHANGED <<vars, partVars>>
  \/ part = "slow" /\ SlowPart!Next /\ UNCHANGED <<vars, partVars>>
  \/ part = "switching" /\ SwitchingPart!Next /\ UNCHANGED <<vars, partVars, After14>>
  \/ part = "removal" /\ RemovalPart!Next /\ UNCHANGED <<vars, partVars, After14>>
  \/ part = "metering" /\ MeteringPart!Next /\ UNCHANGED <<vars, partVars, After13>>
  \/ part = "listening" /\ ListeningPart!Next /\ UNCHANGED <<vars, partVars, After11>>
  \/ part = "midi" /\ MidiPart!Next /\ UNCHANGED <<vars, partVars, After11>>
  \/ part = "folders" /\ FoldersPart!Next /\ UNCHANGED <<vars, partVars, After9>>
  \/ part = "replaced" /\ ReplacedPart!Next /\ UNCHANGED <<vars, partVars, After9>>
  \/ part = "video" /\ VideoPart!Next /\ UNCHANGED <<vars, partVars, After13>>
AllSpec == AllInit /\ [][AllNext]_<<vars, partVars, All>>

\* Effects and their nodes meet in one slot and commands run once (JsfxChannel).
LeasesApart ==
  /\ part = "leases" => LeasesPart!TypeOK /\ LeasesPart!LeasesApart
  /\ part = "commands" => CommandsPart!TypeOK /\ CommandsPart!LeasesApart
\* No page is lost with an X11 window of the host (LinuxWebKit).
PagesKept ==
  /\ part = "alpha" => AlphaPart!TypeOK /\ AlphaPart!PagesKept
  /\ part = "docking" => DockingPart!TypeOK /\ DockingPart!PagesKept
  /\ part = "slow" => SlowPart!TypeOK /\ SlowPart!PagesKept
\* What the built-in producers give is whole, of the present and accounted for (Metering, Producers,
\* AggregateSource, VideoPreview).
ProducersHonest ==
  /\ part = "metering" => MeteringPart!TypeOK /\ MeteringPart!MetersHonest
  /\ part = "listening" => ListeningPart!TypeOK /\ ListeningPart!ProducersHonest
  /\ part = "midi" => MidiPart!TypeOK /\ MidiPart!ProducersHonest
  /\ part = "folders" => FoldersPart!TypeOK /\ FoldersPart!SumsHonest
  /\ part = "replaced" => ReplacedPart!TypeOK /\ ReplacedPart!SumsHonest
  /\ part = "video" => VideoPart!TypeOK /\ VideoPart!VideoHonest
\* No editor is left without controls and without its page, and no page goes with a window REAPER destroys
\* (JsfxEditors).
EditorsWhole ==
  /\ part = "switching" => SwitchingPart!TypeOK /\ SwitchingPart!ControlsBack
  /\ part = "removal" => RemovalPart!TypeOK /\ RemovalPart!PlainShown
  /\ part = "switching" => SwitchingPart!PagesSurvive
=============================================================================
