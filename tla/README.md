# A verification project for TtDebugTool

TtDebugTool is a Qt desktop program for talking to devices: serial ports, TCP,
UDP, MQTT and Modbus. This directory holds TLA+ modules that model the parts of
it where order, failure, concurrency or bookkeeping matter, the TLC
configurations that check them on small instances, and theorems about them that
TLAPS checks for every value of the constants.

Paths in this file are relative to `src/DebugTool/src/` (those that begin with
`lib_ui` to `src/DebugTool/`). `PROJECT.json` lists the components, the runs,
the lines every definition translates, the hazards, the findings and the
theorems.

## Inventory of the system

One process, one GUI thread, a worker thread per Modbus window, per TCP client
and per serial port, a thread pool in the TCP server. The program's own code is
about 45,000 lines; a good part of them draws.

| Part | State it keeps | Operations | What is hard, and what makes it correct |
| --- | --- | --- | --- |
| `storage/setting_manager` | the settings in memory, `dirty_`, a save timer; `config.json`, `.bak`, `.temp` | set, get, remove, load; a timed save; a forced save at closing; a rewrite at start-up | Five file calls per save, each of which can fail, and the process can be killed between any two. Nothing that was saved may be lost, and whatever changed must be saved. |
| `window/main_window`: restart | two processes for a moment | `restartApplication` | Both write the same file. |
| `core/modbus_client` | device, `request_queue_`, `active_replies_` | connect, read, write, the request pump, disconnect | A pump driven by callbacks and recursion, and a disconnect that runs in another thread on the same containers. The limit of parallel requests holds, no request is stranded, sessions do not mix. |
| `window/modbus_window` | `opened_`, controls, refresh timer, progress dialog | on/off, refresh, write, close | The window must show what the device is, and a modal dialog without a button must go away. |
| register tables (`ui/controls/TtTableView`) | rows, `rowsData_`, captured row numbers, format, texts under edit | add, type, scroll, delete, format, save, restore; edit, confirm, cancel a value; show an answer | Two sequences kept in step by hand, widgets created late; answers that arrive in the middle of an edit. |
| `core/tcp_client`, `window/tcp_window` | thread, event loop, `socket_`; `opened_`, `msg_queue_`, send timer | on/off, send, heartbeat, errors | Posted and queued calls cross each other; sessions follow one another on one object. |
| `core/tcp_server` | listener, pool threads, `client_sockets_` | start, stop, accept, send | Sockets live in threads the server does not own. |
| `core/serial_port`, `window/serial_window` | port, send queue, timers; receive buffer, channels with rules, scripts and curves | open, close, read, send, parse, edit channels | A write takes two posts; a byte stream cut at arbitrary places; one channel known under two kinds of keys. |
| `core/udp_*`, `core/mqtt_client` and windows | socket or client, subscriptions | send, receive, subscribe | One thread; what matters is what the window shows after errors. |
| instruction table (`TtTableWidget`) | rows, pools of controls, bindings | add, edit, delete, scroll, lock, save, restore | Controls are bound to rows on demand, by calls posted to the event loop. |
| panels (`widget/*_setting`), `window/frame_window` | fields, `saved_`, `opened_`, the record, the buttons | edit, save, restore, lock | Seven panels with a dozen fields each, every one watched, locked, used, written and read in different places. |
| `ui/widgets/tabwindow`, `session_manager`, `window/main_window` | tabs, torn-off windows, `closedTabs_`, entries of two lists, titles, stored configurations | create, edit, save, close, click, delete, drag, close a window, restart | Four places hold a session, each updated by its own signal. A working connection must stay within reach, and there must be one of it. |
| drawer (`lib_ui/ui/effects/animated_drawer`) | widths, size policies, animation | click a button, drag | Animations interrupted by their opposites. |
| terminal (`frame_window`, `ui/controls/TtTerminalLexer`) | lines, colours, formats, counters | show, clear, switch | Each line is coloured by its text and the line before it. |
| chat (`lib_ui/ui/control/ChatWidget`) | messages, marks, a drag; a cache of sizes | append, press, move, wheel, release, copy, resize | Marks in three places; one cache for all views. |
| plots (`ui/controls/Tt*Plot`) | curves, a tracer, a recording | add, remove, trim, save | Columns joined by equal times; curves that outlive rows. |
| message bars, dialogs (`lib_ui/ui`) | a list for all windows, queues of events; a result, a shadow | show, move, end, close; answer | Bars that end while others move; many ways out of a dialog. |
| channel and MQTT dialogs (`ui/controls/TtChannelButton*`, `TtLuaInputBox`, `widget/subscripition_widget`, `mqtt_meta_setting_widget`, `lib_ui/ui/control/TtMaskWidget`) | an entry, drafts of a channel; a mask, the dialog on it, its forms | click, rename, edit, accept, cancel; show, fade, confirm, resize | A draft passes three places before it counts; one mask for two dialogs, with timers and queued calls behind it. |

How they interact: a panel emits a configuration, the window hands it to its
core object, the core object reports with signals (queued when a thread lies
between), the window sets its buttons. A window asks to be stored with
`requestSaveConfig`; `MainWindow` adds an entry and calls the settings manager.
An entry's click or deletion is a signal `MainWindow` connects to the tab
windows and to the settings manager.

## Modules

| Module | Models | Kind |
| --- | --- | --- |
| `Settings` | the settings manager, its files, start-up and closing | one action per operation in memory, one per file-system call |
| `ConfigStore` | what the manager promises: a map, a saved copy of it | abstract specification |
| `SettingsProofs` | proofs about `Settings`, the refinement of `ConfigStore` among them, and about `WindowForms` | proofs |
| `SettingsRestart` | two instances of `Settings` on one set of files | composition |
| `ModbusMaster` | request pump, worker thread, window | two threads, a FIFO of posts |
| `ModbusProofs` | proofs about `ModbusMaster` | proofs |
| `CoilRefresh` | from the addresses of the coil table to what its rows show | merging of ranges, and the traffic around it |
| `RegisterTable` | rows of the coil table and `rowsData_` | one action per handler |
| `HoldingTable` | values of holding registers under edit and under refresh | one action per handler, slave and link |
| `ModbusTables` | the three sides of a table | composition |
| `ModbusTablesProofs` | proofs about the tables of holding registers and of coils | proofs |
| `TcpLink` | TCP client thread and its window | two threads, two queues of calls |
| `TcpServerPool` | TCP server, its pool of threads and its window | one action per call and per task |
| `UdpLink` | UDP client or server and its window | one thread, direct signals |
| `MqttLink` | MQTT client, its window and its subscriptions | one thread |
| `NetworkWindows` | a window of one of these four kinds | composition |
| `NetworkProofs` | proofs about the TCP client, the server, UDP, MQTT and `NetworkWindows` | proofs |
| `SerialLink` | serial worker thread and its window | two threads, two queues of calls |
| `SerialLinkProofs` | proofs about `SerialLink` | proofs |
| `FrameParser` | the parsers of received bytes | pure functions |
| `SerialChannels` | channels, rules, scripts, curves, and the parsers on one or two reads | one action per dialog and arrival |
| `InstructionTable` | rows and the controls bound to them | one action per handler and posted call |
| `Terminal` | lines and their colours | one action per slot |
| `ChatSelection`, `ChatSizes` | marking text with the mouse; cached sizes | one action per event |
| `WindowContents` | one of these five contents of a window | composition |
| `WindowContentsProofs` | proofs about the channels, the parsers, the instruction table, the terminal and the chat | proofs |
| `SettingPanels` | the forms as tables of fields | data |
| `WindowForms` | a form, its record, the flags and the link's configuration | one action per edit and click |
| `MessageBars` | the bars of all windows | animations and timers as actions |
| `SerialPlot`, `ModbusPlot` | curves, tracer, recording | one action per call |
| `Dialogs` | questions, answers, shadows, what callers do | one action per answer |
| `ChannelDialogs` | the entry and the dialogs of a channel | one action per gesture |
| `MqttDialogs` | the mask over an MQTT window and its two dialogs | one action per gesture, timer and queued call |
| `ScreenWidgets` | one of these six widgets | composition |
| `ScreenWidgetsProofs` | proofs about the bars, the dialogs and the channels | proofs |
| `TabSessions` | tabs, windows, memory, entries, stored configurations | one action per gesture |
| `MainScreen` | titles, the tab and the window in front, pages and the settings tab | one action per gesture |
| `Drawer` | three buttons and a sliding drawer | animation steps as actions |
| `MainWindowTabs` | the three sides of the main window | composition |
| `MainWindowProofs` | proofs about the sessions, the drawer, the screen and the whole | proofs |
| `MC*` | constants and fault windows for TLC; `MCSettings`: settings and forms in one run | |

A composition here is a choice: parts that share no state are put into one
specification with a variable that says which of them a behaviour is about.
Each part keeps its own module, its own Init and Next, and its own properties;
the composition adds nothing but the frame. Two modules compose in the other
sense: `SettingsRestart` puts two processes on the same files, and `Settings`
has the manager as an implementation of a `ConfigStore`.

### Settings

`mem` is `settings_` with `NoValue` for a key that is not there, `dirty` and
`timer` are `dirty_` and `save_timer_`. `phase` says which file-system call
comes next; `buf` is the object about to be written. A file is absent, torn
(truncated, not yet written) or a map. Operations on memory run on the GUI
thread and are single steps. Each of the calls of `actualSaveSettings` is one:
remove the backup, copy it, open and truncate `.temp`, write and flush it,
remove `config.json`, rename. `Crash` can come between any two of them.
`Faults` says how calls fail: `"reported"` (they return false) or `"silent"`
(`flush`, whose result nobody reads). `ResetOpen` and `ResetWrite` are the
rewrite `main()` does at every start.

### ModbusMaster

`gui` is where the GUI thread is: in its event loop, or at one of the places of
a handler where the worker can come in between (reading, before the check of
the limit, before sending, before registering the reply). `worker` is the next
statement of `ModbusWorker::disconnectModbus`. `RaceAt` chooses at which places
of a handler the worker is allowed to run, so that what holds and what does not
can be told apart. Replies are slots: `fresh` (sent, not yet registered),
`sent`, `active` (in `active_replies_`), `posted` (finished by the worker, their
lambda waits in the GUI's queue). `Patient` is a user who does not click again
before a disconnect is over.

### The register tables: CoilRefresh, RegisterTable, HoldingTable

`Ranges` is `readCoilsData`: sort, merge neighbours. A reply shows `data[0]` in
the rows with the range's first address. In `RegisterTable` widgets are
numbers, `cells` is the view, `rowsData` the list in order of creation, and
`captured` the row number each address editor's slot closed over. A text is the
number it stands for and the base it is written in: the code always reads it in
base ten.

`HoldingTable` has the rows a user edits: `readOnly`, `editing` (the two
buttons are shown), the text and `originalValue`. The link around them is the
window's: `setControlState` enables and locks, the timer reads, the worker's
disconnect ends, the connection comes late or breaks unnoticed, and confirming
without a connection asks for one. `reconnected` remembers that last case.

`setControlState` disables the rows of the coil table while a link is open, so
editing and refreshing them alternate; that is why they can be two sides.

### TabSessions, MainScreen, Drawer

A session is its uuid. `widgetInstances` and `place` are its tab, `closedTabs`
what each window keeps in memory, `status` the life of a window (a window taken
out of `m_windows` but never deleted is `"abandoned"`), `stored` what
`getSetting` answers, `listed` the entries. The settings manager is abstracted
to the map `ConfigStore` promises.

`MainScreen` takes up what `TabSessions` leaves open: the name a session has in
its window, on its tab and in its entry, which tab is in front, the pages that
are replaced by what is chosen on them, and the settings tab. `astray` and
`dangling` are sessions that were renamed or replaced by mistake (see below).

In `Drawer` an animation is running or not and its width is any value on the
way; `wanted` is the width the user made, `policies` what the size policies of
the children are and were.

### TcpLink, TcpServerPool, UdpLink, MqttLink

`toSocket` holds the calls posted to the socket's thread, `toGui` the calls
queued to the GUI thread. A chunk is the number of the session it was typed
for. `careless` records what the user has done that the window does not expect:
`"invalid"` (a configuration that is refused), `"impatient"` (a click before
the last one has taken effect), `"early"` (sending before the connection is
established). It restricts no action; properties say for which users they hold.

In `TcpServerPool` a task runs in a thread of the pool, its slots in the GUI
thread; `stopServer` goes through the clients one by one, posting a
disconnection and waiting for it. `crashed` says where a null or deleted
pointer was used: `"refused"`, `"stop"` or `"read"`.

UDP and MQTT windows run in one thread with direct signals: what a slot does
comes before the rest of the handler that caused it, and the handler may
overwrite it.

### SerialLink, SerialChannels, FrameParser

A write is two posts: `sendData` puts the chunk into the worker's queue and
posts `handleWriteRequest`. A chunk carries the session it was typed for, the
one in which it was shown, and whether the format is the one it was typed in.

`FrameParser` is what `SerialWindow` makes of the buffer, as functions from
bytes to plotted pairs and what is left: frames found by header, length and
checksum offsets, FireWater, JustFloat and RawData. `SerialChannels` sends whole
transmissions to it, in one read or split in two, while channels are edited.
`Clear` and `Splits` name the frames and the splits the parser can deal with.

### InstructionTable, Terminal, ChatSelection, ChatSizes

In the instruction table controls are told apart by their cell; `widget_rows_`
says where the controls of a row are, `posted` the calls waiting for the event
loop. In the terminal a line is what the highlighter looks for in it. In the
chat a point is a row and a pixel of its item, and a place a row and a number of
characters of its text, which is of one width and breaks anywhere. `posToCursor`
is the place the code takes for a point, with the margins it takes away,
`DrawnAt` the place that is drawn there, with those the painting adds: they
differ by two pixels to the right and four down. `DraggedTextIsTaken` compares
the marks with what is drawn `Near` where the mouse was, by that difference;
that they agree with `DrawnAt` is `MarkedAsDrawn`, which fails. Beside a line
(left of its fourth pixel, or right of what there is room for) the code takes a
place of the last line instead, and the property asks for the message only.
`xToCursor` is Qt's. `pressed`, `pointed` and `skipped` are history: where a drag
began and where the mouse is, and that the mouse or the wheel left out a row.
In `ChatSizes` widths are in characters and heights in lines. While it handles a
resize, Qt may ask for the size of the first message before the cache is emptied,
for the step of its scroll bar; that leaves a width in the cache (`resizeEvent`).

### SettingPanels, WindowForms

`SettingPanels` holds seven tables: for each field of a panel what kind of
widget it is, whether a change is noticed, whether it is locked while a link is
open, whether the link uses it, and under which key it is written and read.
`WindowForms` runs them: edits, saves, restores with other serial ports plugged
in, openings that succeed, fail and break.

### MessageBars, SerialPlot, ModbusPlot, Dialogs, ChannelDialogs, MqttDialogs

A bar has a slot, a queue of moves and a phase; animations and timers end in
any order. A plot's value is the number of its sample, so that a value in a
wrong place is seen. A dialog is answered by its three buttons, by the key
Escape and by the system; `last` is what was asked, answered and done.

The script of a channel goes from the box to `lua_code_copy_` when the box is
left, and from there to the channel when the dialog is accepted; `displayed` and
`accepted` are what the user saw at those moments. Of the entry, `is_checked`,
`is_pressed` and `ignore` are the members of `TtChannelButton`, and `held`,
`before` and `began` what the mouse did.

`masked` is whether the mask is on the screen, `hides` whether the end of the
animation under way hides it, `later` the timers of 300 ms that show the dialog
for a subscription, `queued` the `closed()` on their way. The forms keep what
was typed. The mask keeps the mouse from the window but not the keys, so that
both buttons can be pressed while it is there.

## Runs

Twelve runs. A passing run also shows by its mutants that each property can
fail: a small change of one mapped definition, of the kind a bug would be,
makes TLC find a violation. An `MC` module extends a specification with the
definitions its configurations name; `MCSettings` also puts the settings manager
and the forms, which know nothing of each other, into one run, a behaviour being
of one of them. A configuration is of the
module whose name it begins with (`tlc -config SerialLinkPort.cfg SerialLink`),
only `MCSettingsRestart.cfg` is of `SettingsRestart`.

| Run (configuration) | Bounds | What it shows |
| --- | --- | --- |
| `settings_and_forms` (`MCSettingsAny.cfg`) | settings: 2 keys, 2 values, all reported failures, crashes everywhere, also the operations nobody calls; forms: all 7, 2 ports for the two that have a port, 3 numbers (none, small, more than 16 bits), 3 edits | A clean manager is right about the disk; `config.json` is removed only when `.temp` is whole. What counts as saved is on the screen, and the buttons say so; a window works with what it shows; a configuration in use stays. |
| `settings_store` (`MCSettingsStore.cfg`) | 2 keys, 2 values, no failures, crashes outside two windows | The manager implements `ConfigStore`; a save is pending for every change; changes reach the disk. |
| `settings_restart` (`MCSettingsRestart.cfg`) (violation) | 2 keys, 1 value, no failures | The forced save at closing is lost in a restart. |
| `modbus_patient` (`MCModbusPatient.cfg`) | 5 replies, limit 3, 3 reads per refresh, queue 5 | Limit, no stranded request, sessions apart, full disconnect, dialog and destructor end (`WaitingEnds`). |
| `modbus_tables` (`ModbusTablesAny.cfg`) | editing: 3 rows, which fit, one address; refreshing: 4 addresses, 3 rows, ranges up to 2, 3 requests under way; holding: 2 rows, 2 registers, 2 values, 2 reads, 2 clicks, 3 turns | View, `rowsData_` and record agree; ranges are the maximal runs; rows settle on what the slave has, also those under edit; every edit can be ended. |
| `tabs` (`MCMainWindowTabsAny.cfg`) | a link and a simulated server, 3 windows, 2 configurations; on the screen 2 sessions, 2 windows, 2 titles; 3 buttons, widths to 3 | One widget per session, the saved mark true, deletions final, closing keeps connections; titles agree; an entry brings its session up and tabs stay; the drawer follows its buttons. |
| `network_windows` (`NetworkWindowsAny.cfg`) | TCP client: 3 sessions, 3 posted sends, 3 queued calls; server: 3 clients, 1 pool thread, 2 starts; UDP: 2 peers, 3 clicks; MQTT: 2 topics, 2 rows | Nothing of one session is sent in the next; a stopped server serves nobody; windows show the link; threads come free. |
| `tcp_deleted` (`TcpLinkDeleted.cfg`) (violation) | 1 session, 1 send, 1 call | A slot of the GUI thread uses the socket after the other thread has deleted it. |
| `serial_link` (`SerialLinkPort.cfg`) | 2 sessions, 2 chunks each, 2 posts, 1 event | What goes over the wire is what the window showed; at rest the window tells the truth; the port is released. |
| `window_contents` (`MCWindowContentsAny.cfg`) | 2 channels, 2 forms of one, up to 2 bytes in the first read; 4 rows, 2 fit; 2 messages of 2 lines; 3 chat messages of 2 lines, 6 pixels of each; 2 views, 3 widths | Channels keep curves, rules and scripts; transmissions are plotted; rows show their data, change under the user only and are locked; the terminal and the chat's marks are true. |
| `marked_as_drawn` (`MCWindowContentsDrawn.cfg`) (violation) | the same | A drag within a line, near its lower edge, marks a character it was not dragged over. |
| `screen_widgets` (`ScreenWidgetsAny.cfg`) | 4 bars, a session window; 2 channels, 2 points, 5 samples; 2 addresses, 3 replies; 2 answers, 2 serial windows; 1 name, 1 script, 2 colours; 2 confirmations, 1 timer, 2 rows of properties | Bars line up and go away; plots and recordings hold what was received; answers are taken: a channel has the script its dialog showed, a mask the dialog that was asked for. |

A property that names several parts (`RowsKeepTheirData`, `WindowsShowTheLink`,
`PlotsAreTrue`, ...) is a conjunction of properties that are stated and
explained in the modules of the parts.

Why the bounds are enough. Settings: an operation touches one key, so a second
key is all that "the others" needs, and two values tell an old one from a new.
Modbus: with five replies and a limit of three there are requests waiting,
replies under way, replies forgotten by `active_replies_` and replies posted at
the same time; the limit and the sessions are also proved for every bound.
Tables: three rows have a first, a middle and a last one, which is what deletion
and the captured numbers tell apart; three rows over four addresses have every
pattern of equal, neighbouring and separate addresses, with ranges at and above
the limit; two registers and two rows have rows that share a register and rows
that do not, and two clicks end and reopen a link in the middle of an edit.
Tabs: two torn-off windows besides the root let a session leave one window while
another remembers it; one session of each kind shows every difference between
the two lists. TCP: a session, the next, and one more, with calls of the first
still under way in each direction. The server has one pool thread where the
code has at least two: that makes tasks wait for each other; two threads with
three clients were checked as well (2.8 million states, too long to keep).
Serial: two sessions, so that a chunk of the first can meet the second, and two
chunks in each, so that their order can be wrong. Forms: three edits are one to
change, one to change again and one to take back. Contents: two channels have a
number each to be mixed up; four rows in a viewport of two, with two rows
prefetched, leave a row without controls; of a message, a pixel of each of its
lines, one at the lower edge of the first, and one on each side of the text are
all that `posToCursor` tells apart. Bars: four, one that ends, one that
moves and two that wait for it.

`SYMMETRY` is declared for keys and values, for torn-off windows and
configurations, never in a run with a liveness property. `CHECK_DEADLOCK FALSE`
is set where the model can stop: a closed window or a crashed program (Modbus,
TCP, serial), exhausted bounds of an environment (tables, contents, widgets),
and the old process of a restart.

### Fairness

- `Settings`: weak fairness of the steps of an operation that has begun and of
  the timer. The event loop delivers an expired timer. None for the user.
- `ModbusMaster`: weak fairness of handlers that have begun, of the worker and
  of closing; strong fairness of posted events, which the refresh timer must
  not starve: Qt handles posted events before timers in each round.
- `CoilRefresh`, `HoldingTable`: the timer fires, the slave answers, the answer
  is delivered; no fairness for the user, the link or errors. The rows settle
  because the bounds end what the user and the slave do.
- `TcpLink`, `TcpServerPool`, `SerialLink`: the threads take up their calls,
  handlers that have begun go on, the send timer fires while it runs and is
  enabled, and an attempt to connect is answered or times out. None for the
  user, the peer or data.
- `MessageBars`: animations and timers end, per bar.
- The other modules: safety only.

## Theorems

Every theorem holds for all values of the constants that satisfy the named
assumptions of their modules, and each is checked by `tlapm` to the last leaf.
What the third column says beyond that is the argument.

| Theorem | Assumes | Argument |
| --- | --- | --- |
| `SettingsProofs!TypeCorrect` | nothing | `TypeOK` is inductive. |
| `CleanIsStored`, `NewCopyIsWhole` | no silent failure | `SaveInvariant` and `CleanInvariant`: a save starts only dirty, writes what is in memory, and clears `dirty_` after the rename only. |
| `SavesArePendingAndBackedUp` | no call fails | `PendingInvariant`: each call finds the files as the one before left them. |
| `SettingsImplementStore` | `NormalUse` | Refinement: every step is a step of `ConfigStore` or a stutter, under the mapping `OnDisk` and `View`. |
| `ModbusProofs!TypeCorrect` | nothing | `TypeOK` with `BatchInvariant`, split into parts no action types all of. |
| `LimitKept` | nothing | `PumpInvariant`: the place found by the check stays free until the one reply sent since is registered, because the worker only removes. |
| `EditsEndAlways` | nothing | `HoldingInvariant`: types of what is under way; a row that can be typed in has its two buttons, because whatever enables the rows for a link makes them read-only; no more disconnects wait than were clicked, and each device that is up has one waiting, an open window or a confirmed text to explain it. |
| `RowsKeepTheirDataAlways` | `Fits`: the rows of the coil table are no more than the view has room for, and the two more that count as visible | `Kept` and `CoilTypes`. Every row has its widgets, row i is entry i, and a slot has captured no smaller number than its row's, so that a displaced slot writes behind the rows before it: an entry is told of its address unless a slot up to it is displaced. The loops of `SwitchFormat` and `setTable` keep this round by round. `readCoilsData`: any sequence can be sorted (`OneInserted`), and after each round of the merging the ranges cover the numbers looked at, the last one ends with the last of them, and none touches another if no number occurs twice (`CoveringKept`, `MaximalKept`). |
| `NoneStranded`, `SessionsApart`, `DisconnectedFully` | `OrderlyUse`: a patient user, no race between a send and its registration | `SessionInvariant`: one disconnect at a time whose end is the last thing posted; a device that is up belongs to a session the worker has not begun to end; what the worker has cleaned stays clean; a waiting request has a reply. |
| `NetworkProofs!TypeCorrect` | nothing | `TypeOK`, with the queues split from the flags. |
| `SentInItsSessionAlways` | nothing; the property is about patient users | `SessionInvariant`: the queues hold chunks of the current session only, because whoever sees settings that are free knows that the end of the last session is the last signal on its way. |
| `RestShowsTheTruthAlways` (TCP) | nothing; the property is about orderly users | `RestInvariant`: the signal of a connection is true or followed by its end; an open window has a connection, or an attempt, or an error on its way; a thread without one was told to quit or will be. |
| `StoppedServesNobodyAlways` | nothing | `ServerInvariant`: what is queued for a client, what its task is doing and where its pointer is kept fit together (`ClientOK`), so that a stop goes past no connected client but those the property names; never more tasks than threads. |
| `WindowsShowTheLinkAlways`, `SentInItsSessionInAny` | nothing | Each of the four kinds by itself (`KindsApart`): the client and the server as above, `UdpInvariant` and `MqttInvariant` of the other two. |
| `SerialInvariantAlways` | nothing | `SerialInvariant`: types; what the destructor, the buttons and the calls on their way say of each other; where the next opening and the next closing leave the port; the numbers of the chunks go up from the wire through both queues to the last one shown. |
| `WireFollowsScreenAlways`, `RestShowsTheTruthAlways` (serial) | nothing; the properties say for which users | From `SerialInvariant`: a chunk on its way reaches the port of its session, because the order of the two posts and of the closing behind them is kept. |
| `TabInvariantAlways`, `TabTypesAlways` | nothing | `TabInvariant`: a session that is remembered by a window is open in none and remembered by no other; whoever lost its last tab leaves a window with no tab; what is listed is stored. |
| `OneWidgetAnywhere` | nothing | From `TabInvariant`: no session has two widgets. |
| `OneWidgetAlways` | `~DropsOnHidden` | With it, that every tab is on the screen: a tab dropped in a hidden window (`tabwindow.cpp:201`) is the one way to lose it, and the run keeps clear of it too. |
| `SavedMeansStoredAlways`, `DeletedStaysDeletedAlways`, `ClosingKeepsWorkAlways` | nothing | An invariant and two action properties, from `TabInvariant`. |
| `SidesOfTheWindow`, `SessionsAreKept` | nothing | The main window implements each of its three sides, so that what is proved of the tabs holds of it. |
| `DrawerFollowsButtonsAlways` | nothing | `DrawerInvariant`: which way the animation under way goes is what the buttons say, and where it ends is the width the user made. |
| `TitlesAgreeAlways`, `EntriesLeadToTabsAlways` | nothing | `ScreenInvariant`: a window on the screen shows one of its own tabs, a session not gone astray has its own name on its tab and entry wherever it was moved. An invariant and an action property. |
| `CurvesAreOfTheChannelsAlways` | nothing; the property leaves out scripts of renumbered channels | `ChannelInvariant` of `WindowContentsProofs`: every number is below `channelNums` and belongs to one channel, so the next channel has a curve and a script of its own; restoring numbers by how many uuids come before, which is injective (`RenumberedApart`); what is received adds scripts and replaces none. |
| `RowsShowTheirDataAlways`, `RowsChangeUnderTheUserAlways` | nothing | `RowInvariant`: a row has controls exactly if it is bound, in its own cells, filled from its data and connected; the rows bound reach as far behind the screen as deletions have not used up since the last set-up; bound rows are locked as the window is; what is stored are rows. The numbers of the rows behind a deleted one and the cells they stand in move together (`WithoutKeeps`). |
| `DraggedTextIsTakenAlways` | nothing; the property leaves out mice that skip a row, and asks of a point beside its line for the message only | `PointIsPlace`: the place the code takes for a point is the one drawn two pixels to the right of it and three below. `ChatInvariant`: in a drag its two places are those of the points where it began and where the mouse is, and the marks are those between them and nobody else's, and of the rows the mouse has entered only the one it is on is kept, so that the row it leaves towards its beginning is unmarked; without one, marked rows are those of the last drag. `SizesKept`: a view whose last change is handled has the sizes of its width. |
| `TerminalTellsTheTruthAlways` | nothing; the property leaves out payloads with marks of the terminal | `TerminalInvariant`: the blocks are the lines of the messages since the last clearing, one message after the other, each with the colour and the state the highlighter gives it after the block above. The recursion of `Highlighted` and that of `Counted` are opened by induction over the number of lines and of messages (`HighlightedIs`, `TallyIs`). |
| `SentIsPlottedAlways` | nothing; the property is about an empty buffer, and names what can be mistaken (`Clear`) and where a read may end (`Splits`) | `ChannelInvariant` with `StreamTypes` (what is received and what is left are bytes, the numbers of scripts and channels those a window may give). The recursion of each parser is opened by induction over the places of the buffer (`FramesParsed`, `SplitIs`, `OmittingIs`). A message that suits a rule is the long one, which alone has the bytes the parser waits for, and no other rule is for it (`SuitsIs`), so that each of its frames is cut out where it stands and the next is looked for behind it (`MessageRead`); one that is free of headers has no rule (`FreeIs`). The first of two reads leaves what the second completes: all of a packet, the bytes behind the last whole float (`FloatsTorn`), a frame too short for its offsets. |
| `BarsLineUpAlways` | nothing; the property leaves out bars of one millisecond | `BarsInvariant`: times go up with the bars, every listed bar has fewer before it than there is room for, and what waits on a bar waits for its creation or for an animation, so that the last event is where it goes; an end takes one from the count of those behind and from nobody else's. |
| `PlotsAreTrueAlways` | nothing; the tooltip's part leaves out curves joined by others | `SerialInvariant` and `ModbusInvariant` of `ScreenWidgetsProofs`: times and values of a curve are equally long, its times go up, its values are its latest samples (`KeepsLatest`: a curve that had the latest still has after one is cut off and one added). The binary searches are right by induction over the part that is left (`HalfIsLess`), the selection of the tracer by a least element. |
| `AnswersAreTakenAlways` | nothing | Each kind by itself: `DialogInvariant` (what a dialog shows while it asks, what came of the last answer, where the files are), `ChannelInvariant` (a draft is what was shown, a script what was accepted, a press on the entry is known for what it is), `MqttInvariant` (a shown mask has one dialog on it, the rows of a table are those not trashed, in order). |
| `SavedStateIsShownAlways`, `ParametersAsShownAlways`, `InUseIsOnScreenAlways` | nothing; the properties name the fields that have gaps | `FormInvariant` of `SettingsProofs`: what a window has heard, which buttons are pressed and what is locked agree with the form, and a field that counts as saved shows what was saved unless its port is not listed. Of the seven panels only `PanelSound` is used, found from each table by itself: what is not lost is read under the key it was written under, what is not unnoticed is watched, what a link uses is locked. |

None of the invariants checked is inductive on its own. `AtMostMaxParallel`,
for example, says nothing about a handler that has passed the check and not yet
registered its reply; `PumpInvariant` does. Nor does `WireFollowsScreen` say
where a chunk is that was shown and not yet written. The invariants
`SaveInvariant`, `CleanInvariant` and `PendingInvariant` stand in `Settings`,
next to the properties they explain; the others stand in the proof modules. The
type invariants that are proved are no longer model-checked in a run of their
own.

What is assumed of the constants is what the code gives them: the limits are
positive, the sets of sessions, windows and clients are finite where they are
counted, and a value that stands for "none" is not one of the others.
`DrawerAssumption` and `ScreenAssumption` say this of the sides of the main
window, where the module of a side is used under other names;
`ChannelAssumption` says that no text and no record is `Nothing`,
`FormsAssumption` that ports and texts are numbers and the kinds those of the panels.
`ChannelsAssumption` asks for two channels of floats at least (`MAX_CHANNELS` is 8,
`serial_window.h:215`): a transmission of the model holds up to two. `UuidsAssumption`
bounds the channels of a window, not how often they are added.

Only model-checked:

- everything temporal beyond invariants and step properties
  (`ChangesReachDisk`, `WaitingEnds`, `TablesConverge`, `ThreadsComeFree`,
  `PortIsReleased`, `BarsGoAway`), since the prover does not do fairness.

An induction over a number is within reach of the prover where it is stated of a
set: `EveryNat` says that a set of numbers that has every number whose smaller
ones it has is the set of all, and follows from the well-foundedness of `<`.
With it the recursive functions of `Terminal`, `SerialPlot`, `ModbusPlot`,
`RegisterTable`, `CoilRefresh` and `FrameParser` are opened: first that there is
such a function (`RoundsAre`), then what it gives (`EveryRound`).

## Where code and comments disagree

Three disagreements have a run (see "findings" in `PROJECT.json`):
`SavedAtClosing`, `SocketIsThere` and `MarkedAsDrawn`, the margin between clicks
and drawing that the comment at `TtChatView.cpp:524` calls a bug. The others were met while modelling. The
models contain those marked (m); the runs stay clear of them through a named
constant, variable or property:

- settings: the replacement called atomic at `setting_manager.cpp:318` is a
  remove and a rename (m, `CrashAt`); the result of `flush` is ignored at 315
  (m, `Faults`); removing the last setting brings the old ones back at the next
  operation, 369 (m, `MayEmpty`); `setMultipleSettings` does not load first,
  138 (m, `WholeApi`); a warning about them looks for a window of a name nobody
  sets and is never seen, `main_window.cpp:291`.
- Modbus: a second click while a disconnect is under way reconnects inside it,
  and the device is not "fully" disconnected as `modbus_client.cpp:449` says
  (m, `Patient`); a reply sent while the worker forgets the others is never
  removed, 405 (m, `RaceAt`); the queue is dequeued empty, 403 and 419 (m,
  `SendFromEmpty`); a write before the first connection uses a null pointer,
  122, against the comment at 95 (m, `WriteWithoutDevice`, `crashed` in
  `HoldingTable`); the 100 ms at 456 do not wait for callbacks (m); nobody hears
  of a lost connection, 38 (m, `ConnectionLost`); any error stops the refresh
  timer while the device stays connected, `modbus_window.cpp:576` (m); the timer
  asks again every 100 ms whether or not the last round was answered, 220 (m);
  a range of more than 125 coils is refused each time, `modbus_client.cpp:90` (m).
- tables: only the first row of a merged range is refreshed,
  `TtTableView.cpp:1491`, though every address was read (m, `StartsConverge`
  leaves the others out); after a deletion the editors of the rows below change
  another row's address, although 2257 and 2482 say the mapping is kept up (m,
  one address in the run); addresses shown in base sixteen are read in base ten,
  2133 (m); rows restored beyond the viewport go into the row before, 1643 (m,
  `visibleRows`); `deleteRow` uses the row of the view as an index of
  `rowsData_`, 2479 (m); a refresh overwrites the text that is being typed, 1521
  (m); cancelling a text before the first confirmation empties it, 2333 (m);
  a row that was under edit when the link went is left with its two buttons,
  read-only, 1844 (m); rows of input registers never show anything, 1529, and
  can be "written".
- tabs: a drop can land in a hidden window, `tabwindow.cpp:201` (m,
  `DropsOnHidden`); `closedTabs_` of a closed window is deleted although
  `tabwindow.h:220` says everything goes to the root (m); a working session
  closed before it was saved is kept where no entry leads to it, against
  `tabwindow.h:203` (m); the setting of a deleted simulated server stays,
  against `main_window.cpp:1287` (m); saving an MQTT or Modbus session renames
  whatever tab the root window shows, 1505 and 1533 (m, `astray`); a choice on a
  page that was torn off replaces the root's current tab, a working session
  included, 1306 (m, `dangling`); the settings page, once closed, never opens
  again, because `widgetDeleted` is never emitted, 1309 (m); the work mark of an
  entry is found by open tabs only, 1430; `maxClosedTabs_` is not used.
- drawer: shut before it has opened it remembers the width it had on the way,
  against the comment at `animated_drawer.cpp:124` (m, `hurried`); an entry
  deleted while it shuts is used afterwards (m, `crashed`).
- TCP: `abort()` while connecting emits no `disconnected`, so the thread never
  ends and every later click reports a client still running,
  `tcp_client.cpp:286` (m, `"impatient"`); the window is open after a refused
  configuration, `tcp_window.cpp:294` (m, `"invalid"`); an early send makes the
  window look closed on a connection that comes up, 46 (m, `"early"`);
  `disconnected` leaves the send timer and the queue as they are, 51 (m); the
  client and the server objects are never deleted, 253.
- TCP server: a port that is refused uses `tcp_client_setting_`, which a server
  does not have, `tcp_window.cpp:56` (m, `crashed = "refused"`); the pool may
  delete a socket between `disconnectFromHost` and `waitForDisconnected` (m,
  `"stop"`); a read queued before a stop finds its socket deleted (m,
  `"read"`); clients that hang up stay in `client_sockets_` (m); clients on
  their way while the server stops are served afterwards (m, `late`); the
  comment at `tcp_server.cpp:9` says client sockets stay open, the code closes
  them.
- UDP: after a refused opening the settings stay locked and the list shows a
  working link, `udp_window.cpp:270` (m); after an error the socket stays bound
  and its datagrams are still shown, 37 (m); a server without known clients
  shows itself closed on the first send, `udp_server.cpp:202` (m); the sending
  of a server's queue is commented out, `udp_window.cpp:360` (m); delayed rows
  of an ended session are sent in the next (m).
- MQTT: `opened_` is set by clicks alone, so after a break the first click does
  nothing, `mqtt_window.cpp:399` (m); a click while connecting does not stop
  the attempt (m); a message of QoS 0 is reported as not sent though it is (m);
  deleting a row does not unsubscribe, and nobody subscribes again after a
  reconnection (m); the dialog can be saved twice while it fades (m).
- serial: after a fault on an open port nobody closes it, so that it cannot be
  opened again, `serial_window.cpp:1458` (m, `"crossed"`); a package is decoded
  in the format chosen when it leaves the queue, 2157 (m, `"mixed"`); sent bytes
  are counted two or three times, 2148 and 2177; every opening connects
  `readyRead` once more, `serial_port.cpp:410`, and the readers after the first
  find nothing (m, `"empty"`); frames that arrive in two reads are cut short,
  the check for it being commented out at 1135 (m, `Splits`); `protocol_` is
  never initialized (m); restored channels have other numbers than their
  scripts, 313 (m, `renumbered`).
- forms: fields written under one key and read under another, not written, or
  not watched (m, `Lost`, `Unnoticed`): the package interval and the heartbeat
  of a TCP client (`tcp_setting.cpp:401`), the framing of a UDP server, the
  capacity of a Modbus plot, QoS and retain of MQTT, the framing model of every
  window; the protocol of a serial window can be changed while it is open,
  although `serial_window.cpp:2130` says it cannot; a heart beat that equals the
  garbage `heartbeat_interval_` starts with leaves the timer at 0 (m,
  `Garbage`); switching the display clears `saved_` without telling the button,
  `frame_window.cpp:497` (m, `silent`).
- instruction table: in TCP and UDP windows the rows can never be edited,
  because the table as a whole is disabled and `SetEnabled` is not called (m);
  an edit does not mark the session unsaved (m); a deletion brings up no
  controls, so blank rows stay after several (m, `blanks`); the delete button of
  a row is not locked (m).
- terminal: a payload with the mark of the other direction is coloured by it,
  `TtTerminalLexer.cpp:378` (m, `Marked`); a change of the format drops what was
  shown, which the comment at `frame_window.cpp:505` asks about (m).
- chat: a mouse that jumps over rows leaves them marked, not copied and not
  unmarked by later clicks, `TtChatView.cpp:578`; the wheel marks rows nothing
  commits, 668 (m, `skipped`); the copied text is in the order of a hash set,
  `TtChatMessageModel.cpp:221` (m); a drag that leaves its line to the left or
  to the right goes on in the last line of the message,
  `TtChatMessageDelegate.cpp:742` (m, `BesideLine`); the cache of sizes is shared by all views,
  `TtChatMessageDelegate.cpp:656` (m, `stale`).
- plots: the first value of any curve moves the start of time for all,
  `TtModbusPlot.cpp:124` (m, `since`); a deleted row leaves its curve, and rows
  of one address share one, which `modbus_window.cpp:622` calls a bug (m);
  samples of one millisecond are one row of a recording (m).
- bars and dialogs: a bar of a destroyed window stays in the list, and the next
  bar uses it (m, `Dangling`); bars of one millisecond lie on each other (m);
  the left button of a dialog with two options, like closing it from outside,
  counts as accepted, `TtContentDialog.cpp:595` (m); `main_window.cpp:1196`
  reads a dialog that has deleted itself; a directory chosen in the dialog of a
  recording is used only the next time, 680 (m); one text file that cannot be
  compiled leaves the program without a menu of languages (m).
- channel and MQTT dialogs: a channel renamed in the list has its old title in
  its dialog, whose title in turn does not reach the list, since nobody is
  connected to `textChanged` of `TtChannelButton` (m); a script that is emptied
  is stored but the one before goes on being used (m); `ignore_next_release_`
  has no initial value (m); cancelling the dialog of the properties of an MQTT
  message keeps what was typed (m).

## What is not modelled, and why

- Drawing: `lib_ui/ui/widgets/buttons.cpp`, the styles, labels, layouts, the
  axes of the plots, the painting of chat bubbles, icons, themes. There is no
  order of events in them that could go wrong, only pixels.
- In the parts that are modelled: HEX conversion (packing of bytes), what a Lua
  script computes (one of a few results), the look-up of port names in WMI, the
  order of tabs, what is typed into MQTT user properties. That `QSet` and `QQueue` are
  not made for two threads at all: an access to a container is one step in
  `ModbusMaster`.
- Code nothing calls: `TtCsvHandler`, `TtQCustomPlot`, `TtPlotWidget`,
  `Downloader`, `ModbusServer`, `CollapsiblePanel`, `PopWidget`,
  `TtPopUpDrawer`, two helpers, several functions of `UdpServer`, the parser in
  `SerialPortWorker`, the random tests of `SerialWindow`, and the halves of
  `TtChatView.cpp`, `TtChatMessageDelegate.cpp`, `TtTerminalLexer.cpp` and
  `serial_window.cpp` that are commented out or behind `#if 0`. They are part of
  the lines that no definition stands for.
- Third-party code (QScintilla, libmodbus, Lua, QCustomPlot, Qt MQTT). Qt itself
  is modelled where a module needs it; those definitions are marked external in
  the map.

## Plan

Done: every component whose state more than one event can change.

Every invariant and every step property that a passing run checks is proved. What
is left to the runs alone are the liveness properties.

The passing runs are few and large: the compositions put the parts that share
nothing into one run each. A part that needs larger bounds than its neighbours
can be checked alone, since every module has a specification of its own.
