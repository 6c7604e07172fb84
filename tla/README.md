# A verification project for libonvif

libonvif is a C library for ONVIF cameras together with the programs built on
it: **libavio** (C++: playing and recording of streams), **kankakee** (C++:
small network servers and clients), **onvif-gui** (Python: the window that
shows many cameras at once) and **onvif-util** (a command line). This directory
holds TLA+ models of the parts of that code in which several threads work on
shared state, the TLC runs that check them on small instances, and proofs for
every value of the constants. Paths and line numbers refer to the repository;
`PROJECT.json` gives the lines every definition stands for.

## 1. The system

### Components

**Queue** (`libavio/include/Queue.hpp`). A bounded queue: `push` waits while it
is full, `pop` while it is empty. Also `clear`, `erase_front`, searches for
packets by time and for key frames, and `remove_latency` (drop all but the
newest). *Correct when* the capacity is never exceeded and order is kept.

**Player** (`Player.hpp`, `Reader.hpp`, `Decoder.hpp`, `Filter.hpp`,
`Display.hpp`, `Audio.hpp`). One object per stream or file. `play()` runs in a
thread of its own, connects the reader, starts a thread for the reader, and for
each of the two streams a decoder and a filter thread; video is rendered in a
display thread (or in `play()`), audio by the SDL callback; a live stream also
has a writer. The stages are joined by queues: packets (128), frames (1). The
user's thread, or Python, calls `terminate()`, `seek()` and `togglePaused()` at
any moment. The state is the queues, the flags `closed`, `terminated`,
`paused`, `seek_pts` of the reader - written and read without a lock - and what
each thread has in hand. *Hard*: every end of a stream travels down the queues
as a null element, while `terminated` makes some stages leave early; a push can
block for ever. *Correct when* frames come out once and in order, seeks are
honoured, no stage waits on one that is gone, and `play()` returns after the end
of the stream and after a stop.

**Writer** (`Writer.hpp`, with `Player::toggleRecording`, `startFileBreak`).
Keeps the latest packets of both streams in caches, so that a recording begins
with the moments before an alarm; opens, writes and closes files as
`Reader::recording` says. The flag is toggled by the user, by alarms and by
`file_break()`, which splits long recordings from a detached thread. *Correct
when* the caches reach back far enough and do not grow without bound, files
have no gap but for a packet that could not be written and begin with a key
frame, and requests to start, split and stop take effect.

**Manager and main window** (`onvif-gui/onvif_gui/manager.py`, `main.py`,
`player.py`, `panels/camera/camerapanel.py`). The list of players, one per
stream URI (a camera may have two: one to display, one to record); a cell of
the grid per camera; a timer per stream that tries again every ten seconds
after a failure. Player threads call back (`mediaPlayingStarted`,
`mediaPlayingStopped`, `errorCallback`) and queue signals to the window's
thread, which at the same time serves the user. *Correct when* a wanted stream
is always retried, a stopped one stays stopped, and a player is never dropped
while its threads run.

**Alarms** (`player.py`, `glwidget.py`, `protocols/listen.py`, the panels of the
camera). Threads of a player detect alarms in the video and in the audio; on a
client the frames load what its server has broadcast. A detection sets
`alarm_state`, (re)starts the lag timer of the window and, by toggling the flag
of the recorder, starts a recording that the timer ends; the record button and
the settings toggle the same flag. *Hard*: test and toggle in several threads,
signals queued to the window, broadcasts that are lost, late or doubled.
*Correct when* an alarm ends in time, leaves no recording behind, and what must
be recorded is.

**GLWidget** (`glwidget.py`). Draws the players' images under `Manager.lock` and
`Player.lock`, flags that are set after being tested; some exits leave them held.

**kankakee** (`Server.h`, `Client.h`, `Listener.h`, `Broadcaster.h`) and the
window as server and client (`panels/settings/proxy.py`, `protocols/*.py`,
`ptztab.py`). Threads that poll sockets and a wake-up descriptor, started and
stopped by the window; each request of a client has a connection and a thread of
its own. *Hard*: `stop()` waits with the interpreter locked for a thread that may
need it, and gives up. *Correct when* one thread serves, stop ends it, a later
start works, and a camera that was told to stop last stops.

**Camera list and discovery** (`libonvif/include/session.h`,
`panels/camera/camerapanel.py`, `datastructures.py`, `cameralist.py`,
`logindialog.py`). A session per interface broadcasts and interrogates the cameras
that answer; fillers try the addresses of the cache; a camera may be added by
hand. All threads share one dialog for passwords and one list. *Correct when* a
camera is on the list once, passwords go where they belong, every camera that can
be found is, and every search ends.

**Disk manager** (`components/diskmanager.py`). Removes the oldest recordings
to stay below a limit, while new ones are being written.

**Snapshot** (`panels/camera/snapshot.py`). A sequence of attempts to
authenticate and to fetch an image.

**libonvif** (`onvif.c`, `onvif_data.h`, `onvif.cpp`). Builds and parses SOAP
messages over blocking sockets; conversions such as netmask to prefix length.

**onvif-util**, bindings (`avio.cpp`), settings panels, image analysis modules,
digests, Windows and macOS variants of kankakee: sequential code, declarations
or platform copies. **Vendored**: pybind11, rapidjson, yolox.

### How they interact

The window creates a `Player` per stream (`playMedia`) and hands it to the
manager, which starts it. The player's threads call Python callbacks, which
queue Qt signals. The writer of a player is driven by its decoders (or by the
reader when the stream is hidden) and by the recording flag, which detectors,
the lag timer and the user toggle and, through `GLWidget`, the end of a file.
A server's `GLWidget` broadcasts the alarms its clients' listeners receive.
`Player.terminate()` starts a detached thread; when `play()` has joined its
threads another one calls `mediaPlayingStopped`, which takes the player off the
manager's list and may start the reconnect timer.

## 2. Modules

| module | models |
|---|---|
| `AvioQueue` | the operations of `Queue.hpp` as operators on sequences |
| `Player` | all threads of one player, every blocking call and shared flag |
| `PlayerProps`, `PlayerMC` | its properties; kinds of player for TLC |
| `Playback` | abstract: what a player is to its owner |
| `Recorder` | the writer, the user's or alarm's toggles, `file_break()` |
| `RecorderProps`, `RecorderMC` | its properties; kinds of source |
| `Manager` | players, cells, timers and signals of the main window |
| `ManagerProps`, `ManagerMC` | its properties; two cameras |
| `Alarm` | detectors, lag timer, record button, broadcasts of one camera |
| `AlarmProps`, `AlarmMC` | its properties; kinds of camera |
| `Proxy` | change of the proxy type, server, listener, requests of a client |
| `ProxyProps`, `ProxyMC` | its properties; what is tried |
| `Discovery` | sessions, fillers, the login dialog, the list and its cache |
| `DiscoveryProps`, `DiscoveryMC` | its properties; two cameras, three addresses |
| `PlayerProofs`, `PlayerOrderProofs`, `PlayerFileProofs` | theorems about a player: stages that wait and `Playback`; order of frames; files and seeks |
| `RecorderProofs`, `ManagerProofs`, `AlarmProofs`, `ProxyProofs`, `DiscoveryProofs` | theorems about the other components |

In every module `opts` is chosen once, in the initial state, from the records in
`Options`: the kind of source or camera, what may fail and how much the user
does. One run thereby covers several kinds, each with the bounds it needs, and
the theorems hold for every set of such records.

An operator marked `\* mutant` is a wrong variant of the definition that
follows it, used to see that a property can fail. It is no part of the model.

### Player

A packet is the number it was read as. `opts` says which streams are played,
whether the source is live or hidden, how many packets it has, what the user may
do (`user`: stop, seek, pause) and which calls may throw (`fails`). Each thread
has a variable for where it is (`rd`, `dec[m]`, `fil[m]`, `snk[m]`, `wr`,
`play`) and for what it holds (`rhand`, `dhand`, `dout`, `fout`, `shand`); the
codec may hold back frames (`held`). `term[c]` and `clr[c]` are the calls of
`Reader::terminate()` and `clear_queues()` in progress in thread `c`; a caller
that blocks in them is not at any other action. `fault` is the end of the
process by a null or deleted object, which the code does reach.

A step is one blocking call, or one read or write of a flag another thread
writes. Merged into one step are: the reads of `terminated` and of the seek flag
in a decoder; the stores to `closed` and `terminated`; the return of
`av_read_frame` with the checks that follow; the check of a reader queue pointer
and the push to it at the end of a file. A stream that the media lacks counts
as a disabled one. The seek of `file_start_from_seek` is a seek the user makes
during set-up. The display without a window (`headless`) is modelled, whose
constructor does not fail. There is one stop thread. Packets carry a pts: the
decoder drops those without (`Decoder.hpp:122-128`).

`Playback` is the owner's view: started at most once, failed at most once,
pictures only in between, over at most once. `PlayerProps` maps `play` and
`term["play"]` to its `phase` (`mediaPlayingStarted` is called in the step that
leaves set-up, `errorCallback` in `PlayThrow`, `mediaPlayingStopped` in `Join`)
and `shown["video"]` to its `picture`. `Manager` uses exactly these steps of its
players: connect, fail or start, finish, and then the last callback.

Not modelled: pacing by time, volume and mute, Python's audio callback, keys of
a player's own window, `clearBuffer()`.

### Recorder

A packet has a stream, a number, a time and a key flag; times stand for
`real_time()`, so that those of the two streams compare. `TakePacket` is the
packet a decoder has pushed: the next of either stream, at one of the distances
`steps`, no further than `MaxSkew` ahead of the other. `Write` is the rest of
`Writer::write()`: open, write or close a file, each of which may throw where
the code does, then cache the packet. `file[s]` holds the packets of stream `s`
in the open file (the muxer interleaves the streams). `due` records what was
popped since the last request set the flag (`on`), `recorded` what is in files.

A write may fail: `av_interleaved_write_frame()` throws, `write_packet()` logs it
and the file goes on. `AddToFile` lets it refuse any of the packets it is given,
the cached ones included; they are in `refused` and not in `recorded`.

`lag` is how much of the stream passes while `file_break()` sleeps between its
polls (of 10 ms) and no file is open, `slept` the most it ever was. Nothing bounds
them, since the scheduler gives no bound; the properties say of which executions
they speak (`Whole`: the cache lasts longer than the thread slept). One file break
is in progress at a time.
Not modelled: codecs, file names, `adjust_pts()`.

### Manager

`obj[i]` is a player object: its stream, where its threads are, the flag
`request_reconnect`, the value `mediaPlayingStopped` has read of it, and whether
`terminate()` found a reader (`Player.hpp:283`: one that is still connecting is
not told). `events[u]` is the queue of signals to the window for a stream (signals
of different streams touch different timers), and the window's thread is idle
or in one of its two waits (`gui`). `user` records what the user last did.

`opts` says which cameras are in use, what may fail and how often the user
clicks. The sections under `Manager.lock` are single steps.
`DisplayRect` is what a paint does to the cells: the window may have any of the
grids that `computeRowsCols()` considers, and a stream whose cell is outside gets
a free one. A player that was told to end need not (`StopReturns` of the player
is violated), so both waits of the window may time out: `CloseTimeout`, after which
the players stay on the list, and `RestartGo`, which replaces one on the list and
so deletes it under its threads (`fault`).

`Races` names three orders of events that the runs leave out because the code
keeps their two sides seconds apart: `tick`, a timer of ten seconds (`main.py:71`)
that fires while a connection attempt, which gives up after five
(`Reader.hpp:40`), is going on; `emit`, a thread that sleeps between taking a player
off the list and sending its signal for as long as a new connection takes; and
`restart`, settings changed before a stream plays, while the window has their tabs
disabled (`glwidget.py:387`). With `tick` or `emit` a running player can be
overwritten as well, and with `restart` the other stream of the camera can be
forgotten (section 6). Not modelled: file players, the focus window, a change of
profile, the stress test.

### Alarm

One camera with one stream, which is both shown and recorded. `at[d]` is what
detector `d` has still to do in `setAlarmState()` after it set `alarm_state`, so
that the emission of a signal, and the test and the toggle of the recording, are
steps of their own; with `slow`, `getOutputFilename()` waits for the disk between
the two, in a detector, in a click on the record button and in `managePlayers()`,
for as long as it takes. `gui` is the same for the window. `recording` is only ever
toggled, as in the code; `by` says by whom last.

`button` is whether the record button is enabled: `syncGUI()` sets it when it
happens to run, after `onMediaStarted()` (`pending` until then), after a click, or
from another handler (`Refresh`). `Click` by the button asks it, `Click` by
Ctrl+R does not.

Time is a tick: a frame, a signal or a due timer is handled within it, but a wait
for the disk may last many, also longer than the lag timer. `since` counts the
ticks since something was in front of the camera, without those in which the
window itself waits. On a client (`remote`) `net` holds the broadcasts under way;
they may be lost, late (`MaxDelay`) or received again. What is sent is the
`alarm_state` of the server's player, which is on for up to the lag time of the
server after the scene (`Broadcast`; that it is not longer is `AlarmFresh` of a
camera without a server). A stream ends by itself or by `RequestShutdown` and comes
back (`Connect`, `Started`). Left out: sounds, pictures and `last_alarm_state`, the
file break (it is in `Recorder`), a camera that records another profile than it
shows, and how detections are counted over the frames of a second.

### Proxy

`SetType` is `setProxyType()`: the window stops the server (`Server::stop()`
returns when the socket is closed, or throws after five seconds, in which every
thread that handles no request has left), starts it, and does the same with the
listener. While it waits the interpreter is locked (`Locked`): callbacks and the
report of exceptions wait. `thr[t]` follows a thread of the server from its loop
to the end, `wake` is the descriptor `wake_fd`, `lost` a socket that listens with
no variable left to name it. A request connects, waits in `backlog`, is accepted,
handled and answered; its client may give up at any point. Requests with odd
numbers start to move the camera, even ones stop it. Two presses of a button are
two threads: `racing` lets them connect in any order. Left out: other requests,
the file server, `Broadcaster` (its messages are in `Alarm`), MediaMTX, errors of
`poll()`.

### Discovery

`search[s]` is a session, a filler or an addition by hand: where its thread is,
the addresses it has still to ask, and what `Session::discover()` and
`manual_fill()` keep of the attempts (offset, count, direction). The answers to a
broadcast are a set, asked in any order; cached addresses are one per camera. A camera is a
serial number; it may have several addresses. `opts.skew` is by how many hours
the computed time offset is wrong, `private` the addresses that refuse the common
password, `open` those that answer `getCapabilities()` without any. `faults`:
answers are `lost`; a camera is `down` at times (*unable to connect*), `broken`
(a fault, or no XML: the next thing is the dialog, or another attempt) or `silent`
(`Hang`: `sendCommandToCamera()` waits in `recv()` without a time-out, or for ever in
the loop that reads the rest of a reply); a `user` cancels or mistypes.

`getCredential()` is four steps: the decision (`Credential`), the end of the wait
for the dialog (`Test`), the flag and the signal (`Request`) and the end of the
wait for the answer (`Asked`). Two threads may stand between `Test` and `Request`
(`raced`); the second signal then reaches the event loop of the open dialog
(`Show`), which takes the other camera's name. `getData()` is two, the look at the
list (`GetData`) and the addition (`AddToList`); `twice` collects the cameras for
which two threads were between them. Add Camera runs `manual_fill()` in the
window's thread: it keeps the interpreter locked while it waits for the camera
(`Held`), calls `exec()` itself, and shows no other thread's dialog while it waits
for the flag. The objects of a session live on when the list `sessions` is cleared
(the callbacks keep them); those of fillers do not (`fault`). Left out: clients,
who get the list from their server; the profiles and settings `fill()` reads;
starting a camera once it is filled.

## 3. Runs

Every passing run explores its instance completely; between them all actions of
each model fire.

| run | instance | shows |
|---|---|---|
| `PlayerFile` | a video file of 4 packets that is paused and resumed; one of 2 with a seek, also in a pause; a codec that holds back a frame | frames are rendered in order and, without a seek, each once up to the last; a codec never holds packets of both sides of a seek; `play()` returns but for the named races with the end of the file |
| `PlayerLive` | video, audio, hidden and audio-video streams of up to 3 packets, a stop at any moment, exceptions in connecting, set-up, reading and audio device, dropped packets | no stage waits on a dead one; a stop or an end of the stream ends `play()` except in two named ways; the player is a `Playback` |
| `PlayerStopHangs` | live video, stop | **violated**: a stop need not end the stream |
| `Recorder` | nine kinds of source (video, audio, both, video or audio not recorded, a stream with pauses, disks on which files cannot be opened, closed or written), up to 6 time units, a cache of 2, two requests, one file break | what the caches cover and that they are trimmed; only a refused packet is missing from a file, adjacent files overlap, no other packet is lost; while the stream goes on `file_break()` returns, unless a file cannot be closed or a request sets the flag again |
| `RecorderCacheTail` | camera with audio | **violated**: the tail of the longer cache is in no file |
| `Manager` | two cameras with three streams that never fail, 3 clicks, or may be lost, 2 clicks; the camera with two streams when connecting and set-up fail, 2 clicks, or everything may fail, 1 click; the camera with one stream when everything may fail, 2 clicks | only a restart deletes a running player, and only one that was told to end; cells are not shared, also after a paint has moved streams; a stop is final, no wanted stream is forgotten; each plays in the end; the window's waits end |
| `Alarm` | cameras with two detectors, with a slow disk or with everything the user does, one that records always, and a client; 2 things the user does, 2 losses | an alarm ends in time, leaves no recording behind, a camera that records always does, an alarm that goes on is recorded again and again, each but for the cases the property names |
| `AlarmForever` | one detector, record button | **violated**: after a manual recording that a lost stream ended, alarms record for ever |
| `Proxy` | 3 changes of the type, a press and a release, 1 multicast message | one thread serves, the camera stops, no listener is deleted without a message, every connection is settled, the port is given back |
| `ProxyRestart` | 3 changes of the type | **violated**: a server that is started again does not serve |
| `Discovery` | thirteen situations: two interfaces with overlapping answers in any order, two clicks, lost answers, cameras that are down, broken or silent, wrong passwords and clocks, the cache twice, additions by hand while a session asks for a password | a camera is listed once unless two threads are in `getData()` for it at once; a password goes to its camera unless two threads passed the test of the flag together; what can be found is; searches end but for what `Ends` names |
| `DiscoveryCache` | two cached cameras that may be off | **violated**: a camera that is off is dropped from the cache |

**Bounds.** Packet queues hold two elements instead of 128: with two, every
queue can be full, hold a packet and a null element, and be emptied again; one
would hide the behaviours in which the null element waits behind a packet.
Frame queues have their true capacity of one. Four packets are one for each
place of the pipeline behind the reader. One seek meets each position of the
reader and every stage. The recorder's six time units are three times the cache,
so that it is filled, trimmed and trimmed again; two requests are a start and a
stop, with the file break before, between or after them; any packet of a full
disk may be refused. Three streams in two cameras are
the least for which a shared and a foreign cell exist; two clicks are a start
and what revokes it, and a third is needed for a stream that keeps a cell outside
a grid that has shrunk; failures are not bounded, only clicks are. The liveness of
the streams of one camera does not depend on other cameras. A lag of two ticks
can be restarted half-way; two losses are the least after which a camera has come
back, failed and come back once more; a wait for the disk has no bound. Two
threads of the server and three changes are a server that is left and entered
again, and left; a press and a release are the requests whose order matters. Two
cameras, one of them with two addresses, on two interfaces are the least that
overlap in answers and in addresses, and for which two threads can be between test
and set, or between look and addition, for the same camera and for different ones.
`CHECK_DEADLOCK FALSE` is set where the system may stop: in the player's runs,
whose pipelines can block, and in `Alarm`, `Proxy` and `Discovery`, where the user
has done all the bound allows.

**Fairness.** Weak fairness per thread: the operating system schedules every
thread that can run, SDL calls back, a read returns by `MAX_TIMEOUT`. Nothing is
assumed of the user, except that he answers the login dialog. In `Recorder`
packets keep coming while the stream lasts, and nothing is assumed of its end. In
`Manager` an attempt to connect returns, signals are handled, active timers fire,
a player that plays and was told to end need not, and - strong fairness - a
camera that is tried again and again answers at last; otherwise no retry could be
shown to succeed. In `Alarm` the threads that detect get frames and the window
runs; streams need not come back. In `Proxy` a client need not send, and no
message need come. In `Discovery` a thread runs unless it hangs in a request.

## 4. Proofs

The assumptions are those of the modules (`PlayerAssumption` and so on, one per
module). Where a theorem needs more, its statement says so: `Alone`,
`Races = {}`, `nseek = 0`, `WholeFile`, `Live \/ Unstopped`. No definition is
replaced: the theorems are about the specifications TLC checks, for every value of
the constants and every set of `Options`.

Every invariant of a passing run is stated by a theorem, with these limits:
`StagesFed` and `DecoderFed` until the first seek (the run that checks them has
none), `PlayedOut` and `InOrder` for a `WholeFile`, `FlushedBySeek` for a live
stream or a file nobody stops (both hold of the files of `PlayerFile`), those of
`Alarm` and `Manager` as stated below.

**`PlayerProofs`**, for any capacity of the queues, number of packets, seeks and
pauses, any set of failures and any mix of sources:

- **`TypeCorrect`**: `TypeOK`, which includes that no queue exceeds its capacity.
  `TypeOK` is not inductive: a filter's step needs that it has a frame in hand
  where its code says so, and `SeekSet` that the request it counts was checked
  (`InHand`); the start of the threads needs that none runs before (`Startup`).
  There is one lemma per thread, one step per action.
- **`StagesAlwaysFed`**: until the first seek no filter, display or audio callback
  is left waiting for a stage that is gone, whichever way it went. The invariant
  `FedInv` adds what each stage must leave behind: a decoder's null element is
  what it pushes last (`EndsFed`), a filter that holds a null element will pass
  it on (`FilterGets`), and no thread clears a queue while there is no seek
  (`Quiet`). A seek clears frame queues, with the null element if there is one:
  this is why the theorem excludes it.
- **`DecoderAlwaysFed`**: a decoder is not left waiting for a reader that is gone.
  The reader at its end and `terminate()` look at each other's flags and queue
  pointers; `EndInv` says that a closed reader, a pointer that is null and a
  `terminate()` that is past the video queue each mean that the null packet is on
  its way.
- **`WriterAlwaysFed`**: once a decoder of a live stream has ended, the writer has
  ended or has a null packet in its queue.
- **`PlayerIsPlayback`**: `Player` implements `Playback`. `OwnerInv` says when
  `play()` may have called `terminate()`, and that no display renders once it has
  or `play()` is over; the steps of all other threads are stutters.

**`PlayerOrderProofs`**, for the same players:

- **`RenderedInOrder`**: what is shown never goes back. A packet is in one of eleven
  places between the screen and the last packet read (`Contents`); what is nearer
  to the screen was read no later (`Ordered`), and each queue is sorted
  (`AllSorted`). A step moves packets to the next place or drops them (`Thinner`,
  `Fewer`), so that a seek, a stop, a cleared queue or a dropped packet cannot
  disturb the order.

**`PlayerFileProofs`**, for files:

- **`NothingSkipped`**, **`PlayedToTheEnd`**: until the first seek the frames of a
  video file are rendered without a gap, and up to the last one when `play()`
  returns. `Covered` says that every packet read and not yet shown is in one of the
  places; `NullLast` that nothing is behind a null element, in a queue or in hand,
  so that the stage that takes it leaves nothing; `AllShown` follows. The
  hypothesis `WholeFile` excludes what does skip frames: a stop, a full queue with
  `packetDrop`, a filter that returns no frame, and exceptions after the connection.
- **`AlwaysFlushedBySeek`**: a codec never holds packets of both sides of a seek.
  `FlushInv` says for each decoder where the flush packet between the two is: it
  is in hand (`FlushInHand`), in the queue before the newer packets
  (`FlushComing`), or the reader has still to clear and flush (`FlushDue`), unless
  all packets are of one side or the decoder decodes no more. It holds as long as
  no other thread clears the queues of the player: a pause (in the property), a
  stop, or a failing audio device, which calls `terminate()` (`Unstopped`), can
  remove the flush packet. TLC finds `FlushedBySeek` violated for a file with a
  seek and a stop. A live stream is never sought in.

**`ManagerProofs`**, for any number of cameras, players and clicks:

- **`ManagerTypes`**, **`CellsNeverShared`**, with the races included. `CellsApart`
  is inductive with the types of the cells (`CellInv`), given that `nextOrdinal()`
  is not a cell in use (`NextIsFree`, a count of the cells taken), also for the
  stream pair that `displayRect()` moves to it; the types need that a listed player
  is the one its uri names and has threads (`Listing`).
- **`NoPlayerOverwritten`**, **`NoStreamForgotten`**, **`StopIsKept`**, under
  `Races = {}`. They share one invariant, `LeftInv`: until a player is deleted
  `OrderInv` holds, which relates for each stream the list, the timer and the queue
  of signals; and the only step out of it is a restart whose wait timed out
  (`Overwritten`). The heart of `OrderInv` is `Answer`: what the timer will be when
  the queued signals have been handled. A player that plays has `stopReconnect` as
  the last word (`Quieted`), so that no timer fires for it; it connects only when
  the last calls of its predecessors have been made (`Single`); and what a wanted
  stream loses last is always a request for a reconnection (`Wanted`).

**`AlarmProofs`**, for any lag, expiry and delay and any number of clicks and losses:

- **`AlarmEnds`**: `AlarmFresh` for cameras that either detect or load a server's
  alarms (`Alone`). `FreshInv` bounds the age of what caused each queued start
  signal, the timer (`since + timer <= Lag + R`) and, on a client, each message
  under way and the state loaded from it, where the server's own lag time counts.
- **`AlarmSettles`**: `Settled`. `RecordInv` says who will end a recording that
  nobody asked for: the timer, a signal that will start it, or a thread that has
  decided to (`WillEnd`), or nobody, because a thread that had waited for the disk
  started it after its alarm had been cleared (`by = "late"`).
- **`AlwaysIsRecorded`**: detectors of a camera that records always never toggle;
  the button is enabled while it records only as long as `onMediaStarted()` has not
  been handled (`AlwaysInv`), and what is clicked before is `"blind"`.
- **`AlarmTypes`**: `TypeOK`. What is not obvious is that the queue of signals is
  bounded: each detector that has still to emit one is counted with it (`ToEmit`).

**`RecorderProofs`**, for any cache time, disk, request and distance of packets:

- **`RecorderTypes`**: the operations of the queue, the trimming of the caches and
  their merging return sequences of packets.
- **`CacheCoversAlways`**, **`VideoTrimmedAlways`**: what was taken is numbered and
  ordered by time (`TakenInv`); each cache is its end (`IsTail`), that of the video
  begins with a key frame that is old enough (`VideoBack`), that of the audio is
  cut at the same time (`AudioBack`), and only the first key frame may be older
  than the others by the cache time (`Trimmed`). The last two are what makes the
  choice of the next packet to erase, a search from the front, come out right.
- **`PreAlarmMergedAlways`**: the merge of the two caches is a recursive function on
  positions. That it stops, and which positions it has passed by then (`Passed`,
  `MergeEnd`), is proved by induction: the set of the numbers of steps for which it
  holds contains 0 and with every number the next (`NatInduct`).
- **`NothingLostAlways`**, **`OverlapAlways`**: `Requested` relates the flag, the
  request and a file break in progress. While a file is open, what it was given ends
  with what went through the cache and holds all that was taken on request
  (`FileInv`), whatever the muxer refused of it; while none is, what was given to no
  file is in the cache and so recent that the next packet does not trim it, and so
  is the last packet of the file before (`KeptInv`). `Whole`, the hypothesis of the
  properties, is what that needs: a source of one stream, files that open and
  close, and a `file_break()` that has not slept for longer than the cache lasts.

**`ProxyProofs`**, for any number of threads, changes, requests and messages:

- **`ProxyTypes`**, **`OneAlwaysServes`**: an active thread has a socket that
  listens, or one that is lost, and either makes the next `bind()` fail (`Bound`).
- **`CameraAlwaysStops`**: requests are accepted, handled and answered in the order
  in which they connected (`InTurn`), whatever times out and restarts.
- **`ListenerAlwaysKept`**: a listener that `stop()` gave up on is in a callback,
  and so has got a message (`KeptInv`).

**`DiscoveryProofs`**, for any cameras, addresses, interfaces, clicks and faults:

- **`DiscoveryTypes`**: types, with the order in which offsets are tried (`Threads`),
  whom the dialog and the signals for it name (`Dialog`), the sessions that may
  still start (`Window`) and what is on the list (`Lists`).
- **`OneLoginAlways`**: while no two threads were between `Test` and `Request`
  together, a thread there finds the flag clear and is alone (`OneSetter`), there is
  one request, under way or on the screen, and its thread waits for it
  (`OneRequest`), and what is typed is for that thread (`OwnAnswers`). They hold
  together or not at all: a second request is excluded by the flag, and the flag is
  cleared only with the dialog of the request.
- **`OnePerCameraAlways`**: a thread at `add` has a camera that is not listed and is
  the only one there for that camera, but for the cameras in `twice` (`Single`).
- **`CompleteAlways`**: every answer is in front of a search or in its hands, with
  the right offset still to be tried, or on the list (`Covered`, for sessions and
  for fillers); the first entry of each stream is filled or a thread is about to
  (`Led`); and the button stays disabled only as long as a session runs (`Button`).

**Only model-checked**: the liveness properties (`FileEnds`, `LiveEnds`, `BreakEnds`,
`Reconnects`, `GuiReturns`, `AlarmRecorded`, `Served`, `PortFreed`, `Ends`): fairness
and `ENABLED` are out of the prover's reach; and the refutations, which are runs. The
folds of the queue's searches are proved about only as far as the recorder needs it,
by least elements of sets of positions; what they compute for every input is left to
the runs.

## 5. Plan and what is not modelled

Done: all models of section 2, their runs, and the theorems of section 4, in the
order from the player to discovery. Next:

1. `PlayerFileProofs`: `WholeFile` for a file with sound as well, whose two streams
   end independently.
2. `StagesFed` across a seek, with the two clears that may remove a null element
   (`EndCleared`) named in the property.
3. `ManagerProofs`: what remains true of a stream with the race `restart`.

**Not modelled**, and why:

- The two spin locks of the window and the images they protect (`glwidget.py:84`,
  `player.py:86`, `manager.py:36`). A lock that is tested and then set is correct
  only as far as the interpreter does not switch threads between the two, which
  depends on its version; the early exits that leave it held are plain defects.
- The disk manager and the file break's arithmetic: state of a file system.
- Snapshots, settings, file panel, image analysis, onvif-util, and the building
  and parsing of messages in libonvif: sequential code on strings, pictures and
  blocking sockets, without state that outlives a call.
- The pixels of the grid. Which grid the window chooses depends on them; the model
  allows each that `computeRowsCols()` considers.
- Vendored code. pybind11 (three copies), rapidjson and the ONVIF schemas are
  four fifths of the lines of the repository; what remains is to a large part
  SOAP text and widgets.

## 6. What was found

With a run and a counterexample:

- `StopReturns`: `Filter.hpp:106` leaves on `terminated` while its decoder still
  has frames to push (`Decoder.hpp:136-157`); `play()` never joins it.
- `PreAlarmKept`: `Writer.hpp:149` ends the merge when either cache does.
- `AlarmOver`: `manual_recording` stays set when a lost stream ends a manual
  recording (`player.py:133`), and later alarms are recorded for ever.
- `ServerHosts`: the wake-up of `stop()` outlives it (`Server.h:245`); the thread of
  the next start leaves at once and `running` stays true.
- `CacheKept`: `saveCameraList()` writes the cameras found so far
  (`camerapanel.py:478`); those that are off are forgotten.

Stated in `PlayerProps` and `RecorderProps` and violated, without a run:
`SeekNotLost` (`Reader.hpp:127` resets `seek_pts` whatever it holds by then),
`AskKept` (a stop during a file break finds the flag cleared and does nothing, and
`file_break()` sets it again; a start then toggles the flag that `file_break()` has
just set, and so switches recording off),
`KeyFront` (the comment at `Writer.hpp:229` says the cache begins with a key
frame), `AudioBounded` (the audio cache of a camera whose video is disabled is
never trimmed) and `FileLimited` (an alarm during a file break keeps the file
open, and `file_break()` polls for as long as the recording lasts).

Met while modelling:

- `terminate()` sets queue pointers to null while the reader uses them, and its
  detached thread uses a reader that `play()` may have deleted; `file_break()`
  does the same to the writer. All are modelled as `fault`.
- A stop of a camera whose recording stream is still connecting does not reach
  that stream (`Player.hpp:283`): it connects and goes on, while the button shows
  *play*. `user[c] = "stopping"` marks these stops.
- `playerShutdownWait` gives up after a second and `playMedia` then replaces the
  player on the list: the old one, which may never end, is deleted under its
  threads. `NeverOverwritten` names it as the only way to this.
- A failing `av_interleaved_write_frame()` is logged only: a full disk shows as
  gaps in the files (`refused`).
- A stream that fails while its settings are changed shuts down the camera's
  other stream (`main.py:784`), which nobody starts again.
- After an error of the audio device `errorCallback` uses an unbound name
  (`main.py:761`) and its handler calls the logger (`main.py:799`): the
  exception leaves the callback inside the catch block of `play()`.
- A stop while a timer is active leaves the stream's cell taken: cells are given
  up in `removePlayer` only.
- With every camera waiting for its timer the *stop all* button is *play all*,
  because the list of players is empty.
- The `clear_queues()` of a seek made in a pause runs in the user's thread and can
  remove the reader's flush packet, or the null element that ends a stage
  (`EndCleared`).
- A detector that waits for the disk until the lag timer has expired, or while the
  analysis is switched off, starts a recording that no timer ends (`by = "late"`).
- The record button is disabled when `syncGUI()` happens to run, and Ctrl+R does not
  ask it (`cameralist.py:91`): both can turn off a recording that should always run
  (`by = "blind"`).
- On a client whose audio thread detects as well, the stop signal of one detector
  ends the timer of the other.
- A listener whose `stop()` gave up, because its thread waits for the interpreter
  that `stop()` holds, is replaced and deleted under that thread (`main.py:925`).
- A server that gave up waiting in `stop()` cannot bind again and leaks the socket
  it tried with; connections to it wait until their clients time out.
- A camera whose clock is right but that refuses the common password already in
  `getCapabilities()` is never found: by the time another password has been typed
  the offset is wrong. `Complete` names the offsets that are tried.
- A camera whose `getDeviceInformation()` is refused or fails after
  `getCapabilities()` was answered is asked again without a bound (`session.h:98`).
- `sendCommandToCamera()` has no time-out for a reply (`onvif.c:2535`), and its loop
  for the rest of one does not end when the camera closes the connection
  (`onvif.c:2587`): the session never ends, and with Add Camera the window stops.
- The flag of the login dialog is tested and then set (`camerapanel.py:336-339`): two
  threads can both show it, and a password goes to the wrong camera.
- `getData()` looks at the list and then adds to it (`camerapanel.py:407-421`): two
  threads that find a camera at once list it twice.
- Add Camera runs in the thread of the window; when another thread has requested
  the dialog but the window has not shown it yet, it waits for ever
  (`camerapanel.py:336`). `Ends` names this and the two loops above.
- A second click on Discover clears the fillers of the first under their threads
  (`camerapanel.py:257`).
- README.md:1359 says that the network is polled once per minute with Auto
  Discovery; no timer in the code does.
