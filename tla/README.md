# Bondcast: specifications

Bondcast is an Android streamer: camera, encoder, MPEG-TS, then SRT straight to a server or SRTLA
bonding over several networks at once. This directory holds TLA+ modules of its core logic, the TLC
runs that check them on small instances, and TLAPS proofs for every value of the constants. Paths
below are relative to `src/`.

Parse with SANY, check a run with TLC (`-config X.cfg M`), prove with `tlapm M_proofs.tla`. The
runs, the mutants that show that each property can fail, and the source lines of every definition
are listed in `PROJECT.json`.

## 1. The system

| Component | State it keeps | Operations | Talks to | What makes it correct | Module |
|---|---|---|---|---|---|
| SRTLA scheduler (`feature/bonding/domain/.../scheduler`) | links with registration state, window, ring of sent packets, times; the registration candidate; the group id | link up and down, packets from the local caller and from the server, a tick | the io loop calls it and sends for it | every working link joins one group; windows and packets in flight stay consistent; data finds a live link | `SrtlaScheduler` |
| Link io loop (`feature/bonding/impl/.../io/LinkIoLoop.kt`) | sockets of the links, queue of network events, one thread | start, stop, network callbacks, select loop | networks, scheduler, local SRT caller | links follow the networks; a relay ends before the next one begins; its callbacks end with it | `LinkIo`; its packets in `SrtlaBonding` |
| Bonding client (`SrtlaClientImpl`, mutex wrapper) | the running loop, an epoch, the snapshot of links | start, stop | session, loop | one relay at a time; no snapshot of a stopped relay | `LinkIo`; as the session uses it in `StreamSession` |
| Bonding server (`srtla_rec`, external) | groups and their members | REG1, REG2, keepalive; restarts | the links | - | `SrtlaBonding`, external |
| ABR controller (`feature/bonding/domain/.../abr`) | target bitrate, times of the last cut and climb, streak, last loss count | reset, onSample | the sampler | stays in range, no sawing, reasons for every cut, reaches both ends | `AbrController` |
| Stream session (`StreamController.runSession`) | phase, session job, local port | start, stop, attempts with backoff, cleanup | engine, bonding client, foreground service | one session at a time; nothing left behind; every loss noticed, every stop ends | `StreamSession`, abstractly `StreamLease` |
| SRT sink (`SendTimeSrtSink`, `StreamPackEngine`) | socket, completion exception, error flag, isOpenFlow | open, callback, write, startStream, close | SRT library, session | the flag tells the truth about the socket in the end | `SrtSink` |
| USB preview (`libuvccamera`, `UVCPreview.cpp`) | running flag, queues, frame pool, preview and capture thread | start, stop, delete, frame callback | the USB stream, Java | no frame is lost; a stop ends; nothing runs in a deleted preview | `UvcPreview` |
| USB stream (`libuvc`, `stream.c`) | transfers, callback thread | start, transfer callbacks, stop | libusb | a closed stream is quiet | `UvcStream` |
| OBS remote (`feature/obs`) | session job, client, phase, what is shown of OBS | show and hide the panel, connect, poll, events | OBS websocket | commands have a client; nothing stale is shown; a hidden panel lets OBS go | `ObsSession` |
| Twitch EventSub (`feature/chat/twitch`) | registry, session id, socket | register, drop, reconnect | Twitch | the loop and `register()` leave no subscription to each other | `EventSub` |
| Bitrate sampler, packet parsing, Twitch tokens, chat, settings, cameras, screens, server panel | | | | | not modelled, see 5 |

The scheduler is called from one io thread only: each of its handlers is one atomic step. Everything
above it is coroutines and callbacks on several threads, where the steps between two suspensions
interleave. What is hard, line by line, is the list `hazards` of `PROJECT.json`.

## 2. Modules

**`SrtlaScheduler`** - one action per event of `SrtlaScheduler.onEvent`, with `onLinkPacket` split by
packet type. Links are numbered by the io loop and never reuse a number, so the map of links in
insertion order is the set `up` in the order of the ids. Times are ages: `Elapse` adds one to each,
saturated one past the largest limit they are compared with, so that time needs no bound. Sequence
numbers live on a circle of `SeqMod`. Packets are records; what a handler sends is the variable `out`.
A NAK or an SRTLA ACK of several packets is a sequence of those of one packet at one instant.
`sendToLocal` (packets passed on to the caller) changes nothing here and is left out, and so is the
link priority, which nothing reads. A server that follows the protocol is assumed for the words of an
SRTLA ACK: the word -1 is not a sequence number.

**`SrtlaBonding`** - the scheduler of `SrtlaScheduler` composed with queues of datagrams per link and
the server. Its client actions are handlers of the scheduler plus what the io loop does with their
packets. The server is modelled as its client and its protocol see it (external in the map): it
creates a group on REG1, puts a link into a group on REG2, answers REG_NGP for a group it does not
know and REG_ERR to a link that belongs elsewhere, and forgets everything when it restarts.

**`AbrController`** - `reset` and `onSample`. Times are ages again; the history variables `sample`,
`sinceDrop` and `sinceRise` are read only by the properties.

**`SrtSink`** - the steps of `open()` (create and connect, check, emit), the two steps of the
completion callback, for the current and for the previous socket, a failing write, and close. It has
no specification of its own: it is the lower half of

**`StreamSession`** - the coroutine of `runSession` from suspension to suspension, for as many
session coroutines as `Sessions` has; `Start` and `Stop` are what the button, the notification and
the autostart of an activity do. The bonding client is the variable `relay` (the session whose relay
runs). `Cancel` takes a cancelled coroutine from any suspension to its cleanup. The code from the
settings to the first phase (lines 209-232) has no suspension after the settings were read and is one
step. The sampler, the attempt counter, the setters of the settings, the camera switch and `close()`
are not in it, nor is the RTMP endpoint of Twitch direct.

**`StreamLease`** - what the session controller promises: one session at a time leases the things
the process has once, takes the foreground service first and gives it back last, and ends only when
told to. `StreamSession` implements it (`ImplementsLease`): the owner is the session with a coroutine,
`stopping` is its cancellation, and what is held is read off the service, the relay and the socket.

**`LinkIo`** - `SrtlaClientImpl` and `LinkIoLoop` around the scheduler. Relays are numbered; the number
is also the epoch. The client's calls are serialised by the mutex of the wrapper: both go through
`halt` (`running = false`), `unregister` (`provider.stop()`) and `join`; a start then goes through
`register`, `spawn` and `keep`, because the callbacks and the io thread run before the client has the
relay in its field. It may throw in the constructor, before or after the callbacks were registered. A
join that times out puts its relay into `abandoned`. The io thread of each relay selects, drains one
event at a time (`AddLink`, `AddFails`, `RemoveLink`, `ForgetFailed`) and publishes in two steps, the
check of the epoch and the write. `Close` is `closeQuietly()`: the links go, the queue stays, and until
the callbacks have ended it may grow. `told` is what the callbacks have said, `failed` the networks
whose `addLink` threw, `shownBy` the relay whose list is on the screen. The early return of `addLink`
for a network that has a link is never taken, since a network is reported once until it is lost.
Packets are left to `SrtlaBonding`.

**`ObsSession`** - `setPanelVisible` and `runSession` from suspension to suspension, with the connection
of the present attempt (`identified`, `closed`) and the coroutine of `pollStatus`. As many sessions may
overlap as were launched: hiding the panel cancels without waiting. `crossed` is a history variable,
the connected sessions over which a cancelled one has written since. A timeout is a cancellation, as in
`kotlinx.coroutines`: one of `connect()` ends the session, one of a request ends the poller alone. A
session cancelled before it was dispatched ends without its `finally` (`NeverRuns`), one cancelled while
it reads the settings runs it. `client = session` and the phase after it are two steps. The
answers to commands and the scene that is shown before OBS confirms it are left out.

**`EventSub`** - the registry and `register()` in its two steps (add, then read the session id), the
loop, and Twitch, which is external: it knows the session of an open socket, and a session reached
by a reconnect takes over the subscriptions. `missed` notes those that fell into the change from one
session to the next, `failed` those that the API refused. A token that cannot be validated throws out
of `createAll()` and ends the session (`CreateThrows`); in the coroutine that `register()` launches
nobody would catch it, and that is left out.

**`UvcStream`** and **`UvcPreview`** - the native USB preview: `UvcPreview` EXTENDS the stream. Five
threads: the camera's (start, stop, delete), the preview thread, the capture thread, the callback
thread of the stream, and the USB event thread. Mutexes are held only inside a step; what a step does
ends where the code waits, unlocks or tests a flag without a lock. Frames are counted. A condition
variable may wake for no reason. What libusb does with a transfer is chosen by the environment.

`MCSrtlaFlow` and `MCLinkIo` only add a view to their module; the other runs take theirs as it is. The
view of `MCLinkIo` hides the queue of a relay that is closed and whose callbacks have ended, and whether
a thread that has ended and shows nothing was given up. No guard and no property reads the hidden parts,
now or later, and no step changes them alone, so the view is sound for the safety properties and for
the liveness property.
A module `M_proofs` holds the theorems about `M`.

## 3. Runs

| Run | Question | Bounds |
|---|---|---|
| `registration` | Does the handshake keep its rules against any sequence of server packets, and does every link get its turn? | three links, attached and detached in any order; two second halves of a group id; time limits of one unit. Three links are the least for a round robin that could skip one. |
| `flow` | Do windows and logs agree after any interleaving of data and acknowledgements? | two links, ring of two slots, three packets in flight (more than the ring holds, so it is overwritten), windows 1 to 3, sequence numbers around the wrap. Registration is hidden by the view: it never steers the flow. |
| `bonding` | Are the links ever spread over two groups, is the link that a REG2 is on its way to still the candidate, and do all good links end up in the group? | four link ids, one of them dead, so a link may be lost and found again; one server restart; ids for four groups. |
| `bonding_stale_ngp` | Is an established group given up only when the server lost it? | two links, one restart. A violation: see 6. |
| `abr` | Does the bitrate stay in range, patient and justified, and reach both ends? | rates 3 to 8 in steps of 2, so neither the step nor the factor 4/5 divides the range; readings on both sides of every threshold; losses up to 3. |
| `session` | Do sessions started and stopped at any time stay apart and clean up? | two coroutines at a time (the second is the one that would overlap), any number one after another, each with or without bonding. One callback of an earlier socket may be late. |
| `session` (`ImplementsLease`) | Is the controller the lease it should be? | the same states. |
| `uvc` | Does the preview stop, and is everything quiet then, with every thread interleaved and the camera pulled out? | two transfers, one frame waiting and one pooled, so that both limits are reached; start, stop and deletion once each. |
| `link_io` | Do links follow the networks, relays follow each other, and callbacks end with their relay? | two networks, three changes in all (lost and found again while the first event is still queued), two relays, enough for an overlap. Starts that throw count as relays. |
| `obs` | Does a panel shown and hidden at any moment keep its client, show nothing stale and let go? | two sessions launched: the second beside the cleanup of the first. A session may retry without bound. |
| `eventsub` | Does every registered subscription come to an open session that has it or was refused it? | two subscriptions, four connections: a graceful reconnect after a drop, and one after it. |
| `session_overlap` | The same with a start that does not look at the phase. | as `session`. A violation: see 6. |
| `session_stuck_flag` | Can the flag of the sink stay up over a dead socket? | one session. A violation: see 6. |

Deadlock is checked except where the system may stop: no session and nobody tapping (the session
runs), a client or a panel left alone at its bound (`link_io`, `obs`, `eventsub`), a deleted preview
(`uvc`).

Fairness, and why the code gives it:

- `SrtlaScheduler`: `Tick` and `Elapse`. The io thread selects for at most 200 ms and ticks.
- `SrtlaBonding`: time, ticks, and delivery and answers on good links. A good link delivers within a
  time unit; `TimePasses` waits for it. Dead links deliver nothing and get no fairness. What the
  server no longer needs it drops after its own timeout.
- `AbrController`: time passes, and samples keep coming between the skipped ones (the sampler runs
  once a second); a strong fairness, since a skip may come between any two.
- `StreamSession`: a coroutine that can take a step does, and a dead socket runs its completion
  callback. Nobody has to tap, no network has to work, no latency has to change.
- `LinkIo`: an io thread takes its steps (a select and a name query end by themselves), Android calls
  the registered callbacks, and a join ends, if only by its timeout. Networks, starts and stops have
  no fairness.
- `ObsSession`, `EventSub`: the dispatcher runs what is ready and a call of the API ends; a connection
  need not open, answer or close. Once a session leaves its connection, its poller ends.
- `UvcPreview`: the threads are scheduled and libusb ends every transfer (each has a timeout). No
  frame, no start and no stop has to come, and no spurious wake-up.

## 4. What is proved

`SrtlaScheduler_proofs` proves for any number of links, any windows, ring size, sequence numbers and
time limits (the named assumptions of the module: positive sizes, `WindowMin <= WindowDef <=
WindowMax`, id 0 among the group ids):

- `TypeCorrect` (`TypeOK`), by one step per action; the lemmas on the ring and the candidate carry it.
- `PendingLinked`: inductive together with the types.
- `TurnsNearer`: an action property, the safety half of a registration that rotates. `Before` are the
  links that the round robin asks before a given one; `RingAdvances` shows that the next link of the
  ring is always among them and that choosing it takes it, and nothing else, out of them. So a link
  waits at most as many turns as there are links before it, as long as the round goes on. A REG_NGP,
  which names its own link, breaks it, and so does a last candidate that was detached: the round then
  starts at the first link again.
- `SilentOwnsNothing`: inductive with the types, because only a link heard from within the limit is
  chosen for data and a reset empties the ring.
- `WindowsBounded`: not inductive alone, as an acknowledgement opens the window of the link that held
  the packet before growth is capped, and the cap only applies to links heard from. It needs
  `SilentLinkOwnsNothing`: a link that held the packet was heard from.
- `LiveWithin`: counts the slots a scan visits (`SlotsCounted`, `EmptiedSlot`); the slot about to be
  overwritten is not counted, which is why an overflowing ring does not break it.
- `ActiveHeard`: inductive with the types. In an established group a tick that resets a link also
  puts it back to WAIT_REG3, because the reset clears the time of the last packet sent, which is what
  the throttle reads.
- `NoStorm`: an action property. It needs `AskedIsNoted`, a strengthening of its own: whatever handler
  sent a REG2 to a link noted the time, so the next tick finds it too recent unless it resets the link.

`AbrController_proofs` proves `TypeCorrect`, `Patience`, `Spacing` and `Causes`. The inductive
invariant is `TypeOK` with `ClocksHonest` (the ages the code compares are never larger than the true
ages of the last drop and rise) and `StreakHonest` (a streak that is not zero means that the last
counted sample was high); the three action properties follow from it in one step. `ChokedCut` is the
safety half of `ChokedReachesFloor`: a choked sample lowers the target, unless it is at the floor or
did drop within the cooldown. It assumes three things that `buildAbr` and the defaults of `AbrConfig`
give: a positive threshold, a climb interval no shorter than the cooldown (2 s and 1 s), and a factor
that bites above the floor (`CutsBite`; with 0.8, a floor of at least 2 kbit/s). They are needed: the
rounding of `CutLowers` eats a factor that is too close to one, and the cooldown of a cut that changed
nothing (`FloorInv`) is harmless only while no climb can come before it ends.

`StreamSession_proofs` proves `TypeCorrect` and, assuming `~Autostart` (every start is a tap on the
button, which the run `session_overlap` shows to be needed), `OneAtATimeCorrect`,
`ConnectionCoveredCorrect`, `IdleIsCleanCorrect` and `ConnectsThroughRelayCorrect`, for any number of
session coroutines. None of the four is inductive: that sessions do not overlap (`Alone`) rests on the
phase, because the button looks at nothing else, so the invariant says what the phase `Idle` means for
the coroutines (`IdleIsQuiet`: at most one, just launched and not cancelled, as a cancel needs the
phase or the service). `ServiceCovers`, `EngineOwned` and `RelayOwned` tie the service, the engine and
the relay to the step of the session that holds them, and `PortFresh` ties the remembered port to the
relay that runs.

`LeaseImplemented` is the refinement, also under `~Autostart`: from the same invariant, each step of a
session maps to a step of `StreamLease` or to a stutter; which one depends only on what the step does to
the service, the relay and the socket, so the proof first shows that the owner does not change while
its coroutine runs (`SameOwner`, `RunsStep`) and treats the end of the coroutine apart (`LastStep`).

Two theorems are about the flag of the sink. `FlagNotified` holds with the autostart too: while the
flag is up over a dead socket, a callback that has not told is left to lower it, unless the socket died
in `open()` between the check and the emit (`raced`): then nobody is left, which is the finding of
section 6. `LiveWatched` says that a live session does not even depend on a late callback: the
callback still to come is that of its own socket. Both follow from `FlagInv` and `LiveInv`, which pair
the flag, the socket and the two callbacks; `LossIsNoticed` is their liveness.

`UvcPreview_proofs`: `TypesHold`, `FramesAreAccounted`, `StreamEndsQuiet` and `DeletionIsQuiet` for any
number of transfers and frames. The invariant `Inv` joins the frame count with `PlacesInv`, which
relates the places of the threads: deletion is quiet because the join of the preview thread implies
that the stream is closed, and a stream closes only when its callback thread is gone (`StreamInv`).

Two more are about wake-ups, the safety half of `StopReturns`. `SleepersWoken`: nobody waits on the
condition of the stream with nobody left to signal it. The invariant (`WakeInv`) says that the stopping
thread sleeps only while a transfer is left, that no transfer is left merely ready, and that the
callback thread, once the stream was stopped, sleeps no longer than the stopping thread has to wait.
`SleeperMissed`: after the last signal of a stop a thread of the preview that sleeps is one that tested
the flag before it (`missed`).

`LinkIo_proofs`, for any networks, relays and changes:

- `RelaysFollow` rests on `RelaysInv`: an io thread is the client's, the one about to be kept, or
  abandoned (`ThreadInv`), and where the call is says which relays the client knows (`ClientInv`).
- `ListensAlone` rests on `FlagsInv`: the flags of a relay are up from `Register` to `Halt` and
  `Unregister` or to the start that throws, whatever its thread does.
- `StoppedIsEmpty` rests on `ShownInv`: a list on the screen is of the relay that the client holds or
  is about to keep, or of one that was given up.
- `ClosedStaysEmpty` (`ClosedInv`): `closeQuietly()` does not empty the queue, and between `halt` and
  `unregister` a callback may add to it after the channels are closed. No link comes of it, because a
  thread that closed drains nothing.
- `LinksFollow`: the property is about the last event of a network in the queue, which says nothing of
  the order before it. Its invariant is `Chain`: the events of a network alternate, the first one
  changes what the relay has, the last one says what Android said. `ChainAppend` and `ChainTail` keep
  it over a callback and over a drained event.
- `TypesHold`.

`ObsSession_proofs`: `DataHasConnection` and `CommandsReachObs` for any number of sessions. Both rest on
`OnlyJobRuns`: a session that is not the present one has ended or is cancelled. `SessionSteps` reduces
the eighteen steps of a session to what they may do to client and phase. `LastOneLetsGo` and
`HiddenCancels` are the safety half of `HiddenPanelLetsGo`: behind a hidden panel every session was told
to end, and when the last one has ended, whatever overlapped before, nothing of it is left (`LeftInv`:
what is there belongs to a session that has not come to its `finally`).

`EventSub_proofs`: `LiveHasAll`, for any subscriptions and connections. The invariant
`SubscriptionsKept` says it from the moment the loop no longer counts on a snapshot to come.

`SrtlaBonding_proofs`, for any links (dead ones among them), any number of groups and of restarts of
the server:

- `BondingIsScheduler`: every step of the composition is a step of the scheduler or leaves it alone, so
  each theorem of `SrtlaScheduler_proofs` holds of the composition.
- `OneGroup`: the members that the server holds are all in the group the client has now.
- `AwaitedAnswers`: the link on which a REG2 is on its way is the candidate.
- `AdoptsOwn`: the group the client takes up was created on the candidate's link (or its creator is
  forgotten by now), and nobody is in it yet.
- `ActiveMembers`: until the first restart, a link shown as ACTIVE is a member.

None is inductive. `BondInv` joins eleven parts. `OneCandidate`: a REG1 and the REG2 that answers it are
on the candidate's link, in the time unit in which it was chosen, and never more than one. `JoinsCurrent`
and `MembersCurrent`: nobody asks for or is in a group of the server but the client's own.
`CurrentAlone`, `AsksAfterJoin` and `LateNgp`: while the server knows the client's group it creates no
other, because a REG1 then comes from a link it knows, or after the REG2 with which that link joins.
The argument uses two things the model states: the datagrams of one link keep their order, and a good
link delivers within a time unit.

`LiveChosen` (`SrtlaScheduler_proofs`) needs a best link in any set of links. It is found without
induction in the module: scores are bounded by the windows, and a set of naturals has a least element
(`HasLeast`, from the library's theorems on well-founded relations).

Only model-checked: all liveness (`RegistrationRotates`, `GoodLinksJoin`, `CalmRecovers`,
`ChokedReachesFloor`, `StopEndsSession`, `FlagComesDown`, `LossIsNoticed`, `StopReturns`,
`NetworksAreUsed`, `HiddenPanelLetsGo`, `SubscriptionsServed`), which is out of the provers' reach. Proved
and not part of a run, because the theorem says more than two or three instances would: the type
invariants but for that of `AbrController`, and the safety halves of liveness properties named above
(each was tried on the instance of its run first).

## 5. Not modelled

Most of the repository's C and C++ is vendored: libyuv, libjpeg-turbo, libusb and most of libuvc under
`feature/camera/libuvccamera`. Pixel conversions and codecs are functions of bytes with no protocol to
check, so the part of the implementation's lines that the modules stand for is small. What Bondcast's
own code and the two native classes it drives do is what is modelled. Left out, and why:

- **Bitrate sampler and stream health**: moving averages and thresholds of measured bytes. What the
  sampler feeds to the ABR controller is an input of `AbrController`; that the encoder follows after a
  reconnect within one sample is not covered.
- **Packet parsing** (`SrtInspector`, `SrtlaCodec`): bytes. The scheduler takes parsed packets, a NAK
  one packet at a time.
- **Twitch tokens, chat, settings, cameras**: HTTP and camera APIs whose answers and order of calls are
  not in the repository, a list of messages, a preferences file. Lost updates between the setters of
  the settings, and a logout beside a refresh, are listed under `hazards` without a property.
- **Screens, overlays, QR, thermal monitor, the server panel**: drawing, a system value, a separate
  deployment.
- **Within modelled parts**: the scheduler's bytes and `sendToLocal`; the rates and the local caller of
  the io loop; the camera switch, the setters and `close()` of the session; commands and the
  matching of answers of OBS; `stop()` of EventSub, which has no caller; of the USB preview a change of
  callback or surface while it runs, a surface created in the moment of a stop, running out of memory,
  and a transfer of a freed stream handle (the model takes the branch where it is not found).

What the properties except, because the code does not promise it. Each of these is a failure that can
happen; the property is about everything else, and says nothing against the exception itself:

- OBS: a cancelled session that is still cleaning up may write over the one of a panel shown again
  (`crossed`). A refused password shows `AuthFailed`, and the outer `finally` shows `Disconnected` right
  after it (`ObsController.kt:142` and `163`). A timeout of `connect()` ends the session, and the panel
  that is still shown has none until it is hidden and shown again.
- EventSub: a subscription registered during a graceful reconnect, or whose creation meets the end of
  the old session, is left to a session that recreates nothing (`LostInReconnect`): it is created only
  after that one has broken. A welcome that does not come in time ends the loop until the next `start()`.
- USB preview: a thread that tested the flag and waits after the signal sleeps on (`missed`); a capture
  thread whose handle `stopPreview()` did not see is not joined; a transfer that cannot be cancelled
  after the camera was pulled out is freed all the same (`freed`).
- Bonding client: a relay whose io thread takes longer than the join waits runs beside the next, and a
  list whose epoch it checked before `stop()` may be set after it (`abandoned`).
- Registration: a REG2 of an older attempt that comes after the deadline is taken for the answer of the
  newer one, as both carry the same own half of the id. `SrtlaBonding` leaves lateness beyond the deadline
  out, so `AnswersAreAwaited` is about resets, removals and restarts only.
- Sink: the socket that dies in `open()` between the check and the emit (`raced`, section 6).

## 6. Findings

- **A stale REG_NGP replaces a good group** (`bonding_stale_ngp`, `SrtlaScheduler.kt:113`). After a
  server restart one link's REG2 for the old group is answered late; in between another link created
  the new group. No link counts as heard from until the first REG3, so the late REG_NGP starts another
  registration although the server knows the group. It heals as long as the links deliver, as
  `GoodLinksJoin` shows. No second group comes of it (`MembersInGroup`): the server refuses a REG1 of a
  link that belongs to a group, and the link's REG2 was queued before it. The price is a candidate held
  until its deadline for nothing.
- **The window in `open()`** (`session_stuck_flag`, `SendTimeSrtSink.kt:115-116`). A socket that dies
  after the check and whose callback runs before the emit leaves the flag at true. `startStream` then
  refuses the dead socket, and the model, where the framework opens only a sink that is not open,
  retries without ever opening another socket. `FlagComesDown` shows that this is the only way.
- **Overlap of two sessions** (`session_overlap`, `StreamController.kt:153-156`). The button is safe,
  as `OneAtATime` shows, because it waits for the phase; the autostart of an activity is not.
