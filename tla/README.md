# relume-tv: TLA+ models, checks and proofs

relume-tv sits between a Philips Ambilight TV and a Hue Bridge Pro. To the TV it
looks like an old square Hue bridge (CLIP v1 REST, DTLS entertainment on port
2100); to the Bridge Pro it is an ordinary CLIP v2 client with its own
entertainment area. This directory holds TLA+ models of the concurrent core of
the program, TLC configurations that check them on small instances, and TLAPS
proofs of the main safety properties for every instance.

Paths below are relative to `src/backend/`.

## 1. Inventory

| Part | State | Operations | Talks to |
|---|---|---|---|
| Activation handshake (`internal/clipv1/state.go`, group handlers of `server.go`) | `streamState`: active, streamUp, fallback, fallbackAt, watchdog timer, generation, restNoticed, behind one mutex | PUT/GET of the group, `tryRecoverFallback`, `setActive`, `armWatchdog`, `disarmWatchdog`, `markStreamUp/Down`, `watchdogFired`, `noteRESTDriving` | the TV (HTTP), the receiver (stream callbacks), the runtime timer |
| Light provider (`internal/bridge/provider.go`) | queue of the latest state per light, the drain's done channel, `closed`, light-list cache | `SetLightV1`, `drain`, `forward`, `LightsV1`/`fetch`, `Close` | CLIP handlers, Pro REST client, ControlledSet |
| ControlledSet (`internal/bridge/controlled.go`) | last-seen time per light, the retained set | `Seen`, `Current` | provider, streamer, turn-off |
| Shutdown (`cmd/relume-tv/main.go`) | none of its own | close writes, stop the streamer, turn the driven lights off, with bounds | provider, streamer |
| DTLS receiver (`internal/entertainment/receiver.go`) | current session, per-session done channel, frame queue | accept, replace, read, forward, clean up | the TV (DTLS), `streamState`, streamer |
| Pro streamer (`internal/entertainment/streamer.go`) | cancel/done of the run, `st` (connection, client, configuration id, path), last frame | `Start`, `Stop`, `run`, `establish`, `sendLoop`, `teardown`, `Push`, `ensureConfig` | receiver, main, the Pro (REST and DTLS) |
| Idle-off and activity tracker (`main.go`, `clipv1`) | time of the last activity, `lastSeen`, `fired` | tick, turn off | provider, ControlledSet, handshake (which timeout) |
| Configuration store (`internal/config`) | users, Pro pairing, entertainment id, `persist`, file on disk | `Load`, `AddAPIUser`, `SetPro`, `SaveEntConfigID`, `Commit`, `save` | everybody |
| Pairing of the TV (`handlePairing` in `server.go`) | none of its own | POST /api | the TV, configuration store, wizard |
| Setup wizard (`setup.go`) | step, reachability latches, descriptor latch | `recompute` on every signal, the one commit | pairing, Pro watcher, configuration store |
| Pro pairing and reconnection (`autoPairPro` in `main.go`, `pro.go`, `internal/bridgepro`) | candidate pairing, time of the last discovery | discover, pin, link button, health check, reconnect | the Pro, configuration store, light provider, wizard |
| Pure algorithms (`internal/huestream`, `convert.go`, `internal/translate`, filters of `streamer.go`) | none | decode, encode, convert, smooth | provider, streamer |
| SSDP, mDNS, UPnP, dashboard, diagnostics | sockets, view state | announce, render | network, browser |

How the parts interact. A TV that wants Ambilight PUTs `stream.active` on its
group; the handshake confirms it and starts a 5 s watchdog. The TV then opens a
DTLS session at the receiver, whose handler brackets it with `OnStreamStart`
(`markStreamUp`, `ProStreamer.Start`) and `OnStreamStop` (`markStreamDown`,
`Stop`). Frames go through the session's queue and the streamer's
`Push` either to the Pro's DTLS connection or, while there is none, to the light
provider. If no DTLS session comes, the watchdog latches the REST fallback and
the TV drives the lights one PUT at a time through the provider.

What is hard here:

* handlers that take a mutex several times, with timers, stream callbacks and
  other requests in between (`server.go:1146-1192`);
* timer callbacks that `Stop` can no longer reach and that wait for the mutex;
* a drain goroutine that exits when its queue is empty and is restarted by the
  next write; a fence that must outlast a write that stalls in a fetch;
* DTLS sessions that replace one another, each waiting for its predecessor;
* a run goroutine that owns a remote resource (the Pro's area) and is cancelled
  anywhere between two REST calls, each of which may fail or lose its answer;
* two concurrent `Stop` calls at shutdown;
* areas left active by a killed process; pairings that move;
* a configuration saved by several goroutines, with a file that must not exist
  before the setup is complete, and crashes and failing saves in between;
* a wizard fed by signals that may come early, late or twice;
* bridges that lose power or take over each other's addresses between two
  steps of a reconnect;
* replacing the Pro's entertainment configuration by five calls, each of which
  may fail or lose its answer, while ids are cached, persisted and renumbered;
* two independent clocks (idle timeout and ControlledSet window) and writes that
  land around the turn-off.

What makes each part correct:

* handshake: a connected stream is never overruled by the watchdog; only the
  current activation's watchdog latches; a latched fallback is not confirmed; an
  armed activation is always resolved;
* provider: one drain, no reordering per light, no lost write, a fence after
  which nothing new is written, driven lights off at the end;
* receiver: disjoint brackets in connection order, frames inside their bracket,
  no session that waits for ever;
* streamer: one run, no leaked connection or area, path and connection agree,
  `Stop` returns, the stream is established in the end;
* idle-off: a silent TV leaves no lamp on, and the monitor still knows the lamps
  when it fires;
* configuration and pairing: the store is an atomic durable value, a file means a
  complete setup, an acknowledged user survives a restart;
* wizard: completes once its conditions hold, in whatever order they came true;
* Pro link: the bridge pinned in the stored pairing and in the provider's is the
  one that issued the key; a reconnection moves the address only; a Pro that
  stays put is found again;
* entertainment configuration: one of relume-tv's own, none of anybody else's
  touched, of exactly the lamps wanted in the end;
* frames: a steady colour arrives exactly, at its own lamp, and a spike that a
  majority of the window outvotes does not.

`PROJECT.json` lists every part with its status and every hazard with its line.

## 2. Modules and how they correspond to the code

Every model follows the same conventions. A goroutine or request in flight is a
process with a program counter; what runs inside one lock section, or between
two points where another goroutine can observe it, is one action. Mutex-protected
methods are single actions. Data (colours, frames, names) is abstracted to what
the properties distinguish. Definitions introduced by a comment "Mutant" are
deliberately wrong variants of the definition that follows: they are used by no
specification, and replacing the original by one must break the property that
`PROJECT.json` pairs it with.

| Module | Contents |
|---|---|
| `StreamState` | handshake and fallback, history variables, inductive invariant `StreamInv` |
| `StreamStateProofs` | its theorems, and the one about requests that do not overlap |
| `LightProvider` | zone gate, queue, drain, forward, ControlledSet, shutdown fence and turn-off, inductive invariant `ProviderInv` |
| `LightProviderProofs` | its theorems |
| `Receiver` | session replacement, reader, forwarder, queue, inductive invariant `ReceiverInv` |
| `ReceiverProofs` | its theorems |
| `ProStreamer` | Start/Stop, run goroutine, establish, send loop, teardown, the Pro's area |
| `ProStreamerProofs` | the theorems about both halves of `streamer.go`: the goroutines of `ProStreamer` (inductive invariant `StreamerInv`) and the colours of `Frames` (`FramesInv`) |
| `EntConfig` | `ensureConfig`, one action per call to the Pro, over changing lamps, zones and configurations |
| `EntConfigProofs` | inductive invariant `ConfigInv` and its theorems |
| `Frames` | a colour's way: codec, channel map, median filter, easing, REST conversion |
| `IdleOff` | the idle-off monitor with a discrete clock, activity tracker, ControlledSet with its window |
| `IdleOffProofs` | inductive invariant `IdleInv`, the conditions on the configuration, the theorems |
| `ConfigStore` | the configuration in memory and on disk: changes, save, crash, load |
| `Setup` | composes `ConfigStore` with POST /api, the wizard, the Pro link and the streamer's saves |
| `DurableStore` | abstract specification: an atomic durable value; `Setup` implements it |
| `SetupProofs` | inductive invariant `SetupInv`, its theorems, the refinement |
| `ProLink` | pairing with the Pro and following it across power cycles and address changes |
| `ProLinkProofs` | inductive invariant `LinkInv` and its theorems |
| `MCStreamState`, `MCLightProvider`, `MCReceiver`, `MCProStreamer` | instances for TLC: history variables, symmetry breaking, a scope constraint |

How they fit together. `Receiver` shows that start/stop brackets do not overlap,
which is how `ProStreamer` and `StreamState` see the stream callbacks.
`ProStreamer` takes `ensureConfig` as one step, `EntConfig` takes the streamer's
life cycle as a few; `Frames` takes a stream as up or down with any channel
assignment `EntConfig` may produce. `IdleOff` abstracts the drain of
`LightProvider` to a set of pending lamps, and adds the clock that
`LightProvider` leaves out. `Setup` sees of the Pro link only that a pairing is
stored and that ticks report reachability; `ProLink` shows that a Pro that
stays up is in fact reported. `Setup` EXTENDS `ConfigStore` and INSTANCEs
`DurableStore` with the refinement mapping running/volatile/durable =
`up`/`mem`/`disk`.

**StreamState.** The variables `active`, `streamUp`, `fallback`, `gen`,
`watchdog`, `restNoticed` are the fields of `streamState`; the timestamp
`fallbackAt` is the flag `cooled` ("the recovery cooldown has elapsed"). A timer
is in `pending` while it runs and in `firing` once its callback has been started
and waits for the mutex. `handleGroupUpdate` is the four steps `BeginUpdate`,
`TryRecover`, `CheckConfirms`, `SetActive`, followed by `ArmWatchdog` or
`DisarmWatchdog`; a group GET is `BeginGet`, `GetConfirms`, `Snapshot`. The
owner string is left out. `gen` is `uint64` in the code; 2^64 arms are out of
reach, so it is a natural number. History: `watching` (an armed watchdog nothing
ended yet), `unanswered`, `latched`.

**LightProvider.** A light state is the number of the write that carried it.
`SetLightV1` and `Close` are single lock sections. `drain` is `TakeBatch` /
`DrainExit` under the lock and, per light, `Forward`, `FetchLights` (the
blocking first fetch), `StartWrite` (the second look at `closed`), `WriteLands`
or `WriteFails`, `MarkControlled`. A write to the Pro is applied, refused, or
applied with its answer lost. `noops` are the states `StateV1ToV2` translates to
nothing. The ControlledSet's window is abstracted: a light may age out at any
time (`AgesOut`), and then counts as `missed`. The shutdown is
`CloseLightWrites`, a fence that holds (`FenceHeld`) or times out
(`FenceTimeout`), the targets read once, one turn-off write per light. The
history variable `underway` remembers which light was being written when the
writes were closed: behind a fence that timed out it is the only one that may
still come on.

**Receiver.** A session's handler is `Accept` (up to the finished handshake),
`Swap` (become current), `CloseOld`, `WaitOld`, `Recheck`, `OnStreamStart`, the
run, `RunCancelled` or `RunEnded` and `JoinForwarder`, `OnStreamStop`, `Cleanup`,
`CloseDone`, `CloseConn`. The deferred calls run in the code's order. Reader and
forwarder are processes of their own around a bounded queue from which the
newest frame is dropped when full. `ticket` numbers the swaps. The receiver's
statistics only feed logs and the dashboard and are left out.

**ProStreamer.** `Stop` has two callers, the receiver (bracketed, as `Receiver`
shows) and main at shutdown. `establish` is one action per call to the Pro. The
Pro is external: `area[t]`, and REST calls that are done, refused, or done with
the answer lost. `ensureConfig` is modelled by its outcomes (`EntConfig` has its
steps): it fails with a call, and without one as long as the Pro has no lamp of
the TV's zone or maps no channel to one (`usable`, changed by `LampsChange`).
`leaked` is history: areas that are active because a call failed or an earlier
process left them.

**EntConfig.** Lamps and configuration ids are numbers in the order in which the
code sorts UUIDs; `V1ID` renumbers the colour lamps as `translate.LightsV1`
does. The calls are `ReadLights`, `ReuseCached`/`DropCached` (fast path),
`ListConfigs`, `ValidateCandidate`, `StopStale`, `DeleteStale`, `CreateConfig`,
`ReadBack` and `StartStream`. A call may fail; a create may succeed with its
answer lost. The environment adds and removes lamps, edits configurations in the
Hue app, declares zones and restarts the process, which loses the cached id and
the zone, and the persisted id if the setup was never committed. `kept` counts
failed deletions, which the code only logs.

**Frames.** Record bodies are sequences of bytes and components are 16-bit
numbers, as in the code; the header is its version. `Establish` starts a stream
with any assignment of the Pro's channels. `Receive` is a datagram of the TV:
the history `raws` records the colours as the TV sent them, then the datagram is
decoded and handed to `PushDTLS` or `PushREST`, the two halves of `Push`, so that
the properties compare what a lamp shows with what was sent, codec included.
`SendTick` builds, eases, encodes and (at the Pro) decodes a frame. The weight `alpha` is a fraction instead of a float. `Settle`, the number
of ticks after which a property may look at the lamps, is a constant tied to the
easing: `FadeLeft` iterates what a tick leaves of the longest fade of the
picture, and `SettleAssumption` says that `Settle` ticks leave nothing.

**IdleOff.** Time is counted in ticks of the monitor (2 s) and the state holds
ages instead of time stamps. `TimePasses` is the ticker; a monitor busy turning
lamps off may miss `MaxSlow` ticks. `SeesActivity`, `KeepsWaiting` and `Fires`
are the three outcomes of a tick. A Pro is paired throughout (without one the
monitor turns nothing off). The history variable `lit` says what lit each lamp;
`"excused"` marks the lamps the code gives up by design: a write that landed
after the monitor fired or was never recorded as activity, a failed turn-off, a
lamp outside the zone, a lamp not driven for a whole window while others were
(`LeftLiveWindow`), and one whose whole window emptied before anybody read it
although the TV was active within that window, because its later writes failed,
still wait, or it went over to streaming (`LostUnread`). A lamp that leaves the
set because the TV fell silent is not excused: forgetting it violates
`SilentMeansOff`.

**ConfigStore, Setup, DurableStore.** A save holds `c.mu` over three steps: the
change, the temporary file, the rename; any of them may fail, and the process
may die between them. `handlePairing` is `PairRequest` (lookup), `Mint`
(`AddAPIUser` in a second lock section), `Answer` (the reply and `OnPair`).
`recompute` is one action per signal; its `Commit` starts inside that action and
ends as any other save. `acked` holds the usernames the TV was given and still
relies on; `unsaved` those that only a failed save knows.

**ProLink.** One goroutine pairs (`SelectPro`, `PinProShell`, `LinkButton`) and
then watches (`CheckOK`, `CheckFails`, `ResolveProHost`, `FetchFingerprint`,
`Recheck`, `SetPro`, `ApplyProvider`, and a failure of each). `Move` changes the
network between any two of them. A pairing records which bridge its certificate
and its key come from, so that mixing them is visible.

## 3. Runs

| Run | Instance | What it shows |
|---|---|---|
| `stream` | 2 concurrent requests, 5 inputs | safety of the handshake at every interleaving of lock sections, timers and stream callbacks; an armed watchdog always ends; for requests that do not overlap, an answered deactivation leaves no watchdog and an armed activation is resolved |
| `stream_confirmed` | 1 request at a time, 4 inputs | *violation*, see 5 |
| `provider` | 2 lights, both offered by the Pro, 2 drain identities, 2 writes | one drain, writes never reordered or forgotten, fence final, driven lights end off |
| `receiver` | 3 sessions, queue of 1 | brackets never overlap, frames stay inside theirs, only the newest session starts; a replacement proceeds unless it is replaced itself |
| `streamer` | 2 runs, 2 pairings, 1 fault, 1 change of the pairing or of the lamps | one run, no area or connection left behind; `Stop` returns; the stream is established |
| `streamer_exit` | 2 runs, no faults | *violation*, see 5 |
| `setup` | 2 concurrent POST /api, 2 names, 2 Pro addresses, 2 crashes, 1 failing save | a file means a complete setup, acknowledged users survive, the store refines `DurableStore`, the wizard completes |
| `prolink` | 2 Pros and another bridge, 3 addresses, 2 faults, any number of moves | stored keys and certificates fit, a reconnection changes the address only, a Pro that stays put is found again |
| `entconfig` | 3 lamps (one without an entertainment service), 3 zones, 5 ids, a foreign configuration, 2 faults, 3 events | no duplicates, nothing foreign touched, streams converge on the wanted lamps, attempts end |
| `idleoff` | 2 lamps, timeouts of 2 (REST) and 1 (entertainment), window of 1 raised to 3, 1 fault, 1 change of zone or path, 1 slow tick | the lamps last driven are among the targets when the monitor fires; a silent TV leaves no lamp lit by a write |
| `idleoff_stream` | as `idleoff`, without changes | *violation*, see 5 |
| `frames` | lamps 1 and 258, channels 0 and 255, levels 0 and 700, window 2 (raised to 3), threshold 300, weight 2/5, 4 frames, 2 streams, 1 zone change, datagrams with a byte missing | a steady colour arrives exactly, at its own lamp only, a spike outvoted by a majority of the window does not |

Bounds. Two requests are what it takes for one to act between two lock sections
of another; five inputs allow activate, time out, recover, activate again and
stream up with a deactivation anywhere. Two writes let one be in flight while
another is queued behind it or replaces it; a third drain identity adds nothing,
as `OneDrain` shows. Three sessions are the least with a middle one that is
replaced while it waits; the scope constraint names sessions in the order in
which they connect and swap (every behaviour is one of these up to renaming) and
lets the context end with at most two of them connected. No safety property
depends on these bounds: all are proved, those of `IdleOff` under two conditions
on the configuration (section 4).
Two runs are needed for a stream that follows a stopped
one; one of the two pairings may lack lamps or have its area left over, so that
a change of pairing leads both to and away from it. Two crashes allow a crash of
the process that recovers from one; two names let two requests mint one each. Three addresses let a Pro move to a free one and
another bridge take over its old one. Two faults allow a lost answer and a
failure in the attempt after it; three events a lamp, a zone and a restart. Four
frames fill the window and slide it once; the lamp id 258 needs both bytes of a
v1 id, 0 and 255 are the limits of a v2 id; the levels are far enough apart for
the median's threshold and for more than one easing step, and `Settle` is three,
the ticks of the longest fade between them.

Counters with a bound in a guard: `MaxInputs` (group updates and stream-ups),
`MaxWrites`, `MaxFaults`, `MaxMoves`, `MaxCrashes`, `MaxFails`, `MaxEvents`,
`MaxChanges`, `MaxSlow`, `MaxFrames`, `MaxSessions`, `MaxZones`; the sets
`Handlers`, `Drains`, `Sessions`, `Runs`, `Names`, `IDs` bound what they name.

Symmetry sets are not used, since most runs check liveness. Instead
`MCLightProvider` and `MCProStreamer` fix which of two interchangeable
identities is taken first.

Fairness. Weak fairness of goroutine steps (the Go scheduler runs every
runnable goroutine), of running timers (they elapse), and of calls to the Pro
(the HTTP client has a timeout, so each returns). In `Receiver` a read from a
closed connection returns; in `LightProvider` the fence's timeout fires. In
`Setup` saves end, handlers answer and the watcher ticks; `Tick(TRUE)` is fair
because `ProLink` shows that a Pro that stays up is reported. In `EntConfig` a
started run keeps trying, in `IdleOff` time passes and the drain forwards.
Nothing is assumed of the environment: no request, signal, frame or stream has
to come, the peer need not close, and a bounded number of faults is the only
promise about the Pro. `Converges` and `WizardFinishes` state what they need of
the TV and the Pro as a premise. Deadlock checking is on in every run but
`frames`, whose environment may run out of frames and streams. `Receiver` and
`ProStreamer` stutter explicitly once every session or the process has ended; in
the other modules some action is enabled in every reachable state.

## 4. Proofs

The `*Proofs` modules are checked by TLAPS for every value of the constants: any
number of concurrent requests and inputs, any lights, drains and writes, any
number of sessions and any queue size, any runs, pairings, bridges, addresses,
names, ids, crashes and faults, any pictures, window, threshold and easing
weight. They assume only what the modules' named
`ASSUME`s say about the constants, which TLC evaluates in every run; the
theorems with further hypotheses, `FiresInTime`, `NoLampForgotten` and
`FadesArrive`, name them. Every inductive invariant was checked by TLC on the
instance of its run as well.

*Handshake.* `StreamUpWins` is not inductive: the step to rule out is
`watchdogFired` with the current generation while a stream is up. `StreamInv`
adds that no timer or callback is ahead of `gen` (`GensHandedOut`), that only
the timer the pointer refers to runs and that it has the current generation
(`OnlyCurrentTimerRuns`), that a watchdog is awaited exactly while a timer or
callback carries the current generation (`WatchingHasWatchdog`), and that while
it is awaited there is neither a stream nor a fallback
(`WatchingAwaitsStream`). From it follow `StreamUpWins`,
`FallbackHasNoWatchdog`, `NoConfirmWhileLatched`, `NoticeMatchesEpisode` and the
action property `LatchIsCurrent`. `FallbackHasNoWatchdog` is the fact that lets
`tryRecoverFallback` clear the flag without bumping the generation.
`DeactivationCancels` is about the history variables of `MCStreamState` and is
proved of its specification. `OneAtATime` says that without overlap the request
being served is the last one to have arrived, and that a watchdog still running
after a deactivation arrived has that deactivation ahead of its disarm step: a
running watchdog excludes the fallback (`WatchingAwaitsStream`), so the
confirmation test cannot send the request past it.

*Receiver.* `OneBracket` rests on the chain of waits. `ReceiverInv` says that
tickets number the swaps, that a done channel is closed only after
`OnStreamStop`, that `cur` is the newest session until it gives itself up (and
that without a current session all have ended), that a waiting session waits for
its immediate predecessor, and that a session past its wait has only ended
sessions before it. The last conjunct is what `OneBracket` follows from; it is
preserved when a wait ends because the predecessor, itself past its wait, had
only ended sessions before it. `NewestWins`, an action property, follows from
`cur` being the newest.

*Provider.* `OneDrain` is inductive with the types. `NoStaleOverwrite` needs
`WritesOrdered`: for each light the state shown, the one on its way to the Pro,
the one in the drain's batch and the one queued are in the order in which the TV
sent them; the step that would break it, a second drain that still holds an older
state, is excluded by `OneDrain` and by idle drains holding nothing.
`FenceIsFinal` needs that after `Close` the drain it remembered is the only one
there can be (`FenceState`). `DrivenLightsEndOff` follows from `DrivenAccounted`:
a light that is on is in the ControlledSet, about to be marked, or one of the
named exceptions; from `Close` on, the second look at `closed` keeps every light
but the ones in `underway` from being written or marked, so that nothing else
comes on while the turn-off works through its targets.

*Store, pairing and wizard.* `FileIsComplete` says that what a `Commit` renames
into place is complete, although other goroutines save too and any step may
fail. `SetupInv` adds that a temporary file is what memory holds as long as
`c.mu` is held (`TempIsMem`), that only a committed configuration is saved and a
process that has a file writes through (`SavesCommitted`), that a committed
configuration is complete (`CommittedComplete`), which rests on the wizard's
step implying the signals of the steps before it (`WizardInv`), and what each
handler between its lock sections relies on (`HandlerInv`). `AckedAuthorised`
needs in addition that with no save under way memory authorises nobody beyond
the file and `unsaved` (`NamesSaved`), and that after a crash the file holds
every acknowledged name. Every action of `Setup` is shown to be one of a few
steps of the store (lemma `NextStoreStep`), so that each part of the invariant
has those cases instead of all actions. The same lemma gives the refinement:
a rename is the abstract `Sync`, changes in memory are abstract changes, the
rest of a save is a stutter (`StoreImplementsDurable`). The `CHOOSE` in
`recompute` is resolved by `FirstGap` and `ReachedStep`.

*Pro link.* `CredentialsFit` is not inductive: the candidate of a tick mixes the
stored key with the certificate of whoever answers at the new address.
`LinkInv` says by program counter which parts of the candidate can be trusted;
only the second health check makes key and certificate one bridge's again.
`OnlyAddressMoves`, an action property, needs that a tick's candidate still
carries the stored identity and key when `SetPro` is reached; that the
certificate is the stored one too follows from key and certificate fitting in
both.

*Streamer.* `StreamerInv` has a part that always holds (places, what a teardown
has in its hands) and a part that holds until the process shuts down, since
main's `Stop` runs beside the receiver's (section 5). `Serial`: a live run is
the one the receiver started or the one it waits for, and only the latter is
cancelled; `OneRun` follows. `ConnHolder`: the run whose connection `s.st` holds
is sending, tearing down, or was cancelled and leaves it to the `Stop` that
waits for it. From the two follows that a run that has just dialled finds `s.st`
empty (`StoreFindsNothing`), the step at which a connection or an area could be
forgotten. `AreaOwned`: an active area that no failed call left so is that of
`s.st`, of a teardown, or of a run between its start and its dial; when the
receiver's `Stop` has returned there is none of these, which is `AreaReleased`.
What survives the shutdown is `Accounted`: although two runs may then be alive
and the second may overwrite what the first left in `s.st`, each is held by the
streamer or waited for by a `Stop`, and a cancelled one always by a `Stop`
(`NoRunAbandoned`). What goes wrong at exit is therefore only that main does not
wait for the receiver's `Stop` (section 5), never that a run is lost.

*Frames.* The three properties need one invariant, `FramesInv`: every lamp of a
stream has a channel of its own (`Routes`); the TV sent a lamp only its own
picture, and without a stream the lamp shows the last one (`Received`); a
channel's ring holds the last pictures of its lamp since the stream was
established, and its target is what the filter makes of them (`Aimed`); what was
sent last lies between these pictures, is what the lamp shows, and is no farther
from the target than `FadeLeft[quiet]` (`Faded`). The step lemmas rest on four
groups of facts about the operators:

* codec: `Ascending` numbers a finite set by rank, `Concat` puts byte `j` of
  record `i` at its place, and division by 7, 9 and 256 recovers both. So `Parse`
  loses nothing of the TV's datagram (`DatagramDecoded`) and undoes `Encode` for
  every frame of the send loop (`SentFrame`);
* median: a sample with at most half of the others below it and more than half up
  to it exists (`MedianInTheMiddle`), and any majority of an odd window has a
  sample on either side of it (`MajorityAroundMedian`), whence
  `SpikesAlwaysDropped` for every window and threshold. It is where the rounding
  of an even window in `SetMedianFilter` is needed;
* easing: a tick moves a component towards its target and never past it
  (`Smoothed`), and what it leaves grows with the distance (`CloserGrows`), so
  that the longest fade bounds all others, whatever the lamp showed before;
* `FadeLeft`, a recursive function, has a solution (`FadeLeftUnfolds`).

Induction over numbers is written as a least counterexample, through the
well-foundedness of the naturals. `SettleAssumption` can always be met when the
weight is at least 1/514 (`FadesArrive`): a component farther than
`snapColorDelta` from its target then moves by at least one. With a smoothing
time constant of more than about ten seconds (the default is 40 ms) the weight is
smaller, and the rounding stalls a fade 257 or more short of its target, against
the comment at `streamer.go:40-43`; the flag has no upper limit.

*Entertainment configuration.* `ForeignUntouched` needs that every id relume-tv
remembers, works on or streams to is its own (`OwnIDs`). `NoDuplicate` needs
`CreateOnlyOne`: a run about to create has no configuration left but those it
failed to delete, and so has one whose candidate the user deletes under its
hands. The cardinalities come from the library's theorems on finite sets.

*Idle-off.* `LastDrivenTargeted` compares two clocks: the monitor's activity
stamp and the age of a lamp in the ControlledSet. `IdleInv` bounds the age of
the activity an armed monitor has yet to act on, by the longest timeout or by
the ticks a turn-off may swallow. The theorem `FiresInTime` has two hypotheses
on the configuration, both necessary (TLC finds a counterexample without
either): `EveryPathTimed`, idle-off is not disabled on one of two control paths,
and `TurnOffFitsWindow`, one turn-off with its two ticks of slack is shorter
than the window. The run's instance satisfies both; see section 5 for what they
mean for the code. `NoLampForgotten` needs both as well, and TLC finds a
counterexample without either: a lamp lit by a write is a target, or the monitor
is armed or will re-arm at its next look (`LitIsWatched`), and when it fires the
activity is young enough for `Current` to know the lamp (`FiresYoung`). It is
the safety half of `SilentMeansOff`; that the monitor's next look comes and that
it fires is the half left to TLC.

Only model-checked is every liveness property (`WatchdogEnds`, `ArmedActivationResolves`,
`WritesSettle`, `ReplacementProceeds`, `StopReturns`, `StreamEstablished`,
`WizardFinishes`, `FollowsPro`, `Converges`, `Resolves`, `SilentMeansOff`):
fairness is outside the prover's reach.

## 5. Where the code and its documentation disagree

* `stream_confirmed`. `docs/DESIGN.md:105-107` says that a confirmed activation
  waits 5 s for the TV's stream and otherwise reverts to REST. `armWatchdog`
  returns early while `streamUp` still holds (`state.go:317`), and
  `markStreamDown` arms nothing. An activation confirmed while the previous
  stream has not been noticed as closed is therefore not watched; if the TV
  opens no new stream, the group reports an active stream for ever.
* `streamer_exit`. `main.go:502-504` and `660-662` say the shutdown's `Stop`
  releases the Pro's area synchronously, so that it never leaks past exit. When
  the receiver's `OnStreamStop` calls `Stop` first, main's `Stop` finds neither
  cancel nor done and returns at once, and the process may exit before the run
  goroutine was cancelled and `StopStream` was sent.
* `idleoff_stream`. `src/README.md:90-91` says of the idle-off timeouts that the
  lights are turned off when the TV stops driving them, on the DTLS stream path
  too. The targets come from the ControlledSet, which only hears of REST writes
  (`main.go:752`); while the streamer holds a DTLS connection `Push` never
  reaches the provider. The monitor fires and turns off nothing, or only what an
  earlier REST phase left in the set. The shutdown turn-off reads the same set.

Met while modelling, and excepted by name in the properties or outside them:

* Before a reconnection is accepted, `healthCheck(updated)` (`pro.go:314`) sends
  the stored app key to whichever bridge's certificate was just fetched. If the
  address passed to another bridge since the discovery, that bridge sees the key
  before the check fails (`RecheckFails` with `~Accepted`). `CredentialsFit` is
  about what is stored and what the provider uses, where it cannot happen.
* The comment on `SetMedianFilter` (`streamer.go:305-308`) says that odd windows
  cannot replace a normal frame by the spike before it. While the ring is still
  being filled it holds two samples, so the second frame of a stream can be
  replaced by a spike that came first. `SpikesDropped` starts with a full window.
* A failed deletion of a stale configuration is only logged
  (`streamer.go:866-868`), and the list then holds two configurations of
  relume-tv's name. `NoDuplicate` counts them in `kept`.
* When `SetPro` fails to write the file (`pro.go:319`), memory holds the new
  pairing and the provider the old one; the next health check succeeds, so the
  provider is never replaced. `FollowsPro` excepts it by `dropped`.
* A user whose save failed stays in memory and is handed out at the next poll
  (`server.go:614`), although no file holds it. `AckedAuthorised` excepts it by
  `unsaved`.
* The pin loop of `autoPairPro` (`main.go:880`) never discovers again: a Pro that
  moves before it is paired is waited for at its old address.
* `idleTimeoutFor` may return 0 on one control path only. The monitor then waits
  on that path without bound, and when the path changes it fires at once with an
  activity far older than the window (`main.go:789`), for which `Current` knows
  the lamps only if somebody read the set in time.
* A turn-off calls the Pro once per lamp, each call bounded by the client's 10 s
  (`flash.go`, `client.go:147`), and the monitor looks at no tick meanwhile.
  With the default window of a minute, six lamps that do not answer are enough
  for a TV that resumed and went silent during the turn-off to age out of the
  window before the monitor can fire again. `FiresInTime` excludes both cases by
  its hypotheses.
* `controlled.go:11-16` says that a light leaves the set only for a newer
  non-empty window, and that the last non-empty set is retained when the whole
  window ages out. `Current` is what remembers a set (`controlled.go:65-68`),
  `Seen` is not: lamps that age out before anybody called `Current` are gone. The
  monitor reads the set in time under the hypotheses of `FiresInTime`; with
  idle-off disabled that is left to the activity summary, which reads every 30 s
  (10 s in entertainment mode) and only if REST requests came (`server.go:489`).
  A shorter window, or a TV whose frames arrive over DTLS and are forwarded over
  REST, leaves the shutdown turn-off with nothing to turn off. The two cases
  above are the ways in which it hits an enabled monitor; there `SilentMeansOff`
  and `NoLampForgotten` count the lamp as forgotten.
* `PUT /groups/{id}/action` records no activity (`server.go:1074`), so lamps lit
  that way alone do not arm the idle-off monitor.

## 6. What is not modelled, and why

* The clock outside `IdleOff`: the watchdog, cooldown and timeouts are events
  that may happen at any time after they become possible, and in `LightProvider`
  the ControlledSet's window is nondeterministic ageing.
* A write whose HTTP client gave up and that the Pro applies later still: a
  "lost" write is applied before the call returns.
* The light-list cache beyond "loaded or not"; a write still in flight in a
  provider that a reconnect has replaced (the code does not track it either).
* The RGB colour space and the floating-point gamut mathematics of
  `rgbToXYBri`: real-valued functions, outside TLC's and the prover's reach.
* `-skip-tls-verify`, pairings stored without a discovery id, and configuration
  files that cannot be parsed or are of a newer schema (the process refuses to
  start).
* SSDP, mDNS and UPnP announcements, the dashboard, the live-colour view beyond
  "the TV drives now", statistics and diagnostics: stateless text over sockets,
  or read-only views. The remaining CLIP v1 answers format configuration data.

## 7. Plan

Done: every module is model-checked, and the safety properties of the handshake,
the provider, the receiver, the streamer with its codec and filters, the
entertainment configuration, the store with pairing and wizard (with its
refinement), the Pro link and idle-off are proved. Open, in this order:

1. `Frames`: the ring while it is being filled, and what the filter guarantees
   for it.
2. `ProStreamer` during shutdown: what `ConnsOwned` and `AreaReleased` still
   guarantee for the run that was started last.
