# A verification of wotoha's playback

wotoha is a Discord music bot written in Rust. This directory holds TLA+ models of
the parts of it that are hard to test, the TLC configurations that check them on
small instances, and proofs of the properties that hold for every size. Paths
below are relative to `src/crates/`; `playback.rs` is
`wotoha-voice/src/playback.rs`, `songbird.rs`, `discord.rs` and `reconnect.rs` are in
`wotoha-runtime/src/`, `resolver.rs` is `wotoha-media/src/resolver.rs`.

## 1. Inventory

| Component | State it keeps | Operations | Hard behaviour | Modelled |
|---|---|---|---|---|
| **Logical queue**, `wotoha-core/src/session.rs` (`GuildPlayerState`) | current track, queue, loop, shuffle, `shuffle_next_index` | enqueue, toggles, take next, peek, preview, drop or replace the current track | the pre-drawn shuffle index must survive every edit of the queue: the panel, the prefetch and the transition all rely on it | yes |
| **Playback coordinator, enqueue side**, `playback.rs` | map of guild sessions; per session an async operation mutex and, under a second lock, the logical queue, `pending_enqueues`, `cancelled_enqueues`, `next_commit_seq`, `active_handle`, `current_playback_id` | `enqueue`, `skip`, toggles, `advance`, `disconnect_guild` | media resolution takes seconds and finishes in any order; the caller's future may be dropped at any await; the session is replaced without its operation lock | yes |
| **Playback coordinator, AutoMix side**, `playback.rs` | `prepared_transition`, `retiring_handle`, `transition_generation`, `due_transition_origin`, `fallback_replacement_generation`, `automix_rearm_generation`, `fade_abort` | prefetch, install, transition, started / failed armed start, degrade, advance, rearm, fade | one event worker, any number of rearm tasks and user commands share a record they re-validate by generation after every await | partly: what the planner and the analyses decide is a choice |
| **Runtime event router**, `wotoha-contracts/src/lib.rs:167-403`, `playback.rs:497-599`, `playback_events.rs` | an ingress channel of 1024 and a list of 128 critical events beside it; per guild a channel of 64, a list of 64 and a worker; global permits | send, route, coalesce, handle, retire | a channel found full may be empty, and its consumer asleep, when the list is written; workers that retire or die; a permit held through a sleep | yes |
| **Songbird runtime: decks**, `songbird.rs` | per deck a mode, queued commands, a `TrackLifecycle`, an armed start | register, prepare, resume, stop, arm, observe a frame, report | mixer, event task and callers run beside one another, the event task some frames late | partly: no volumes, seeks or audio inputs |
| **Voice presence index**, `playback.rs:301-306, 3529-3638` | the bot's channel, the channel of each peer, the number of peers in each channel | bootstrap, peer update, bot update, clear | decides when the bot is alone and who may control it; counts kept by increments | yes |
| **Discord gateway**, `discord.rs`, with the call of `songbird.rs` | `active_voice_channels`; the call; the player panels | `/play` with join, bootstrap, enqueue and its failure; voice state handlers; reset; buttons | several records of where the bot is, each written by other tasks; handlers run out of order | partly: no panels, buttons, nicknames |
| **Reconnect state**, `reconnect.rs`, `wotoha-app/src/main.rs` | a file | save at a signal, take at `ready` | a crash or a failed save between two lives of the process | partly: one guild's entry |
| **Media resolver**, `resolver.rs` | two caches, two maps of in-flight gates, probe permits | `resolve`, `resolve_fresh`, `prepare_playback`, `prepare_playback_fresh` | concurrent callers of one track, callers that go away, sources that expire or fail | yes |
| **Control service**, `wotoha-control/src/service.rs` | – | same-room check, forwarding | the check is not atomic with what follows | partly |
| **Application**, `wotoha-app/src/main.rs` | pending reservations per guild | admission, wiring, shutdown | order of the shutdown | partly |
| **AutoMix analysis cache**, **providers**, **planner and audio analysis**, **HTTP/HLS/decoding/DSP**, **deployment scripts**, **vendored serenity** | – | – | file cache, network I/O, floating-point signal processing, shell, third party | no, see section 6 |

How they interact. A slash command reaches `discord.rs`, which joins the voice
channel through the runtime, bootstraps the voice index and then calls the coordinator
through the control service. The coordinator asks the media resolver for a track and a
source and the songbird runtime for a deck; a deck reports `TrackEnded`, `TrackErrored`,
`TransitionPrefetchDue`, `TransitionDue` and the outcome of an armed start as
runtime events. The router hands those to one worker task per guild, which runs
`handle_runtime_event`. User commands, the worker, rearm tasks and the fade tasks of
one guild meet in `GuildSession`: most of them hold its operation mutex while they
change anything, `disconnect_guild` and the destructor of a dropped `/play` call do
not. Voice state updates feed the index of the session; when it finds the bot alone, the
gateway resets the guild. At a signal the application collects what plays where, saves it,
and the next process resumes it.

What makes each part correct, in one sentence each: the queue never plays a track
other than the one it announced and never loses or repeats one; `/play` calls are
committed in the order in which they were reserved, every caller is answered and a
failed track is not played; a guild with tracks is never silent for good; no deck
plays that nobody will stop; a transition only promotes the deck prepared for what
is next in the queue; an end report only advances the deck that is current; a deck is
reported over once and an armed start answered once; the
router neither loses a critical event nor leaves a worker behind; the bot knows where its
peers and itself are, and leaves when and only when it is alone; an ended connection does
not come back after a restart; one call at a time fetches a track, and a source that failed
is not served again.

`PROJECT.json` lists the hazards one by one, at their lines.

## 2. Modules

| Module | What it is |
|---|---|
| `GuildPlayerState` | the logical queue as operators on a record; a method that draws a random index returns the set of records it may leave |
| `GuildPlayer` | the state machine of one queue: every method that changes it is an action |
| `OrderedCommit` | abstract specification: tickets in a line, decided in ticket order |
| `EnqueuePipeline` | the enqueue side of the coordinator with the event worker, skip, toggles and `disconnect_guild`, AutoMix off |
| `EventDelivery` | the way of a runtime event from a driver callback to its handler |
| `AutoMixHandoff` | the AutoMix side of the coordinator over the runtime's decks |
| `DeckContract` | abstract specification: what the runtime promises the coordinator about decks and armed starts |
| `TrackRuntime` | the decks of `songbird.rs` between callers, mixer and event task |
| `VoiceIndex` | the voice presence index as operators on a record |
| `DiscordGateway` | the gateway, the call, the index, the reconnect file and the life of the process |
| `MediaResolver` | the resolver for one track |
| `...Proofs` | lemmas and theorems about the module of that name |
| `MC...` | symmetry sets, scenarios and initial queues for TLC |

`EnqueuePipeline` and `AutoMixHandoff` both extend `GuildPlayerState`, so the queue is
the same everywhere. `EnqueuePipeline` instantiates `OrderedCommit`, `TrackRuntime`
instantiates `DeckContract`; `DiscordGateway` extends `VoiceIndex`. What one model takes
from another is stated at its boundary: `EnqueuePipeline` and `AutoMixHandoff` take one
event of a guild after the other, in any order, which `OneHandlerPerGuild` of
`EventDelivery` gives them, and each of their decks reports its end once, which
`KeepsContract` and `EndNotLost` of `TrackRuntime` give them. `DiscordGateway` sees the
coordinator's session only as far as the gateway does (it lives, it has a current track, an
enqueue succeeds or fails or is expired by a reset), which is what `EnqueuePipeline`
details.

### GuildPlayerState, GuildPlayer

`shuffle_next_index` is `pick`, 1-based, 0 for `None`. `PreviewAgrees` compares the
queue preview of the panel with what repeated `prepare_next_track` calls will play.

### EnqueuePipeline

One task per request (`pc`), one event worker (`worker`), `disconnect_guild` (`dpc`),
and `play_request` as a sub-routine that either a task or the worker awaits (`play`).
Each action is the code between two awaits. The operation mutex is `operation`; a
step that holds the inner `playback` lock is one action because that lock is never
held over an await.

| Code | Model |
|---|---|
| `get_or_create_session` | `GetOrCreateSession` |
| the reservation in `enqueue_impl` | `Reserve`, `Full` |
| `media.resolve`, `finish_enqueue` | `Resolve`, `FinishEnqueue` |
| `EnqueueReservation::drop`, and the lock and completion a dropped flush gives up | `Cancel` |
| `flush_ready_prefix`, `take_flush_action` | `WaitForEarlier`, `FailNext`, `CommitNext`, `StartedCurrent`, `StartFailed`, `StartExpired` |
| `play_request`, `play_with_retry` | `PlayRequest` … `CheckStarted` |
| `advance` | `AdvanceLocked` … `AdvanceExpired` |
| `disconnect_guild`, runtime's `disconnect_guild` | `BeginDisconnect`, `ClearSession`, `LeaveCall` |

A sequence number is a position in `order[s]`: the code's `next_enqueue_seq` is
`Len(order[s]) + 1`. The oneshot a caller waits on is `reply`, which keeps its first
value. Tracks stand for requests: two calls for the same song are two tracks.

### AutoMixHandoff

`playback` is the record under the inner lock, `task` the handler that each task is
in (at most one holds the operation mutex), `decks` the runtime's decks in order of
creation, `inbox` the guild's runtime events. A *deck* and its *playback id* are
different things here because the code prepares a fallback deck under the id of the
one it replaces. Positions, beat analyses, gains and equalizers are left out: where
the code compares a position with a window the model allows both answers, and where it
asks the planner for a transition the model allows every kind in the scenario. The path of
`prefetch_transition` for runtimes that cannot schedule frames is left out:
`SongbirdTrackHandle` always can (`songbird.rs:1535-1537`). A
*scenario* says what a behaviour may meet (the queue, the kinds, whether arms and
preparations fail, how many commands, rearm tasks and enqueues there are); it is chosen in
the initial state and fixed after it, so that one run explores several mixes of trouble
without their product.

### EventDelivery

Tasks are numbered as in the code: the router is 0, the workers count from 1
(`next_event_worker_id`). A mailbox is the pair that both `RuntimeEventReceiver` and the
worker's loop consume: a bounded channel, a bounded list of critical events, and the one
permit a `Notify` stores.

| Code | Model |
|---|---|
| `RuntimeEventSink::send`: `try_send`, then the list | `Send`, `Spill` |
| `RuntimeEventReceiver::recv`; the head of the worker's loop | `TakeMain`, `MainIsEmpty`, `TakeOverflow`, `OverflowIsEmpty`, `Woken` |
| `route_runtime_event`: the map, `try_send`, the list, `Closed` | `FindWorker`, `SpawnWorker`, `Deliver`, `DeliverOverflow`, `DeliverClosed` |
| the worker from `acquire_owned` on | `StartHandling`, `FinishHandling`, `Retire`, `Leave` |
| a panic inside a handler | `Panic` |

`try_send` and the write to the list are two steps, because several threads run between
them. `owed`, `warned` and `bounced` record history: what was accepted and not handled
since, which losses the code logged, how often the router met a closed channel.
`VoiceDisconnected` is part of the contract and the coordinator handles it, although no
runtime of the repository sends it; a worker that retires after one drops what is in its
mailbox, which the model allows (`Excused`) and no document forbids.

### TrackRuntime, DeckContract

| Code | Model |
|---|---|
| `register_track`: `call.play`, the listeners, `make_playable_async` | `Register`, `Listen`, `ListenForErrors`, `Ready` |
| `SongbirdTrackHandle::resume`, `stop` | `Resume`, `RequestStop`, `SendStop` |
| `arm_transition`: the two states it asks for, its checks | `AskOutgoing`, `AskIncoming`, `Arm` |
| `TargetFrameTransitionNotifier`, `ArmedFrameTransition` | `FrameSeen`, `Answer` |
| `TrackLifecycle`, `TrackErrorLogger`, `TrackEndNotifier` | `FinishReason`, `ErrorSeen`, `EndSeen` |
| songbird's mixer and event task | `MixTick`, `EventTask` |

The mixer and the event task are the library's and modelled from how the code uses them:
the mixer drains the commands of a deck, then mixes one 20 ms frame of it; the event task
fires the listeners of a frame at most `MaxLag` frames later; a command to a deck that is
over is refused; a broken deck fires its error and its end listener, in either order. Only
the first deck's frames are counted, since starts are armed on it, and only up to
`MaxFrame`, a number large enough that any later frame is beyond every target
(`RuntimeAssumption`); a handoff begins when it has played `Played` frames, of which the
event task may still owe the last ones. Listeners are attached one by one, and a deck may be
over between two of them. A stop is two steps (`RequestStop`, `SendStop`) because listeners
may run between the lifecycle and the mixer being told.

### VoiceIndex, DiscordGateway

| Code | Model |
|---|---|
| `GuildVoiceIndex`, `VoiceActionAccess` | `Bootstrap`, `SetPeerChannel`, `ApplyPeer`, `IsAlone`, `Access` |
| `voice_state_update`, one task per event | `HandleOwn`, `HandlePeer` |
| `/play`: the room check, `ensure_joined`, the snapshot, the bootstrap, the enqueue, the failed first enqueue | `PlayBegins`, `EnsureJoined`, `Join`, `JoinRefused`, `Snapshot`, `BootstrapVoiceState`, `Enqueue`, `EnqueueSucceeds`, `EnqueueFails` |
| the task that waits for a join | `JoinSettles`, `JoinFails`, `DropJoins` |
| `reset_disconnected_guild`, the coordinator's and the runtime's `disconnect_guild` | `BeginReset`, `ResetClears`, `ResetLeaves` |
| the removal of a call and its leave, which may fail (`songbird.rs:344, 908-913`) | `RemoveCall`, `LeaveCall`, `LeaveRefused` |
| `ready`, `ReconnectStore::take`, `restore` | `Boot`, `Ready`, `TakeFails`, the `Restorer` task |
| `persist_restart_state`, `ReconnectStore::save`, the signal and its timeout | `Signal`, `RestartSnapshot`, `Save`, `SaveFails`, `Exit`, `Crash` |
| Discord, serenity's cache, songbird's shard | `UserMoves`, `ModeratorMoves`, `GuildCreate`, `DiscordAnswers` |

A join that waits for a connection which Songbird drops or replaces (`lost`) fails, however
late its task notices, and the task then removes whatever call the guild has
(`DropJoins`, `JoinFails`); only a join that finds the bot where the call is to be settles.

One guild: every table of the code is keyed by it. `orderly` is chosen in the initial state
and frozen. When it is TRUE, handlers run in the order of their events and the code from the
end of `ensure_joined` to the bootstrap, which awaits nothing, is not overtaken; when it is
FALSE neither is assumed. The runs explore both; `OccupancyFollows` and `PlacesAgree` are
claimed for the orderly behaviours only, and section 5 says what happens in the others. A
restored connection may be joined and bootstrapped before serenity's cache has the guild:
the index then knows no peer and stays wrong, so `OccupancyFollows` speaks of an index that
was `informed`, bootstrapped from a cache with the guild. `take` may fail, and the bot then
serves with the old file in place (`kept`); a leave may fail, and the bot then stays in a
channel that nothing on our side knows of (`stranded`), until another join or leave is sent.
`NotResurrected` and `PlacesAgree` name these cases, section 5 discusses them. Assumptions of
the model: no interaction is served before `take`, and serenity updates its cache when it
dispatches an event.

### MediaResolver

| Code | Model |
|---|---|
| the lookups and what they drop | `LookupPrepared`, `LookupCached`, `FirstLookup` |
| `acquire_inflight`, the gate's mutex | `AcquireInflight`, `Locked` |
| `invalidate_cached_playback` | `Forget` |
| `acquire_probe_slot` and its timeout | `AcquireProbeSlot`, `ProbeQueueTimeout` |
| the probe, and the caching of what it returns | `ProbeSucceeds`, `ProbeFails` |
| the guard, the lease's `fetch_sub` and `remove_if` | `Unlock`, `DropLease`, `RemoveGate` |
| a future dropped at an await | `Cancel` |
| the capacity trimming of `maybe_prune_caches` | `Evict` |

One track with one URL. The lookups of one call, the stores that follow a probe and the
removals of `Forget` touch up to three maps with no await between them and are one step each.
A gate bears the name of the call that made it; its queue is the
order in which tokio's mutex serves, its head the holder. Sources are numbered as they are
fetched and only their expiry is kept. A frozen scenario says which calls are made, whether
the provider's URLs are short-lived (`transient`: soundcloud, niconico, x), whether leases
drop in one step (`prompt`), and bounds time, cancellations and evictions.

## 3. Runs

| Run | What it asks | Bounds |
|---|---|---|
| `queue_modes` | do the preview, the peeked track and the track played next agree after any calls? | 4 tracks: a queue of three behind a current track is the first in which a removal moves the pick from either side |
| `enqueue_cancel` | with callers that go away at any await, failures and a disconnect, do commits follow ticket order (`OrderedCommit`) and does the queue stay sound? | 3 calls, so the middle one may be withdrawn before, between and after its neighbours; room for 2 pending and 1 queued, so the limits are hit; 2 sessions, 1 disconnect |
| `enqueue_live` | is every call answered, every ended deck replaced and no deck left without an owner? | 2 calls, 1 skip or toggle of loop or shuffle, 1 disconnect, 2 sessions |
| `enqueue_cancel_stall` | *violated*: does a withdrawn reservation release those behind it? | 2 calls |
| `event_delivery` | are a guild's events handled one at a time, and every accepted critical event handled or its loss accounted for? | every capacity 1, so that both mailboxes of an event can be full and a list saturated after three events; 3 guilds, so that one waits for a permit while the 2 permits are in use, 3 events, 3 workers, 1 panic |
| `handoff_safe` | six scenarios: skip, toggle and disconnect against crossfades and failing sources; armed starts that are refused, late or fail; an armed start inside a crossfade; two rearm tasks beside the worker; a rearm task and a deck that ends; a track enqueued meanwhile. Is the prepared deck always the next track, is every deck and token returned, do at most two decks sound, is every stale end ignored? | up to 3 tracks and 4 decks: two handoffs in a row, so the second may meet the first one's fade; each command once |
| `handoff_live` | is a session without a skip never silent, and is every crossfade's outgoing deck released? | 3 tracks, 4 decks, one of the tracks enqueued meanwhile, 1 toggle, sources that fail |
| `handoff_skip_stall`, `handoff_reused_id` | *violated*: see section 5 | 2 or 3 tracks |
| `track_runtime` | does the runtime keep the contract the coordinator is written against, is no end and no arm forgotten, and is an announced start on time? | 2 decks, 2 calls of `arm_transition`, an event task up to two frames behind when it runs, a handoff that begins at frame 2 and a target at frame 5: enough for an arm in time, too late, behind frames that are still to be seen, and overtaken by a stop, an error or an end of either deck |
| `discord_gateway` | do the counts follow the map, does the index follow Discord, do all records of the bot's channel agree at rest, does no ended connection come back? | 2 peers, 2 channels, 2 `/play` commands, 2 lives, 1 or 2 failures, at most 2 requests and 2 handlers under way; nine mixes of these, seven orderly and two not. Two commands are not combined with peers who move, and three moves only with one life; the proofs have no such limits |
| `media_resolver` | is one fetch at a time made through each gate, is no failed source served again, does every call return? | 3 calls of different kinds on 1 permit, so that one waits for the lock, one for the permit; five scenarios with expiring sources, a cancellation, an eviction |

Deadlock is checked in `queue_modes` only: every other model stops when its calls are
answered, its decks have ended and its budgets of outside events are used up. The state
constraints are the constants of the modules, each of them a guard that is named
there: `MaxSessions`, `MaxDecks`, `MaxUserOps`, `MaxDisconnects`, `MaxSends`,
`MaxWorkers`, `MaxPanics`, `Played`, `MaxFrame`, `MaxLag`, `MaxWire`, `MaxInbox` and the fields of the
scenarios. `MaxDecks` only stops decks from ending by themselves; it never keeps one from
being started.

**Fairness.** A task that is not blocked is run by tokio, so its steps are weakly
fair. The operation mutex is tokio's, which serves its waiters in order, so taking it
is strongly fair; in `MediaResolver` the gate's queue is explicit and weak fairness is
enough. Media resolution, source preparation and probing end because the code puts a
timeout on them; they may end with an error. A handler of a runtime event ends for the
same reason, and the semaphore of the permits serves its waiters in order, so taking one
is strongly fair. Nothing obliges a user, a deck or the
Discord gateway to act: `Join`, the user commands, `DeckEnds`, `Begin`, `Cancel` and `Tick`
carry no fairness. `TrackRuntime` and `DiscordGateway` are checked for safety and state no
fairness at all.

## 4. Proofs

All of them are for arbitrary constants, under the assumptions the modules name:
`GuildPlayerState` that `NoTrack` is no track, `EnqueuePipeline` that its limits are natural
numbers and that neither the worker nor the free lock is a request, `AutoMixHandoff` that scenarios have their type
and that the worker is no rearm task, `TrackRuntime` that `MaxFrame` lies beyond every
target and the frames already played, `VoiceIndex` that there are finitely many peers, `DiscordGateway` that the bot is none of
them, that the restorer is no command and that the two states of a call that is off are no
channels, `EventDelivery` that its capacities are natural numbers, `MediaResolver` that
there are finitely many calls and a permit.

* `GuildPlayerProofs!TypeCorrect` – the invariant is `TypeOK` itself: it contains
  `WellFormed` (loop and shuffle exclude each other; the pick of a shuffling guild
  points into its queue), which is inductive.
* `GuildPlayerProofs!NextTrackIsConserved` and `EnqueueKeepsNextTrack` – action
  properties, from `TypeOK` and the fact that a track is in the queue at most once.
* `GuildPlayerProofs!PreviewAlwaysAgrees` – from `TypeOK` alone. A preview is a selection
  of the queue by distinct positions (`DistinctTracks`), its first track is that of the
  first position (`FirstTracks`), and that position is the one `peek_next` looks at, the
  pick of a shuffling guild included (`SelectedFirst`).
* `EnqueuePipelineProofs!CommitCursorExact` (and `TypeCorrect` beside it) – the
  invariant is `CursorInv`. `CommitCursor` is not inductive, for three reasons that its
  conjuncts repair: a reservation appends at `Len + 1`, so the cursor must not be beyond
  that (`CursorInRange`); what is drained must belong to a session that is no longer
  current, which holds because ids are not reused, so that a session once found replaced
  stays replaced (`ReplacedForGood`, resting on `SessionsExist`); and a task that flushes
  must have a session (`TasksHaveSession`, `WorkerHasSession`). That the cursor stops at
  all needs that finitely many sequences are withdrawn: `FirstOutside`, by
  well-foundedness of inclusion on finite sets. The step of the cursor is done once, in
  `CursorMoves`, and the flush, the failed and the committed outcome and the
  cancellation are instances of it.
* `EnqueuePipelineProofs!QueueStaysBounded` – `QueueBound` is inductive beside `CursorInv`:
  only `Reserve` takes a number, below both limits, and a commit gives its number up for the
  track it adds (`QueueLengths`: `enqueue` adds one track, no other method any). Every other
  step leaves both alone or shrinks them (`NotMore`).
* `EnqueuePipelineProofs!OneDeckPerSession` – the invariant is `DeckInv`. Who flushes, starts
  a track or advances holds the operation lock of its session (`LocksHeld`); playback ids are
  not reused and a deck with an end event is over (`EventsFit`). So while `play_request` runs
  nothing else plays in its session and the id it brings is new (`PlaysFit`). It begins in a
  session that plays nothing: one without a current track is quiet (`IdleIsQuiet`), and the
  end the worker advances for is that of the only deck (`DecksFit`).
* `EnqueuePipelineProofs!NoDeckStaysBehind` and `GuildNeverSilent` – for `Cancellable = FALSE`:
  a `/play` future dropped while it starts a track leaves its deck without an owner, and a
  current track nobody starts. The first adds to `DeckInv` who owns a deck between
  `play_track` and the install (`DecksOwned`). The second adds that without a disconnect there is one session (`OneSession`), so
  that no step finds it replaced, and that a deck which was started is playing or has its end
  ahead when it is installed (`StartedKnown`). `KnownStays` then says when the worker may forget
  it: only by having handled its end.
* `EnqueuePipelineProofs!PipelineKeepsTicketOrder` – the refinement of `OrderedCommit`, one
  lemma per action. The cursor stands at the first sequence still pending, so the request a
  flush decides is the first undecided one of its line once three things are known
  (`LineInv`): a line holds each request once and only after it has reserved (`LineFits`); a
  pending sequence is one not answered, and a ready one belongs to a task that has
  published its outcome (`RepliesFit`); and the track a flush starts is that of a sequence
  it has passed, whose caller has no answer yet (`StartFits`), so that a track being started
  is decided before anything behind it. The operation lock (`LocksHeld`) keeps two flushes of
  one session apart.
* `EventDeliveryProofs!TypeCorrect` – that lists and channels stay within their capacities
  (`Limits`) and that the permits left and those in use add up (`PermitsKept`).
* `EventDeliveryProofs!OneHandler` – a worker in a phase in which it may handle something
  is the one in the map entry of its guild (`ServingIsMapped`), and an entry holds one
  worker. That a worker's first event finds the entry empty, and that the router only
  removes a worker whose channel is closed, is all it takes.
* `EventDeliveryProofs!DeadWorkerIsNoticedOnce` – the map and the router name a worker for
  its own guild only (`NamesItsOwn`), so removing it from that entry forgets it
  (`BouncedIsForgotten`).
* `EventDeliveryProofs!NothingIsLostSilently` – `Tracked` is `NoSilentLoss` without the
  events that are being handled, since one of those may have been accepted again meanwhile;
  it is kept because whoever carries an event passes it on, finishes it or is excused, and
  the excuse fits because a worker carries events of its own guild only (`CargoFits`).
* `TrackRuntimeProofs!TypeCorrect`, `ArmIsNotLost` – the type invariant includes that the
  start in the slot is accepted and unanswered and that a deck that is over has no commands; it
  is proved and not part of a run. The slot holds an arm only when that
  arm was accepted and is unanswered (`AnswersFit`), and it is emptied only by an answer or
  by the end or the stop of its deck; that a listener which empties it finds the deck over
  is `FiredOver`.
* `TrackRuntimeProofs!EndIsNotLost` – when the end listener is fired without a report, the
  lifecycle had taken a reason before, and whoever takes one sends the report in the same
  step (`Said`).
* `TrackRuntimeProofs!RuntimeKeepsContract` – the refinement of `DeckContract`, step by
  step. That a deck is reported once follows from its lifecycle: as long as it leaves room
  for a word about the deck, none was said (`ReportsFit`). That an arm is answered once
  follows from `AnswersFit`.
* `TrackRuntimeProofs!StartsAreOnTime` – the invariant is `TimeInv`. The event task is
  behind by no more frames than are in its queue (`TicksFit`). A start is queued once, and only
  when the frame before its target has been mixed (`CmdsFit`, `ArmsFit`), so the mixer never
  makes it early; a start that was made is at most the queue's length ahead of what the event
  task is to see (`StartsFit`), and that task announces it only within the skew of the frame
  it sees.
* `DiscordGatewayProofs!CountsAlwaysFollow` – each index operator keeps `CountsAgree`: a
  peer that leaves a channel was counted in it, so the count is at least one before it is
  lowered, and the code's branch for smaller counts is never a loss. The session and every
  reset carry this along.
* `DiscordGatewayProofs!NeverResurrected` – in service there is no file unless `take`
  failed and left it (`FileGone`: serving, no file or `kept`), so a connection that ends in
  service is in none but that one; only `Save`, which follows the collection of what is active
  then, writes the file again.
* `DiscordGatewayProofs!OccupancyAlwaysFollows` – `OccupancyFollows` speaks of an inbox
  without peer events only; the invariant says what holds while they wait. The events of a
  peer end where it is (`Trails`), and wherever the index, or the snapshot a command is about
  to bootstrap from, is wrong about a peer, a move of that peer is still under way (`Heard`).
  A mute, an event that moves nobody, therefore never counts as a correction. It also needs
  that an index or a snapshot is `informed` only once the guild is cached, from when on every
  move has an event (`Watched`).
* `DiscordGatewayProofs!PlacesAlwaysAgree` – each record of the bot's channel is right, or
  something that will put it right is under way: an event of the bot or a request that will
  cause one (`Coming`), or a reset (`ActiveFits`, `IndexFits`, `JoinersFit`). For the call the
  measure is where the bot will be once Discord has answered every request (`Goal`): a call
  that is on is where the bot is going, one that is off is left behind only with a reset, a
  lost join or a disconnect event ahead (`CallFits`). The last event of the bot says where it
  is (`OwnTrail`). At rest nothing is under way, so all agree.
  A leave that could not be sent is the alternative in each of them (`stranded`): the call is in
  no channel then, and no record names a channel that the bot is not in.
* `MediaResolverProofs` – the invariant counts. `users` of a gate is exactly the
  number of calls that hold a lease on it (`UsersExact`), which makes the last one to leave
  the one that removes it; `permits` is what the probing calls have left (`PermitsExact`);
  a gate in a map is one that its own calls use (`GatesKeepMap`), a gate that is leased
  stays in its map when drops are not split (`LeasedGateStays`), and one with no user is on
  its way out (`GateHasUser`); a fetching call is the head of its gate's queue (`Fetchers`).
  `OneFetchAtATime` follows because two heads of one queue are one call, `GatesDoNotLeak`
  from `GateHasUser`. `FailedSourceIsNotServed` needs that no cache and no unfinished answer
  holds a source that failed earlier (`CachesClean`), which is where `transient` is used,
  and that a source fetched anew has a new number (`SourcesKnown`).

* `AutoMixHandoffProofs` – eight theorems share the invariant `Core`. `TypeCorrect` alone
  needs much of it, since the decks are a sequence that promotions index: what is prepared,
  active, retiring or in the hands of a task is a deck that exists (`DecksFit`,
  `PreparedFits`, `ActiveFits`, `RetiringFits`, `TasksFit`). `PreparedStaysNext` and
  `ActiveStaysCurrent` are parts of it. They need that a task brings a deck holding the
  track it asked for, that a task cannot install what it prepared once a replacement has
  been promised (its generation is older than `replacing`), and that the worker never starts
  a track while a deck is prepared. `StaleEndChangesNothing`: the id an end event names
  belongs to a deck that is over (`InboxFits`), the id of the current track to the active
  deck; without reuse the two are one deck (`EndedIsOver`). `EveryDeckStaysOwned`: a step
  that takes a deck from one owner names the next one or stops it (`OwnedKept`), among them
  the fade tasks, each of which fades the retiring deck or one that was cut.
  `AtMostTwoDecksHeard` has an invariant of its own, `NoArms`: without beat-matched starts
  no slot is armed, no task and no event is about an arm, a deck's id is its number, and
  what plays is the active or the retiring deck. `TokenIsInHand` (`ReplacementInHand`)
  distinguishes the same case; where there are armed starts but no rearm task the worker is
  alone, so nothing it looks at can have changed when it comes back with the replacement
  (`TokenHeld`). `HeardUnlessSkipped` is `NeverSilent` for the scenarios without a skip and
  without beat-matched starts, which are also those of `handoff_live`: with a skip it is false
  (section 5), and a session whose start is armed is not claimed to be heard. Its invariant `Audience` says which decks may be paused: the prepared deck and those
  tasks are about to install, all different (`Apart`), so every deck that becomes the active
  one is resumed by its promotion; the active, the retiring and the fading decks have sounded
  (`Heard`), so when one of them plays no more, its end is reported or on the way.

What stays with TLC: everything about liveness and fairness (`EndedDeckIsReplaced`,
`EveryCallAnswered`, `EveryEventHandled`, `EveryCallReturns`, `RetiringIsReleased`), which
the provers cannot do. Every invariant and every other action property of the runs is stated
by a theorem, for all the scenarios in which a run checks it.

## 5. Disagreements with the repository

* `enqueue_cancel_stall` – when a `/play` future is dropped, its destructor moves
  `next_commit_seq` past its sequence but nobody flushes what that uncovers: a call behind
  it whose outcome is already published waits until another call finishes.
* `handoff_skip_stall` – `skip` takes `active_handle` and leaves `current_playback_id`; a
  prefetch event handled before the end event then prepares a deck for a track that was
  skipped, the end event finds no active deck, and the guild stays silent with a current
  track.
* `handoff_reused_id` – the fallback deck prepared after a refused arm carries the id of
  the deck just stopped, whose end event is taken for its own.

Each quotes the line it contradicts in `PROJECT.json`. Met while modelling, and visible in
the models when the named assumption is dropped, but not given a run of their own:

* `playback.rs:2573` – a rearm task already past `transition`'s first check can promote the
  speculative deck that the worker has stopped and is about to replace, because what it
  checks again after its sleep does not include the deck. The worker then finds another
  current track and keeps `fallback_replacement_generation`, which holds prefetches and
  transitions back until a command or the end of a deck clears it. `ReplacementInHand`
  excludes behaviours that have both rearm tasks and beat-matched starts.
* `reconnect.rs:113, 115` – when `take` cannot read or remove the file, `ready` logs the
  error and the bot serves with the old file on disk (`discord.rs:726-731`). A connection that
  is made and ended in this life leaves that file alone, so after a crash the next life resumes
  it, although the comment at `reconnect.rs:105-106` says that an ordinary disconnect "cannot
  be resurrected by a stale file after a crash" (`NotResurrected` without `kept`).
* `songbird.rs:911`, `playback.rs:1294-1296` – when the leave of a reset cannot be sent the
  coordinator warns, and by then its session and the active channel are gone: the bot sits in
  a channel and no record says so, until the next `/play` joins or Discord reports a move. No
  document says otherwise; `PlacesAgree` states what still holds (`stranded`).
* `songbird.rs:1740` – the frame at which an armed deck started is taken from the event that
  reads its status. With an event task two frames behind, a start that the mixer made two
  frames late is announced as made on its target frame; `StartsOnTime` bounds the error by the
  lag.
* `songbird.rs:1801` – an arm is answered `DeadlineMissed` while its start is still queued:
  the mixer may start the incoming deck until the handler of that answer stops it.
* `resolver.rs:105, 780` – a lease is given back by `fetch_sub` and then `remove_if`. A
  caller that joins between the two waits on a gate that is about to leave the map, and the
  next caller opens a second one: two fetches of one track (`SingleFlight` without `prompt`),
  although the test `inflight_leases_remove_only_after_the_last_waiter_drops` says by its
  name that a gate stays while it has waiters, and `docs/single-host-ubuntu.md:22` speaks of
  in-flight request deduplication.
* `resolver.rs:252` – a `prepare_playback` whose request is not refreshed caches the source
  it came with, also after `prepare_playback_fresh` has forgotten that source because it
  failed (`NotServedAgain` without `transient`).
* `discord.rs:856` – two first `/play` commands from different rooms both pass the room
  check, and the second takes the bot away from the first; `docs/single-host-ubuntu.md:32`
  promises same-room control.
* `discord.rs:918` – a moderator's move or a failing join that falls between the end of
  `ensure_joined` and the bootstrap is overwritten by the channel the command asked for
  (`PlacesAgree` without `orderly`).
* `discord.rs:983` – whether a failed `/play` leaves is decided before its reset awaits; a
  track that another `/play` starts meanwhile is torn down with the session.
* `discord.rs:1154` – `ready` restores connections without waiting for the guild to arrive in
  serenity's cache; the snapshot is then empty, nothing bootstraps the index again, and the
  next event of a peer elsewhere finds the bot alone (`OccupancyFollows` without `informed`).
* `discord.rs:1289` – serenity runs voice handlers in tasks of their own; two updates of
  one peer handled in the wrong order leave it in a channel it has left
  (`OccupancyFollows` without `orderly`), while `docs/single-host-ubuntu.md:28` relies on
  occupancy that is bootstrapped once and then updated incrementally.

## 6. Not modelled

* **Analysis tasks and their cache** (`automix_cache.rs`, `spawn_analysis` at `playback.rs:685`): their
  answers only change which transition the planner picks and when a rearm is asked for, and
  `AutoMixHandoff` takes every pick and any rearm.
* **Player panels, buttons, nicknames** (`discord.rs`): they render what the models keep; a
  button's command is one of the coordinator's user commands.
* **Restore of positions** (`restart_snapshot`, `restore` of the coordinator): the resumed
  track is an enqueue in `DiscordGateway`; its position is not kept.
* **Admission in `main.rs`**: its counters repeat the limits that `EnqueuePipeline` has.
* **Volumes, seeks, equalizer fades, audio inputs** of `songbird.rs`: no property is about
  them.
* **Providers, HTTP, HLS, decoding, DSP, planner, audio analysis, offline research
  (`wotoha-analysis-lab`, the corpus binaries)**: network clients and floating-point
  arithmetic with no concurrent state. They are well over half of the repository's
  lines, which bounds the share of the code that these models can stand for.
* **Deployment scripts, vendored serenity**: shell and third-party code.
