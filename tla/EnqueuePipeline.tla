-------------------------- MODULE EnqueuePipeline --------------------------
(***************************************************************************)
(* PlaybackCoordinator of wotoha-voice/src/playback.rs for one guild with  *)
(* AutoMix off: concurrent /play calls that reserve a place in the queue,  *)
(* resolve in any order and are committed in reservation order; the event  *)
(* worker that advances the queue when a deck ends; skip and the mode      *)
(* toggles; and disconnect_guild, which replaces the session without       *)
(* taking its operation lock.                                              *)
(*                                                                         *)
(* Every await is a place where another task may run, so a handler is a    *)
(* sequence of actions on its program counter.  A step between two awaits  *)
(* that holds the playback lock is one action.                             *)
(***************************************************************************)
EXTENDS GuildPlayerState

CONSTANTS MaxSessions,          \* sessions a behaviour may create
          MaxPendingEnqueues,   \* MAX_PENDING_ENQUEUES
          MaxQueueLen,          \* MAX_QUEUE_LEN
          MaxDecks,             \* no deck ends by itself once this many were started
          MaxUserOps,           \* skips and toggles a behaviour may contain
          MaxDisconnects,       \* disconnect_guild calls in a behaviour
          Cancellable,          \* may the future of a /play call be dropped?
          Modes                 \* may loop and shuffle be toggled?

ASSUME BoundsAssumption ==
    /\ MaxSessions \in Nat \ {0}
    /\ MaxPendingEnqueues \in Nat \ {0}
    /\ MaxQueueLen \in Nat \ {0}
    /\ MaxDecks \in Nat
    /\ MaxUserOps \in Nat
    /\ MaxDisconnects \in Nat
    /\ Cancellable \in BOOLEAN
    /\ Modes \in BOOLEAN

\* One /play call per track: the request and the task serving it.
Requests == Tracks
Sessions == 1..MaxSessions
NoSession == 0
Worker == "worker"              \* the guild's event worker
Free == "free"
NoDeck == 0

ASSUME WorkerAssumption == Worker \notin Requests
ASSUME FreeAssumption == Free \notin Requests

Holders == Requests \cup {Worker}
Errors == {"SessionExpired", "QueueFull", "Resolve", "Runtime"}
Replies == {"none", "queued", "now_playing"} \cup Errors

VARIABLES
    \* the coordinator
    current,      \* the session in the map, NoSession if the guild has none
    lastSession,  \* next_session_id - 1
    lastDeck,     \* next_playback_id - 1
    \* GuildSession, by session
    operation,    \* who holds the operation lock
    order,        \* the requests in the order their sequence was reserved
    pending,      \* pending_enqueues: the sequences reserved and not settled
    ready,        \* those of `pending' whose outcome is set
    cancelled,    \* cancelled_enqueues
    nextCommit,   \* next_commit_seq
    player,       \* logical
    active,       \* active_handle
    currentId,    \* current_playback_id
    \* the tasks of /play
    pc, session, outcome, reply,
    play,         \* play_request in progress, by the task that awaits it
    \* the runtime
    call,         \* is there a songbird call for the guild?
    decks,        \* the decks in it that are playing
    events,       \* TrackEnded and TrackErrored events not yet handled
    \* the event worker, disconnect_guild and the budget of user commands
    worker, dpc, dsession, disconnects, userOps

coordVars == <<current, lastSession>>
pendingVars == <<order, pending, ready, cancelled, nextCommit>>
deckVars == <<active, currentId>>
sessionVars == <<operation, pendingVars, player, deckVars>>
taskVars == <<pc, session, outcome, reply>>
runtimeVars == <<call, decks, events>>
otherVars == <<worker, dpc, dsession, disconnects, userOps>>
vars == <<coordVars, lastDeck, sessionVars, taskVars, play, runtimeVars, otherVars>>

-----------------------------------------------------------------------------
\* Definitions named Bug... are mutants of the definition that follows them.
\* session_is_current
SessionIsCurrent(s) == current = s

\* The operation lock is a fair async mutex; here any waiter may get it.
Acquire(h, s) == operation[s] = Free /\ operation' = [operation EXCEPT ![s] = h]
Release(s) == operation' = [operation EXCEPT ![s] = Free]

\* A deck that stops playing reports its end once (TrackLifecycle).
End(D) == /\ decks' = decks \ D
          /\ events' = events \cup D

\* Replies are oneshot: a task whose completion was already used keeps it.
Complete(R, result) ==
    reply' = [r \in Requests |-> IF r \in R /\ reply[r] = "none" THEN result ELSE reply[r]]

BugSkipsNothing(next, dropped) == next

\* next_commit_seq moves past the cancelled sequences in front of it.
SkipCancelled(next, dropped) ==
    CHOOSE n \in next..(next + Cardinality(dropped)) :
        /\ n \notin dropped
        /\ next..(n - 1) \subseteq dropped

\* What is left of the reservation of r in its session.
Mine(r) == {n \in pending[session[r]] : order[session[r]][n] = r}
Owners(s, N) == {order[s][n] : n \in N}

\* A deck is known by its playback id and the session that started it.
Deck(id, s) == [id |-> id, session |-> s]
ActiveDeck(s) == {d \in decks : d.session = s /\ d.id = active[s]}

NoPlay == [step |-> "none", id |-> NoDeck, track |-> NoTrack, retried |-> FALSE]
Starting(t) == [NoPlay EXCEPT !.step = "check", !.track = t]

SessionOf(h) == IF h = Worker THEN worker.event.session ELSE session[h]
Step(h, step) == play' = [play EXCEPT ![h].step = step]
StopPlaying(h) == play' = [play EXCEPT ![h] = NoPlay]

\* drain_pending
DrainPending(s) ==
    /\ pending' = [pending EXCEPT ![s] = {}]
    /\ ready' = [ready EXCEPT ![s] = {}]
    /\ cancelled' = [cancelled EXCEPT ![s] = {}]
    /\ UNCHANGED <<order, nextCommit>>

-----------------------------------------------------------------------------
(* play_request, awaited by a flushing /play task or by the worker.        *)

\* The first session check and the playback id of the deck to come.
PlayRequest(h) ==
    /\ play[h].step = "check"
    /\ IF SessionIsCurrent(SessionOf(h))
       THEN /\ lastDeck' = lastDeck + 1
            /\ play' = [play EXCEPT ![h].step = "prepare", ![h].id = lastDeck + 1]
       ELSE Step(h, "expired") /\ UNCHANGED lastDeck
    /\ UNCHANGED <<coordVars, sessionVars, taskVars, runtimeVars, otherVars>>

\* media.prepare_playback answers; the session is checked again.
PreparePlayback(h) ==
    /\ play[h].step = "prepare"
    /\ \/ Step(h, "failed")
       \/ Step(h, IF SessionIsCurrent(SessionOf(h)) THEN "play" ELSE "expired")
    /\ UNCHANGED <<coordVars, lastDeck, sessionVars, taskVars, runtimeVars, otherVars>>

\* runtime.play_track_with_options: without a call it fails; a retryable error
\* asks once for a fresh source.
PlayTrack(h) ==
    /\ play[h].step = "play"
    /\ \/ /\ call
          /\ decks' = decks \cup {Deck(play[h].id, SessionOf(h))}
          /\ Step(h, "started")
       \/ Step(h, "failed") /\ UNCHANGED decks
       \/ call /\ ~play[h].retried /\ Step(h, "refresh") /\ UNCHANGED decks
    /\ UNCHANGED <<coordVars, lastDeck, sessionVars, taskVars, call, events, otherVars>>

\* media.prepare_playback_fresh: a different source is tried, once.
RefreshSource(h) ==
    /\ play[h].step = "refresh"
    /\ \/ play' = [play EXCEPT ![h].step = "play", ![h].retried = TRUE]
       \/ Step(h, "failed")
    /\ UNCHANGED <<coordVars, lastDeck, sessionVars, taskVars, runtimeVars, otherVars>>

BugSkipsLastCheck(h) ==
    /\ play[h].step = "started"
    /\ Step(h, "ok")
    /\ UNCHANGED <<coordVars, lastDeck, sessionVars, taskVars, runtimeVars, otherVars>>

\* The last session check: the deck of a session that is gone is stopped.
CheckStarted(h) ==
    /\ play[h].step = "started"
    /\ IF SessionIsCurrent(SessionOf(h))
       THEN Step(h, "ok") /\ UNCHANGED <<decks, events>>
       ELSE /\ Step(h, "expired")
            /\ End(decks \cap {Deck(play[h].id, SessionOf(h))})
    /\ UNCHANGED <<coordVars, lastDeck, sessionVars, taskVars, call, otherVars>>

Play(h) == \/ PlayRequest(h) \/ PreparePlayback(h) \/ PlayTrack(h)
           \/ RefreshSource(h) \/ CheckStarted(h)

\* The started deck becomes the active one of session s.
Install(h, s) ==
    /\ active' = [active EXCEPT ![s] = play[h].id]
    /\ currentId' = [currentId EXCEPT ![s] = play[h].id]
    /\ StopPlaying(h)

BugClearsDeckOnly(s, p) ==
    /\ player' = [player EXCEPT ![s] = p]
    /\ currentId' = [currentId EXCEPT ![s] = NoDeck]
    /\ UNCHANGED active

\* No deck and no current track after a failed start.
ClearCurrentOf(s, p) ==
    /\ player' = [player EXCEPT ![s] = ClearCurrent(p)]
    /\ currentId' = [currentId EXCEPT ![s] = NoDeck]
    /\ UNCHANGED active

-----------------------------------------------------------------------------
(* enqueue_impl, one task per request.                                     *)

\* handle_play joins the voice channel before it enqueues.
Join(r) ==
    /\ pc[r] = "idle"
    /\ pc' = [pc EXCEPT ![r] = "joined"]
    /\ call' = TRUE
    /\ UNCHANGED <<coordVars, lastDeck, sessionVars, session, outcome, reply, play,
                   decks, events, otherVars>>

GetOrCreateSession(r) ==
    /\ pc[r] = "joined"
    /\ IF current # NoSession
       THEN UNCHANGED coordVars
       ELSE /\ lastSession < MaxSessions
            /\ lastSession' = lastSession + 1
            /\ current' = lastSession + 1
    /\ session' = [session EXCEPT ![r] = current']
    /\ pc' = [pc EXCEPT ![r] = "reserving"]
    /\ UNCHANGED <<lastDeck, sessionVars, outcome, reply, play, runtimeVars, otherVars>>

BugFullPastLimit(s) ==
    \/ Cardinality(pending[s]) > MaxPendingEnqueues
    \/ Len(player[s].queue) >= MaxQueueLen

\* No place for another enqueue: too many unfinished ones or too long a queue.
Full(s) ==
    \/ Cardinality(pending[s]) >= MaxPendingEnqueues
    \/ Len(player[s].queue) >= MaxQueueLen

Reserve(r) ==
    LET s == session[r] IN
    /\ pc[r] = "reserving"
    /\ operation[s] = Free
    /\ IF Full(s)
       THEN /\ pc' = [pc EXCEPT ![r] = "waiting"]
            /\ Complete({r}, "QueueFull")
            /\ UNCHANGED <<order, pending>>
       ELSE /\ pc' = [pc EXCEPT ![r] = "resolving"]
            /\ order' = [order EXCEPT ![s] = Append(@, r)]
            /\ pending' = [pending EXCEPT ![s] = @ \cup {Len(order[s]) + 1}]
            /\ UNCHANGED reply
    /\ UNCHANGED <<coordVars, lastDeck, operation, ready, cancelled, nextCommit, player,
                   deckVars, session, outcome, play, runtimeVars, otherVars>>

Resolve(r) ==
    /\ pc[r] = "resolving"
    /\ \E result \in {"ok", "err"} : outcome' = [outcome EXCEPT ![r] = result]
    /\ pc' = [pc EXCEPT ![r] = "resolved"]
    /\ UNCHANGED <<coordVars, lastDeck, sessionVars, session, reply, play, runtimeVars, otherVars>>

\* finish_enqueue: publish the outcome and flush, or give up a stale session.
FinishEnqueue(r) ==
    LET s == session[r] IN
    /\ pc[r] = "resolved"
    /\ operation[s] = Free
    /\ IF SessionIsCurrent(s) /\ Mine(r) # {}
       THEN /\ operation' = [operation EXCEPT ![s] = r]
            /\ ready' = [ready EXCEPT ![s] = @ \cup Mine(r)]
            /\ pc' = [pc EXCEPT ![r] = "flushing"]
            /\ UNCHANGED <<pending, reply>>
       ELSE /\ pending' = [pending EXCEPT ![s] = @ \ Mine(r)]
            /\ ready' = [ready EXCEPT ![s] = @ \ Mine(r)]
            /\ Complete({r}, "SessionExpired")
            /\ pc' = [pc EXCEPT ![r] = "waiting"]
            /\ UNCHANGED operation
    /\ UNCHANGED <<coordVars, lastDeck, order, cancelled, nextCommit, player, deckVars,
                   session, outcome, play, runtimeVars, otherVars>>

-----------------------------------------------------------------------------
(* flush_ready_prefix, by the task that holds the operation lock.          *)

\* take_flush_action settles the next sequence n when it has an outcome.
BugFirstReady(s) == IF ready[s] = {} THEN SkipCancelled(nextCommit[s], cancelled[s])
                    ELSE CHOOSE n \in ready[s] : \A m \in ready[s] : n <= m
BugOffByOne(s) == SkipCancelled(nextCommit[s], cancelled[s]) + 1
NextSequence(s) == SkipCancelled(nextCommit[s], cancelled[s])

TakeNext(s, n) ==
    /\ pending' = [pending EXCEPT ![s] = @ \ {n}]
    /\ ready' = [ready EXCEPT ![s] = @ \ {n}]
    /\ cancelled' = [cancelled EXCEPT ![s] = {m \in @ : m > n}]
    /\ nextCommit' = [nextCommit EXCEPT ![s] = n + 1]
    /\ UNCHANGED order

WaitForEarlier(r) ==
    LET s == session[r] n == NextSequence(s) IN
    /\ pc[r] = "flushing"
    /\ n \notin ready[s]
    /\ cancelled' = [cancelled EXCEPT ![s] = {m \in @ : m > n}]
    /\ nextCommit' = [nextCommit EXCEPT ![s] = n]
    /\ Release(s)
    /\ pc' = [pc EXCEPT ![r] = "waiting"]
    /\ UNCHANGED <<coordVars, lastDeck, order, pending, ready, player, deckVars,
                   session, outcome, reply, play, runtimeVars, otherVars>>

FailNext(r) ==
    LET s == session[r] n == NextSequence(s) IN
    /\ pc[r] = "flushing"
    /\ n \in ready[s]
    /\ outcome[order[s][n]] = "err"
    /\ TakeNext(s, n)
    /\ Complete({order[s][n]}, "Resolve")
    /\ UNCHANGED <<coordVars, lastDeck, operation, player, deckVars, pc, session, outcome,
                   play, runtimeVars, otherVars>>

\* The track is appended, or becomes current and is started.
CommitNext(r) ==
    LET s == session[r] n == NextSequence(s) t == order[s][n] IN
    /\ pc[r] = "flushing"
    /\ n \in ready[s]
    /\ outcome[t] = "ok"
    /\ TakeNext(s, n)
    /\ \E p \in Enqueue(player[s], t) : player' = [player EXCEPT ![s] = p]
    /\ IF BecomesCurrent(player[s])
       THEN /\ pc' = [pc EXCEPT ![r] = "starting"]
            /\ play' = [play EXCEPT ![r] = Starting(t)]
            /\ UNCHANGED reply
       ELSE Complete({t}, "queued") /\ UNCHANGED <<pc, play>>
    /\ UNCHANGED <<coordVars, lastDeck, operation, deckVars, session, outcome,
                   runtimeVars, otherVars>>

StartedCurrent(r) ==
    /\ pc[r] = "starting"
    /\ play[r].step = "ok"
    /\ Install(r, session[r])
    /\ Complete({play[r].track}, "now_playing")
    /\ pc' = [pc EXCEPT ![r] = "flushing"]
    /\ UNCHANGED <<coordVars, lastDeck, operation, pendingVars, player, session, outcome,
                   runtimeVars, otherVars>>

StartFailed(r) ==
    LET s == session[r] IN
    /\ pc[r] = "starting"
    /\ play[r].step = "failed"
    /\ ClearCurrentOf(s, player[s])
    /\ StopPlaying(r)
    /\ Complete({play[r].track}, "Runtime")
    /\ pc' = [pc EXCEPT ![r] = "flushing"]
    /\ UNCHANGED <<coordVars, lastDeck, operation, pendingVars, session, outcome,
                   runtimeVars, otherVars>>

StartExpired(r) ==
    LET s == session[r] IN
    /\ pc[r] = "starting"
    /\ play[r].step = "expired"
    /\ ClearCurrentOf(s, player[s])
    /\ StopPlaying(r)
    /\ DrainPending(s)
    /\ Complete({play[r].track} \cup Owners(s, pending[s]), "SessionExpired")
    /\ Release(s)
    /\ pc' = [pc EXCEPT ![r] = "waiting"]
    /\ UNCHANGED <<coordVars, lastDeck, session, outcome, runtimeVars, otherVars>>

\* The future of a /play call is dropped at an await: EnqueueReservation's Drop
\* withdraws its sequence, and a flush in progress lets go of the lock and of
\* the completion it was about to answer.
Cancel(r) ==
    LET s == session[r]
        dropped == cancelled[s] \cup Mine(r)
        next == SkipCancelled(nextCommit[s], dropped)
    IN
    /\ Cancellable
    /\ \/ pc[r] \in {"resolving", "resolved"}
       \/ pc[r] = "waiting" /\ reply[r] = "none"
       \/ pc[r] = "starting" /\ play[r].step \in {"prepare", "play", "refresh", "started"}
    /\ pending' = [pending EXCEPT ![s] = @ \ Mine(r)]
    /\ ready' = [ready EXCEPT ![s] = @ \ Mine(r)]
    /\ IF Mine(r) = {} THEN UNCHANGED <<cancelled, nextCommit>>
       ELSE /\ cancelled' = [cancelled EXCEPT ![s] = {n \in dropped : n > next}]
            /\ nextCommit' = [nextCommit EXCEPT ![s] = next]
    /\ IF pc[r] = "starting"
       THEN StopPlaying(r) /\ Release(s) /\ Complete({play[r].track} \ {r}, "SessionExpired")
       ELSE UNCHANGED <<play, operation, reply>>
    /\ pc' = [pc EXCEPT ![r] = "dropped"]
    /\ UNCHANGED <<coordVars, lastDeck, order, player, deckVars, session, outcome,
                   runtimeVars, otherVars>>

-----------------------------------------------------------------------------
(* The event worker: advance, also for handle_track_error.                 *)

IdleWorker == [pc |-> "idle", event |-> Deck(NoDeck, NoSession), expected |-> NoDeck]
WorkerIdles == worker' = IdleWorker

TakeEvent ==
    /\ worker.pc = "idle"
    /\ \E e \in events :
         /\ events' = events \ {e}
         /\ worker' = IF SessionIsCurrent(e.session)
                      THEN [pc |-> "locking", event |-> e, expected |-> e.id]
                      ELSE IdleWorker
    /\ UNCHANGED <<coordVars, lastDeck, sessionVars, taskVars, play, call, decks,
                   dpc, dsession, disconnects, userOps>>

AdvanceLocked ==
    LET s == worker.event.session IN
    /\ worker.pc = "locking"
    /\ operation[s] = Free
    /\ IF SessionIsCurrent(s)
       THEN /\ operation' = [operation EXCEPT ![s] = Worker]
            /\ worker' = [worker EXCEPT !.pc = "advance"]
       ELSE WorkerIdles /\ UNCHANGED operation
    /\ UNCHANGED <<coordVars, lastDeck, pendingVars, player, deckVars, taskVars, play,
                   runtimeVars, dpc, dsession, disconnects, userOps>>

BugEndsActive(s) == active[s] = worker.expected

\* Only the deck that is current may be advanced from.
EndsCurrent(s) == currentId[s] = worker.expected

\* One round of the loop.
Advance ==
    LET s == worker.event.session IN
    /\ worker.pc = "advance"
    /\ IF ~EndsCurrent(s)
       THEN WorkerIdles /\ Release(s) /\ UNCHANGED <<player, deckVars, play>>
       ELSE /\ active' = [active EXCEPT ![s] = NoDeck]
            /\ currentId' = [currentId EXCEPT ![s] = NoDeck]
            /\ \E p \in PrepareNextTrack(player[s]) :
                 /\ player' = [player EXCEPT ![s] = p]
                 /\ IF p.current = NoTrack
                    THEN WorkerIdles /\ Release(s) /\ UNCHANGED play
                    ELSE /\ worker' = [worker EXCEPT !.pc = "starting"]
                         /\ play' = [play EXCEPT ![Worker] = Starting(p.current)]
                         /\ UNCHANGED operation
    /\ UNCHANGED <<coordVars, lastDeck, pendingVars, taskVars, runtimeVars,
                   dpc, dsession, disconnects, userOps>>

AdvanceStarted ==
    LET s == worker.event.session IN
    /\ worker.pc = "starting"
    /\ play[Worker].step = "ok"
    /\ player' = [player EXCEPT ![s] = ReplaceCurrent(@, play[Worker].track)]
    /\ Install(Worker, s)
    /\ Release(s)
    /\ WorkerIdles
    /\ UNCHANGED <<coordVars, lastDeck, pendingVars, taskVars, runtimeVars,
                   dpc, dsession, disconnects, userOps>>

AdvanceFailed ==
    LET s == worker.event.session IN
    /\ worker.pc = "starting"
    /\ play[Worker].step = "failed"
    /\ ClearCurrentOf(s, DisableLoop(player[s]))
    /\ StopPlaying(Worker)
    /\ worker' = [worker EXCEPT !.pc = "advance", !.expected = NoDeck]
    /\ UNCHANGED <<coordVars, lastDeck, operation, pendingVars, taskVars, runtimeVars,
                   dpc, dsession, disconnects, userOps>>

AdvanceExpired ==
    /\ worker.pc = "starting"
    /\ play[Worker].step = "expired"
    /\ StopPlaying(Worker)
    /\ Release(worker.event.session)
    /\ WorkerIdles
    /\ UNCHANGED <<coordVars, lastDeck, pendingVars, player, deckVars, taskVars,
                   runtimeVars, dpc, dsession, disconnects, userOps>>

-----------------------------------------------------------------------------
(* User commands, the runtime, and disconnect_guild.                       *)

\* A command finds the session, then waits for its lock: the session may have
\* been replaced by then.
UserCommand(s) ==
    /\ userOps < MaxUserOps
    /\ s \in 1..lastSession
    /\ operation[s] = Free
    /\ userOps' = userOps + 1
    /\ UNCHANGED <<coordVars, lastDeck, operation, pendingVars, currentId, taskVars, play,
                   call, worker, dpc, dsession, disconnects>>

\* skip stops the deck and leaves the rest to the end event it causes.
Skip(s) ==
    /\ UserCommand(s)
    /\ player' = [player EXCEPT ![s] = DisableLoop(@)]
    /\ active' = [active EXCEPT ![s] = NoDeck]
    /\ End(ActiveDeck(s))

ToggleMode(s) ==
    /\ Modes
    /\ UserCommand(s)
    /\ \E p \in {ToggleLoop(player[s])} \cup ToggleShuffle(player[s]) :
         player' = [player EXCEPT ![s] = p]
    /\ UNCHANGED <<active, decks, events>>

\* A deck reaches its end or fails.
DeckEnds ==
    /\ lastDeck < MaxDecks
    /\ \E d \in decks : End({d})
    /\ UNCHANGED <<coordVars, lastDeck, sessionVars, taskVars, play, call, otherVars>>

\* disconnect_guild: the session leaves the map first,
BeginDisconnect ==
    /\ dpc = "idle"
    /\ disconnects < MaxDisconnects
    /\ disconnects' = disconnects + 1
    /\ dsession' = current
    /\ current' = NoSession
    /\ dpc' = IF current = NoSession THEN "leave" ELSE "clear"
    /\ UNCHANGED <<lastSession, lastDeck, sessionVars, taskVars, play, runtimeVars,
                   worker, userOps>>

\* then is emptied under the playback lock, its decks are stopped and its
\* waiting tasks answered,
ClearSession ==
    LET s == dsession IN
    /\ dpc = "clear"
    /\ player' = [player EXCEPT ![s] = ClearPlayer(@)]
    /\ active' = [active EXCEPT ![s] = NoDeck]
    /\ currentId' = [currentId EXCEPT ![s] = NoDeck]
    /\ End(ActiveDeck(s))
    /\ DrainPending(s)
    /\ Complete(Owners(s, pending[s]), "SessionExpired")
    /\ dpc' = "leave"
    /\ UNCHANGED <<coordVars, lastDeck, operation, pc, session, outcome, play, call,
                   worker, dsession, disconnects, userOps>>

\* and at last the guild's call is removed, with every deck in it.
LeaveCall ==
    /\ dpc = "leave"
    /\ call' = FALSE
    /\ decks' = {}
    /\ dpc' = "idle"
    /\ UNCHANGED <<coordVars, lastDeck, sessionVars, taskVars, play, events,
                   worker, dsession, disconnects, userOps>>

-----------------------------------------------------------------------------
Init ==
    /\ current = NoSession
    /\ lastSession = 0
    /\ lastDeck = 0
    /\ operation = [s \in Sessions |-> Free]
    /\ order = [s \in Sessions |-> <<>>]
    /\ pending = [s \in Sessions |-> {}]
    /\ ready = [s \in Sessions |-> {}]
    /\ cancelled = [s \in Sessions |-> {}]
    /\ nextCommit = [s \in Sessions |-> 1]
    /\ player = [s \in Sessions |-> EmptyPlayer]
    /\ active = [s \in Sessions |-> NoDeck]
    /\ currentId = [s \in Sessions |-> NoDeck]
    /\ pc = [r \in Requests |-> "idle"]
    /\ session = [r \in Requests |-> NoSession]
    /\ outcome = [r \in Requests |-> "none"]
    /\ reply = [r \in Requests |-> "none"]
    /\ play = [h \in Holders |-> NoPlay]
    /\ call = FALSE
    /\ decks = {}
    /\ events = {}
    /\ worker = IdleWorker
    /\ dpc = "idle"
    /\ dsession = NoSession
    /\ disconnects = 0
    /\ userOps = 0

Flush(r) == \/ WaitForEarlier(r) \/ FailNext(r) \/ CommitNext(r)
            \/ StartedCurrent(r) \/ StartFailed(r) \/ StartExpired(r)

WorkerStep == \/ TakeEvent \/ AdvanceLocked \/ Advance
              \/ AdvanceStarted \/ AdvanceFailed \/ AdvanceExpired

Disconnect == BeginDisconnect \/ ClearSession \/ LeaveCall

Next ==
    \/ \E r \in Requests : \/ Join(r) \/ GetOrCreateSession(r) \/ Reserve(r) \/ Resolve(r)
                           \/ FinishEnqueue(r) \/ Flush(r) \/ Cancel(r)
    \/ \E h \in Holders : Play(h)
    \/ WorkerStep
    \/ \E s \in Sessions : Skip(s) \/ ToggleMode(s)
    \/ DeckEnds
    \/ Disconnect

Spec == Init /\ [][Next]_vars

\* A task that can run does; the lock serves its waiters in turn (tokio's
\* mutex is fair), so an acquisition that is enabled again and again happens.
Fairness ==
    /\ \A r \in Requests :
         /\ WF_vars(GetOrCreateSession(r) \/ Resolve(r) \/ Flush(r))
         /\ SF_vars(Reserve(r))
         /\ SF_vars(FinishEnqueue(r))
    /\ \A h \in Holders : WF_vars(Play(h))
    /\ WF_vars(TakeEvent \/ Advance \/ AdvanceStarted \/ AdvanceFailed \/ AdvanceExpired)
    /\ SF_vars(AdvanceLocked)
    /\ WF_vars(ClearSession \/ LeaveCall)

FairSpec == Spec /\ Fairness

-----------------------------------------------------------------------------
Steps == {"none", "check", "prepare", "play", "refresh", "started", "ok", "expired", "failed"}
TaskStates == {"idle", "joined", "reserving", "resolving", "resolved", "flushing",
               "starting", "waiting", "dropped"}

CoordType == /\ current \in 0..MaxSessions
             /\ lastSession \in 0..MaxSessions
PendingType == /\ order \in [Sessions -> Seq(Requests)]
               /\ pending \in [Sessions -> SUBSET Nat]
               /\ ready \in [Sessions -> SUBSET Nat]
               /\ cancelled \in [Sessions -> SUBSET Nat]
               /\ nextCommit \in [Sessions -> Nat \ {0}]
PlayerType == /\ player \in [Sessions -> Players]
              /\ \A s \in Sessions : WellFormed(player[s])
DeckType == /\ active \in [Sessions -> Nat]
            /\ currentId \in [Sessions -> Nat]
TaskType == /\ pc \in [Requests -> TaskStates]
            /\ session \in [Requests -> 0..MaxSessions]
            /\ outcome \in [Requests -> {"none", "ok", "err"}]
            /\ reply \in [Requests -> Replies]
Plays == [step : Steps, id : Nat, track : Tracks \cup {NoTrack}, retried : BOOLEAN]
Decks == [id : Nat, session : 0..MaxSessions]
RuntimeType == /\ call \in BOOLEAN
               /\ decks \subseteq Decks
               /\ events \subseteq Decks
Workers == [pc : {"idle", "locking", "advance", "starting"}, event : Decks, expected : Nat]
OtherType == /\ worker \in Workers
             /\ dpc \in {"idle", "clear", "leave"}
             /\ dsession \in 0..MaxSessions
             /\ disconnects \in Nat
             /\ userOps \in Nat

\* Every variable has the type its Rust field has, and every player is well formed.
TypeOK ==
    /\ CoordType
    /\ lastDeck \in Nat
    /\ operation \in [Sessions -> Holders \cup {Free}]
    /\ PendingType
    /\ PlayerType
    /\ DeckType
    /\ TaskType
    /\ play \in [Holders -> Plays]
    /\ RuntimeType
    /\ OtherType

\* next_commit_seq is exact: nothing still reserved or withdrawn lies behind it,
\* and in the live session every sequence ahead of it is one of the two, so the
\* prefix flush can never wait for a sequence that nobody owns.
CommitCursor ==
    \A s \in Sessions :
        /\ pending[s] \cup cancelled[s] \subseteq nextCommit[s]..Len(order[s])
        /\ pending[s] \cap cancelled[s] = {}
        /\ current = s => nextCommit[s]..Len(order[s]) \subseteq pending[s] \cup cancelled[s]

\* Reservations check the queue and the pending count separately, so the queue
\* may pass MAX_QUEUE_LEN by the enqueues in flight, and by no more.
QueueBound ==
    \A s \in Sessions :
        /\ Cardinality(pending[s]) <= MaxPendingEnqueues
        /\ Len(player[s].queue) + Cardinality(pending[s])
              < MaxQueueLen + MaxPendingEnqueues

\* A session never plays two tracks at once: a second deck is started only
\* after the first one is stopped or has ended.
AtMostOneDeck == \A s \in Sessions : Cardinality({d \in decks : d.session = s}) <= 1

BeingStarted(d) ==
    \E h \in Holders : /\ play[h].id = d.id
                       /\ play[h].step \in {"started", "ok"}

\* disconnect_guild races with play_request without a lock, and still leaves no
\* deck behind: once it is over, each deck that plays is the active deck of the
\* current session or is about to be checked by the task that started it.
NoOrphanDeck ==
    dpc = "idle" =>
        \A d \in decks : \/ d.session = current /\ active[current] = d.id
                         \/ BeingStarted(d)

\* Until its call is left, a guild with a current track plays it, is starting it,
\* or has its end event still to handle: it is never silent for good.
NeverSilent ==
    disconnects = 0 /\ current # NoSession /\ player[current].current # NoTrack =>
        LET id == currentId[current] IN
        \/ id # NoDeck /\ Deck(id, current) \in decks \cup events \cup {worker.event}
        \/ operation[current] # Free /\ play[operation[current]].step # "none"

\* The end of the current deck is always followed by another deck or by the end
\* of the queue, also when the end was caused by skip, unless the guild is disconnected.
EndedDeckIsReplaced ==
    \A id \in 1..MaxDecks + MaxUserOps + Cardinality(Requests) :
        (current # NoSession /\ currentId[current] = id /\ Deck(id, current) \in events)
            ~> (disconnects > 0 \/ (current # NoSession /\ currentId[current] # id))

\* Every /play call that reserved its place is answered: the failure of another
\* call, a full queue or a replaced session may not leave it waiting.
EveryCallAnswered ==
    \A r \in Requests :
        pc[r] = "resolving" ~> (reply[r] # "none" \/ pc[r] = "dropped")

\* A cancelled reservation does not hold up the requests behind it: one that has
\* published its outcome is answered.
CancelledReservationReleases ==
    \A r \in Requests :
        pc[r] = "waiting" ~> (reply[r] # "none" \/ pc[r] = "dropped")

\* The pipeline implements ticket order as OrderedCommit states it.  A request
\* is open while its sequence is pending, starting while play_request runs for
\* it, and otherwise what its caller was answered.
Fate(r) ==
    IF session[r] = NoSession \/ r \notin ToSet(order[session[r]]) THEN "none"
    ELSE IF reply[r] \in {"queued", "now_playing"} THEN "accepted"
    ELSE IF reply[r] \in Errors THEN "rejected"
    ELSE IF \E h \in Requests : play[h].track = r THEN "starting"
    ELSE IF Mine(r) # {} THEN "open"
    ELSE "withdrawn"

TicketOrder == INSTANCE OrderedCommit WITH
                   line <- order,
                   fate <- [r \in Requests |-> Fate(r)],
                   closed <- {s \in 1..lastSession : s # current}

\* Every step of the pipeline is a step of OrderedCommit or changes none of its
\* variables.
CommitsInTicketOrder == TicketOrder!Spec
=============================================================================
