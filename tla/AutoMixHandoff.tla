--------------------------- MODULE AutoMixHandoff ---------------------------
(***************************************************************************)
(* The AutoMix side of PlaybackCoordinator (wotoha-voice/src/playback.rs)  *)
(* for one guild session: the event worker prefetches the next track on a  *)
(* paused deck, promotes it when the transition is due, started or failed  *)
(* on the mixer clock, or when the outgoing deck simply ends; a rearm task *)
(* does the same after AutoMix is switched on or an analysis completes;    *)
(* users skip, toggle modes and enqueue meanwhile.                         *)
(*                                                                         *)
(* The decks are the runtime's (wotoha-runtime/src/songbird.rs): each has  *)
(* a playback id, reports its end exactly once, and may carry an armed     *)
(* start of another deck.  A deck and its playback id differ: a fallback   *)
(* deck is prepared under the id of the deck it replaces.                  *)
(*                                                                         *)
(* Positions, analyses, gains and equalizers are left out: where the code  *)
(* compares a position with a window the model allows both answers.        *)
(***************************************************************************)
EXTENDS GuildPlayerState

Worker == "worker"
CONSTANTS FirstTrack,    \* what plays at first
          Rearmers,      \* the rearm tasks
          Scenarios,     \* what a behaviour may meet, see below
          MaxDecks       \* the largest .ends of a scenario

\* A scenario: the queue at first, the transition kinds the planner may choose,
\* whether an arm may be rejected, late or failed at will (arm), whether a source
\* or a deck may fail to be prepared (prepare), how many rearm tasks are spawned
\* and how many skips, toggles and disconnects the users ask for, and after how
\* many decks none ends by itself any more (ends).
ASSUME HandoffAssumption ==
    /\ FirstTrack \in Tracks
    /\ Worker \notin Rearmers
    /\ MaxDecks \in Nat
    /\ \A s \in Scenarios :
         /\ s.queue \in Seq(Tracks)
         /\ s.kinds \subseteq {"crossfade", "gapless", "beatmatched"}
         /\ {s.arm, s.prepare} \subseteq BOOLEAN
         /\ {s.rearms, s.skips, s.toggles, s.disconnects} \subseteq Nat
         /\ s.ends \in 0..MaxDecks

Tasks == Rearmers \cup {Worker}
None == 0       \* no playback id, no deck, no generation

VARIABLES
    scenario,  \* fixed for the behaviour
    playback,  \* PlaybackRuntime, as far as handoffs use it
    task,      \* the handler each task is running
    fades,     \* the fade tasks: the deck they stop and its playback id
    decks,     \* the runtime's decks, in order of creation
    inbox,     \* the guild's runtime events, in order
    live,      \* is the session in the coordinator's map?
    call,      \* does the guild have a songbird call?
    dpc,       \* disconnect_guild
    rearms, skips, toggles, disconnects \* how much of each budget is used

budgets == <<rearms, skips, toggles, disconnects>>
sessionVars == <<scenario, live, call, dpc>>
vars == <<playback, task, fades, decks, inbox, sessionVars, budgets>>

-----------------------------------------------------------------------------
(* Decks.                                                                  *)

NoArm == [incoming |-> None, gen |-> None]

NewDeck(id, track, state) ==
    [id |-> id, track |-> track, state |-> state, timers |-> 0, slot |-> NoArm]

NextDeck == Len(decks) + 1

\* The decks and one more.  (Not Append: TLC computes it wrongly for a function
\* literal that EXCEPT has changed.)
With(new) == [d \in 1..NextDeck |-> IF d = NextDeck THEN new ELSE decks[d]]

Alive(d) == d \in DOMAIN decks /\ decks[d].state \in {"paused", "playing"}
Audible(d) == d \in DOMAIN decks /\ decks[d].state = "playing"

\* SongbirdTrackHandle::stop, for every deck of D: the deck gives up its armed
\* start and will report its end.
Stopped(ds, D) ==
    [d \in DOMAIN ds |->
        IF d \in D /\ ds[d].state \in {"paused", "playing"}
        THEN [ds[d] EXCEPT !.state = "stopped", !.slot = NoArm] ELSE ds[d]]

Resumed(ds, d) ==
    IF ds[d].state = "paused" THEN [ds EXCEPT ![d].state = "playing"] ELSE ds

Event(kind, id, incoming, gen) ==
    [kind |-> kind, id |-> id, incoming |-> incoming, gen |-> gen]
Emit(e) == inbox' = Append(inbox, e)

-----------------------------------------------------------------------------
(* The playback record and the values of its fields.                       *)

NoPrepared == [origin |-> None, next |-> NoTrack, id |-> None, deck |-> None,
               kind |-> "none", armed |-> FALSE, gen |-> None, started |-> FALSE]
NoRetiring == [id |-> None, deck |-> None]

HasPrepared(p) == p.prepared # NoPrepared

BugKeepsToken(p) ==
    [p EXCEPT !.gen = @ + 1, !.due = None, !.rearm = None, !.prepared = NoPrepared]
BugKeepsDeck(p) == [p EXCEPT !.gen = @ + 1, !.replacing = None, !.due = None, !.rearm = None]

\* invalidate_prepared_transition; the caller stops the deck it gave up.
Invalidate(p) ==
    [p EXCEPT !.gen = @ + 1, !.replacing = None, !.due = None, !.rearm = None,
              !.prepared = NoPrepared]

BugForgetsOutgoing(p, player, origin) ==
    [p EXCEPT !.active = p.prepared.deck, !.player = ReplaceCurrent(player, p.prepared.next),
              !.current = p.prepared.id, !.due = None, !.prepared = NoPrepared]
BugKeepsTrack(p, player, origin) ==
    [p EXCEPT !.active = p.prepared.deck, !.retiring = [id |-> origin, deck |-> p.active],
              !.current = p.prepared.id, !.due = None, !.prepared = NoPrepared]
BugKeepsId(p, player, origin) ==
    [p EXCEPT !.active = p.prepared.deck, !.retiring = [id |-> origin, deck |-> p.active],
              !.player = ReplaceCurrent(player, p.prepared.next),
              !.due = None, !.prepared = NoPrepared]

\* The prepared deck becomes the active one and its track the current one.
Promote(p, player, origin) ==
    [p EXCEPT !.active = p.prepared.deck,
              !.retiring = [id |-> origin, deck |-> p.active],
              !.player = ReplaceCurrent(player, p.prepared.next),
              !.current = p.prepared.id,
              !.due = None,
              !.prepared = NoPrepared]

BugCutsNothing(p) == {}

\* A promotion cuts the deck that an earlier crossfade is still fading out.
CutShort(p) == {p.retiring.deck}

BugForgetsActive(p, id) ==
    IF p.retiring.id = p.current THEN [p EXCEPT !.retiring = NoRetiring] ELSE p

\* The outgoing deck of this handoff is over.
ForgetRetiring(p, id) ==
    IF p.retiring.id = id THEN [p EXCEPT !.retiring = NoRetiring] ELSE p

Idle == [pc |-> "idle", id |-> None, gen |-> None, next |-> NoTrack, deck |-> None,
         incoming |-> None, kind |-> "none", armed |-> FALSE]

Goto(h, pc) == task' = [task EXCEPT ![h].pc = pc]
Finish(h) == task' = [task EXCEPT ![h] = Idle]

\* prefetch_transition returns to the worker's loop or to the rearm task.
Return(h) ==
    IF h = Worker THEN Finish(h)
    ELSE task' = [task EXCEPT ![h] = [Idle EXCEPT !.pc = "rearmed", !.id = task[h].id]]

\* Only the worker holds the operation lock across an await, while it starts
\* the next track; every other critical section is one action.
OperationFree == task[Worker].pc # "starting"

-----------------------------------------------------------------------------
(* prefetch_transition, by the worker or a rearm task.                     *)

PrefetchBegin(h) ==
    LET p == playback IN
    /\ task[h].pc = "prefetch"
    /\ OperationFree
    /\ IF /\ live
          /\ p.current = task[h].id
          /\ p.automix
          /\ p.due # task[h].id
          /\ p.replacing = None
          /\ PeekNextTrack(p.player) # NoTrack
       THEN /\ playback' = [p EXCEPT !.gen = @ + 1]
            /\ task' = [task EXCEPT ![h].pc = "preparing", ![h].gen = p.gen + 1,
                                    ![h].next = PeekNextTrack(p.player)]
       ELSE Return(h) /\ UNCHANGED playback
    /\ UNCHANGED <<fades, decks, inbox, sessionVars, budgets>>

\* Nothing the prefetch rests on changed while it waited.
StillWanted(h) ==
    /\ live
    /\ playback.current = task[h].id
    /\ playback.gen = task[h].gen
    /\ playback.due # task[h].id
    /\ playback.automix

SourcePrepared(h) ==
    /\ task[h].pc = "preparing"
    /\ IF StillWanted(h) THEN Goto(h, "planning") ELSE Return(h)
    /\ UNCHANGED <<playback, fades, decks, inbox, sessionVars, budgets>>

\* A deck under a new playback id; BeatMatched only for an outgoing deck whose
\* handle is still there to schedule on.
PrepareIncoming(h) ==
    /\ task[h].pc = "planning"
    /\ call
    /\ \E kind \in scenario.kinds :
         /\ kind = "beatmatched" => playback.active # None
         /\ decks' = With(NewDeck(NextDeck, task[h].next, "paused"))
         /\ task' = [task EXCEPT ![h].pc = IF kind = "beatmatched" THEN "arming" ELSE "install",
                                 ![h].kind = kind, ![h].deck = NextDeck,
                                 ![h].incoming = NextDeck]
    /\ UNCHANGED <<playback, fades, inbox, sessionVars, budgets>>

\* The source, the deck or the fallback deck cannot be had.
PrefetchFails(h) ==
    /\ task[h].pc \in {"preparing", "planning", "refit"}
    /\ scenario.prepare \/ ~call
    /\ Return(h)
    /\ UNCHANGED <<playback, fades, decks, inbox, sessionVars, budgets>>

\* arm_transition on the deck that plays under the origin's playback id.
Armable(h) ==
    \E d \in DOMAIN decks : /\ decks[d].id = task[h].id
                            /\ decks[d].state = "playing"
                            /\ decks[d].slot = NoArm
                            /\ Alive(task[h].deck)

ArmAccepted(h) ==
    /\ task[h].pc = "arming"
    /\ Armable(h)
    /\ decks' = [d \in DOMAIN decks |->
                   IF decks[d].id = task[h].id /\ decks[d].state = "playing"
                   THEN [decks[d] EXCEPT !.slot = [incoming |-> task[h].deck,
                                                   gen |-> task[h].gen]]
                   ELSE decks[d]]
    /\ task' = [task EXCEPT ![h].pc = "install", ![h].armed = TRUE]
    /\ UNCHANGED <<playback, fades, inbox, sessionVars, budgets>>

\* The arm is refused: the deck is stopped and a native-tempo one prepared,
\* under the same playback id.
ArmRejected(h) ==
    /\ task[h].pc = "arming"
    /\ scenario.arm \/ ~Armable(h)
    /\ decks' = Stopped(decks, {task[h].deck})
    /\ Goto(h, "refit")
    /\ UNCHANGED <<playback, fades, inbox, sessionVars, budgets>>

PrepareFallback(h) ==
    /\ task[h].pc = "refit"
    /\ call
    /\ decks' = With(NewDeck(task[h].incoming, task[h].next, "paused"))
    /\ task' = [task EXCEPT ![h].pc = "install", ![h].deck = NextDeck, ![h].kind = "crossfade"]
    /\ UNCHANGED <<playback, fades, inbox, sessionVars, budgets>>

\* The last check before the deck is published; a deck too late is stopped.
InstallPrepared(h) ==
    LET p == playback
        t == task[h]
        valid == StillWanted(h) /\ PeekNextTrack(p.player) = t.next
    IN
    /\ t.pc = "install"
    /\ OperationFree
    /\ playback' = IF valid
                   THEN [p EXCEPT !.prepared =
                           [origin |-> t.id, next |-> t.next, id |-> t.incoming,
                            deck |-> t.deck, kind |-> t.kind, armed |-> t.armed,
                            gen |-> IF t.armed THEN t.gen ELSE None, started |-> FALSE]]
                   ELSE p
    /\ decks' = Stopped(decks, {IF valid THEN p.prepared.deck ELSE t.deck})
    /\ Return(h)
    /\ UNCHANGED <<fades, inbox, sessionVars, budgets>>

-----------------------------------------------------------------------------
(* transition, by the worker or a rearm task.                              *)

TransitionBegin(h) ==
    LET p == playback
        id == task[h].id
        allowed == /\ live
                   /\ p.current = id
                   /\ p.automix
                   /\ p.replacing = None
                   /\ ~(p.rearm = id /\ ~HasPrepared(p))
        ready == p.active # None /\ HasPrepared(p) /\ p.prepared.origin = id
    IN
    /\ task[h].pc = "transition"
    /\ OperationFree
    /\ playback' = IF ~allowed THEN p
                   ELSE [p EXCEPT !.gen = @ + 1, !.due = IF ready THEN id ELSE @]
    /\ IF allowed /\ ready
       THEN task' = [task EXCEPT ![h].pc = IF p.prepared.armed THEN "checking" ELSE "sleeping",
                                 ![h].deck = p.active]
       ELSE Finish(h)
    /\ UNCHANGED <<fades, decks, inbox, sessionVars, budgets>>

\* An armed deck is promoted only when the outgoing deck still tells a position
\* and it has reached the target: not before the armed start fired or failed.
CheckTarget(h) ==
    /\ task[h].pc = "checking"
    /\ \/ /\ Audible(task[h].deck)
          /\ decks[task[h].deck].slot = NoArm
          /\ Goto(h, "sleeping")
       \/ Finish(h)
    /\ UNCHANGED <<playback, fades, decks, inbox, sessionVars, budgets>>

TransitionDropped(h, p) ==
    /\ playback' = [p EXCEPT !.prepared = NoPrepared]
    /\ decks' = Stopped(decks, {p.prepared.deck})
    /\ UNCHANGED fades

\* The handoff at the end of the delay.
TransitionWake(h) ==
    LET p == playback
        id == task[h].id
        in == p.prepared
        valid == live /\ p.current = id /\ p.automix /\ p.due = id
    IN
    /\ task[h].pc = "sleeping"
    /\ OperationFree
    /\ IF ~valid \/ in.origin # id \/ PeekNextTrack(p.player) # in.next
       THEN TransitionDropped(h, p)
       ELSE IF p.active = None
       THEN /\ playback' = [p EXCEPT !.prepared = NoPrepared, !.active = in.deck]
            /\ decks' = Stopped(decks, {in.deck})
            /\ UNCHANGED fades
       ELSE \E player \in PrepareNextTrack(p.player) :
              LET q == Promote(p, player, id)
                  quiet == Stopped(decks, CutShort(p))
              IN IF in.kind = "gapless"
                 THEN /\ playback' = ForgetRetiring(q, id)
                      /\ decks' = Resumed(Stopped(quiet, {p.active}), in.deck)
                      /\ UNCHANGED fades
                 ELSE /\ playback' = [q EXCEPT !.fade = id]
                      /\ decks' = IF in.armed \/ in.started THEN quiet
                                  ELSE Resumed(quiet, in.deck)
                      /\ fades' = fades \cup {[id |-> id, deck |-> p.active]}
    /\ Finish(h)
    /\ UNCHANGED <<inbox, sessionVars, budgets>>

\* The fade task ends: it stops the outgoing deck and, if the session is still
\* there, forgets it.
FadeEnds ==
    \E f \in fades :
        /\ fades' = fades \ {f}
        /\ decks' = Stopped(decks, {f.deck})
        /\ playback' = IF live THEN ForgetRetiring(playback, f.id) ELSE playback
        /\ UNCHANGED <<task, inbox, sessionVars, budgets>>

-----------------------------------------------------------------------------
(* transition_started and degrade_armed_transition, by the worker.         *)

ArmedFor(id, gen) ==
    /\ playback.current = id
    /\ HasPrepared(playback)
    /\ playback.prepared.origin = id
    /\ playback.prepared.gen = gen

TransitionStarted ==
    LET t == task[Worker] IN
    /\ t.pc = "confirm"
    /\ IF ArmedFor(t.id, t.gen) /\ playback.prepared.armed
       THEN Goto(Worker, "transition") ELSE Finish(Worker)
    /\ UNCHANGED <<playback, fades, decks, inbox, sessionVars, budgets>>

\* A deck that started late is audible and is promoted at once; any other
\* failure claims the arm, stops the deck and asks for a native one.
DegradeArmed ==
    LET t == task[Worker] p == playback IN
    /\ t.pc = "degrade"
    /\ IF ~(ArmedFor(t.id, t.gen) /\ p.automix /\ p.prepared.id = t.incoming)
       THEN Finish(Worker) /\ UNCHANGED <<playback, decks>>
       ELSE IF t.kind = "late"
       THEN /\ playback' = [p EXCEPT !.prepared.armed = FALSE, !.prepared.gen = None,
                                     !.prepared.started = TRUE]
            /\ Goto(Worker, "transition")
            /\ UNCHANGED decks
       ELSE /\ playback' = [p EXCEPT !.gen = @ + 1, !.replacing = p.gen + 1,
                                     !.prepared.armed = FALSE, !.prepared.gen = None,
                                     !.prepared.started = FALSE]
            /\ decks' = Stopped(decks, {p.prepared.deck})
            /\ task' = [task EXCEPT ![Worker].pc = "replacing", ![Worker].gen = p.gen + 1,
                                    ![Worker].next = p.prepared.next]
    /\ UNCHANGED <<fades, inbox, sessionVars, budgets>>

\* The replacement keeps the playback id of the deck it replaces.
ReplacementPrepared ==
    LET t == task[Worker] IN
    /\ t.pc = "replacing"
    /\ call
    /\ decks' = With(NewDeck(t.incoming, t.next, "paused"))
    /\ task' = [task EXCEPT ![Worker].pc = "replace", ![Worker].deck = NextDeck]
    /\ UNCHANGED <<playback, fades, inbox, sessionVars, budgets>>

\* clear_failed_prepared_transition
ReplacementFails ==
    LET t == task[Worker]
        p == playback
        mine == p.current = t.id /\ p.replacing = t.gen
    IN
    /\ t.pc = "replacing"
    /\ scenario.prepare \/ ~call
    /\ playback' = IF mine
                   THEN [p EXCEPT !.gen = @ + 1, !.replacing = None, !.due = None,
                                  !.prepared = NoPrepared]
                   ELSE p
    /\ decks' = IF mine THEN Stopped(decks, {p.prepared.deck}) ELSE decks
    /\ Finish(Worker)
    /\ UNCHANGED <<fades, inbox, sessionVars, budgets>>

InstallReplacement ==
    LET t == task[Worker]
        p == playback
        valid == /\ p.current = t.id
                 /\ p.automix
                 /\ p.prepared.origin = t.id
                 /\ p.prepared.id = t.incoming
                 /\ p.replacing = t.gen
    IN
    /\ t.pc = "replace"
    /\ IF valid
       THEN /\ playback' = [p EXCEPT !.prepared.deck = t.deck, !.prepared.kind = "crossfade",
                                     !.replacing = None]
            /\ Goto(Worker, "transition")
            /\ UNCHANGED decks
       ELSE /\ decks' = Stopped(decks, {t.deck})
            /\ Finish(Worker)
            /\ UNCHANGED playback
    /\ UNCHANGED <<fades, inbox, sessionVars, budgets>>

-----------------------------------------------------------------------------
(* advance, by the worker.                                                 *)

EndsPrepared(id) == HasPrepared(playback) /\ playback.prepared.id = id

\* The end of the prepared deck itself: it is given up.
AdvancePrepared(id) ==
    /\ EndsPrepared(id)
    /\ playback' = [playback EXCEPT !.gen = @ + 1, !.replacing = None, !.prepared = NoPrepared]
    /\ decks' = Stopped(decks, {playback.prepared.deck})
    /\ Finish(Worker)

\* The current deck ended before its transition: hand over to the prepared one.
HandsOver(id) ==
    LET p == playback IN
    /\ p.current = id
    /\ p.automix
    /\ HasPrepared(p)
    /\ p.prepared.origin = id
    /\ PeekNextTrack(p.player) = p.prepared.next

AdvanceHandoff(id) ==
    LET p == playback IN
    /\ HandsOver(id)
    /\ IF p.active = None
       THEN UNCHANGED <<playback, decks>>
       ELSE \E player \in PrepareNextTrack(p.player) :
              /\ playback' = [ForgetRetiring(Promote(p, player, id), id)
                               EXCEPT !.replacing = None]
              /\ decks' = Resumed(Stopped(decks, CutShort(p) \cup {p.active}),
                                  p.prepared.deck)
    /\ Finish(Worker)

\* The session's deck and prepared deck are given up and the next track is
\* started from its beginning.
TakeNextTrack ==
    LET p == playback IN
    /\ decks' = Stopped(decks, {p.prepared.deck})
    /\ \E player \in PrepareNextTrack(p.player) :
         /\ playback' = [Invalidate(p) EXCEPT !.active = None, !.current = None,
                                              !.player = player]
         /\ IF player.current = NoTrack THEN Finish(Worker)
            ELSE task' = [task EXCEPT ![Worker].pc = "starting",
                                      ![Worker].next = player.current]

BugAnyEndAdvances(expected) == TakeNextTrack

\* One round of the loop, for the deck that is expected to be current.
AdvanceLoop(expected) ==
    IF playback.current # expected
    THEN Finish(Worker) /\ UNCHANGED <<playback, decks>>
    ELSE TakeNextTrack

Advance ==
    LET id == task[Worker].id IN
    /\ task[Worker].pc = "advance"
    /\ IF ~live THEN Finish(Worker) /\ UNCHANGED <<playback, decks>>
       ELSE IF EndsPrepared(id) THEN AdvancePrepared(id)
       ELSE IF HandsOver(id) THEN AdvanceHandoff(id)
       ELSE AdvanceLoop(id)
    /\ UNCHANGED <<fades, inbox, sessionVars, budgets>>

\* play_request (EnqueuePipeline has its steps): a deck that plays, unless the
\* session is gone,
NextStarted ==
    LET t == task[Worker] IN
    /\ t.pc = "starting"
    /\ call
    /\ decks' = With(NewDeck(NextDeck, t.next, IF live THEN "playing" ELSE "stopped"))
    /\ playback' = IF live
                   THEN [playback EXCEPT !.player = ReplaceCurrent(@, t.next),
                                         !.current = NextDeck, !.active = NextDeck]
                   ELSE playback
    /\ Finish(Worker)
    /\ UNCHANGED <<fades, inbox, sessionVars, budgets>>

\* or an error, and the loop turns to the track after it.
NextFails ==
    LET t == task[Worker]
        p == [playback EXCEPT !.player = ClearCurrent(DisableLoop(@)), !.current = None]
    IN
    /\ t.pc = "starting"
    /\ \/ ~live /\ Finish(Worker) /\ UNCHANGED playback
       \/ (scenario.prepare \/ ~call) /\ playback' = p /\ Goto(Worker, "advancing")
    /\ UNCHANGED <<fades, decks, inbox, sessionVars, budgets>>

AdvanceAgain ==
    /\ task[Worker].pc = "advancing"
    /\ AdvanceLoop(None)
    /\ UNCHANGED <<fades, inbox, sessionVars, budgets>>

-----------------------------------------------------------------------------
(* The worker takes the next event; handlers of other sessions' events and *)
(* of decks that are not current return at their first check.              *)

HandlerOf(kind) ==
    CASE kind = "prefetch_due" -> "prefetch"
      [] kind = "transition_due" -> "transition"
      [] kind = "started" -> "confirm"
      [] kind \in {"late", "arm_failed"} -> "degrade"
      [] kind = "ended" -> "advance"

TakeEvent ==
    /\ task[Worker] = Idle
    /\ inbox # <<>>
    /\ LET e == Head(inbox) IN
         task' = [task EXCEPT ![Worker] =
                    [Idle EXCEPT !.pc = HandlerOf(e.kind), !.id = e.id, !.kind = e.kind,
                                 !.incoming = e.incoming, !.gen = e.gen]]
    /\ inbox' = Tail(inbox)
    /\ UNCHANGED <<playback, fades, decks, sessionVars, budgets>>

-----------------------------------------------------------------------------
(* rearm_current_automix, a task of its own.                               *)

RearmBegin(r) ==
    LET p == playback IN
    /\ task[r] = Idle
    /\ rearms < scenario.rearms
    /\ rearms' = rearms + 1
    /\ live
    /\ OperationFree
    /\ p.automix /\ p.rearm = None /\ p.current # None /\ p.active # None
    /\ task' = [task EXCEPT ![r] = [Idle EXCEPT !.pc = "positioned", !.id = p.current]]
    /\ UNCHANGED <<playback, fades, decks, inbox, sessionVars, skips, toggles, disconnects>>

\* The position was inside the transition window: claim the deck.
RearmClaim(r) ==
    LET p == playback id == task[r].id IN
    /\ task[r].pc = "positioned"
    /\ OperationFree
    /\ IF p.current = id /\ p.automix
       THEN /\ playback' = [p EXCEPT !.rearm = id,
                                     !.due = IF @ = id /\ ~HasPrepared(p) THEN None ELSE @]
            /\ Goto(r, "prefetch")
       ELSE Finish(r) /\ UNCHANGED playback
    /\ UNCHANGED <<fades, decks, inbox, sessionVars, budgets>>

RearmCheck(r) ==
    LET p == playback id == task[r].id IN
    /\ task[r].pc = "rearmed"
    /\ OperationFree
    /\ playback' = [p EXCEPT !.rearm = IF @ = id THEN None ELSE @]
    /\ IF p.current = id /\ p.automix /\ HasPrepared(p) /\ p.prepared.origin = id
       THEN Goto(r, "window") ELSE Finish(r)
    /\ UNCHANGED <<fades, decks, inbox, sessionVars, budgets>>

RearmTransition(r) ==
    /\ task[r].pc = "window"
    /\ Goto(r, "transition")
    /\ UNCHANGED <<playback, fades, decks, inbox, sessionVars, budgets>>

\* The position is outside the window, at the first look or at the second.
RearmOutside(r) ==
    LET p == playback IN
    /\ \/ task[r].pc = "positioned" /\ UNCHANGED <<playback, decks>>
       \/ /\ task[r].pc = "window"
          /\ OperationFree
          /\ IF p.current = task[r].id
             THEN /\ playback' = Invalidate(p)
                  /\ decks' = Stopped(decks, {p.prepared.deck})
             ELSE UNCHANGED <<playback, decks>>
    /\ Finish(r)
    /\ UNCHANGED <<fades, inbox, sessionVars, budgets>>

-----------------------------------------------------------------------------
(* User commands, under the operation lock.                                *)

\* enqueue behind a current track (the CommitQueued arm of the flush).
EnqueueTrack(t) ==
    LET p == playback IN
    /\ live /\ OperationFree
    /\ t \in scenario.adds
    /\ \A d \in DOMAIN decks : decks[d].track # t
    /\ t \notin ToSet(p.player.queue)
    /\ p.player.current # NoTrack
    /\ \E player \in Enqueue(p.player, t) : playback' = [p EXCEPT !.player = player]
    /\ UNCHANGED <<task, fades, decks, inbox, sessionVars, budgets>>

\* skip: every deck of the session is stopped, its fade aborted; the end event
\* of the active deck will advance the queue.
Skip ==
    LET p == playback IN
    /\ live /\ OperationFree
    /\ skips < scenario.skips
    /\ skips' = skips + 1
    /\ playback' = [Invalidate(p) EXCEPT !.player = DisableLoop(@), !.active = None,
                                         !.retiring = NoRetiring, !.fade = None]
    /\ fades' = {f \in fades : f.id # p.fade}
    /\ decks' = Stopped(decks, {p.active, p.retiring.deck, p.prepared.deck})
    /\ UNCHANGED <<task, inbox, sessionVars, rearms, toggles, disconnects>>

\* toggle_automix, toggle_loop and toggle_shuffle all give up the prepared deck.
ToggledModes(p) ==
    {[p EXCEPT !.automix = ~@,
               !.player = IF p.automix THEN @ ELSE DisableLoop(@)],
     [p EXCEPT !.automix = FALSE,
               !.player = ToggleLoop(IF p.automix THEN DisableLoop(@) ELSE @)]}
    \cup {[p EXCEPT !.player = player] : player \in ToggleShuffle(p.player)}

Toggle ==
    LET p == playback IN
    /\ live /\ OperationFree
    /\ toggles < scenario.toggles
    /\ toggles' = toggles + 1
    /\ \E q \in ToggledModes(p) : playback' = Invalidate(q)
    /\ decks' = Stopped(decks, {p.prepared.deck})
    /\ UNCHANGED <<task, fades, inbox, sessionVars, rearms, skips, disconnects>>

-----------------------------------------------------------------------------
(* disconnect_guild takes no operation lock.                               *)

BeginDisconnect ==
    /\ live
    /\ disconnects < scenario.disconnects
    /\ disconnects' = disconnects + 1
    /\ live' = FALSE
    /\ dpc' = "clear"
    /\ UNCHANGED <<scenario, playback, task, fades, decks, inbox, call, rearms, skips, toggles>>

ClearSession ==
    LET p == playback IN
    /\ dpc = "clear"
    /\ dpc' = "leave"
    /\ playback' = [Invalidate(p) EXCEPT !.player = ClearPlayer(@), !.active = None,
                                         !.retiring = NoRetiring, !.fade = None,
                                         !.current = None]
    /\ fades' = {f \in fades : f.id # p.fade}
    /\ decks' = Stopped(decks, {p.active, p.retiring.deck, p.prepared.deck})
    /\ UNCHANGED <<scenario, task, inbox, live, call, budgets>>

\* The call goes, and every deck in it, without end events.
LeaveCall ==
    /\ dpc = "leave"
    /\ dpc' = "idle"
    /\ call' = FALSE
    /\ decks' = [d \in DOMAIN decks |-> [decks[d] EXCEPT !.state = "gone", !.slot = NoArm]]
    /\ UNCHANGED <<scenario, playback, task, fades, inbox, live, budgets>>

-----------------------------------------------------------------------------
(* The runtime.                                                            *)

\* The deck's own clock reaches its prefetch mark, then its transition mark.
DeckTimer(d) ==
    /\ Audible(d)
    /\ decks[d].timers < 2
    /\ decks' = [decks EXCEPT ![d].timers = @ + 1]
    /\ Emit(Event(IF decks[d].timers = 0 THEN "prefetch_due" ELSE "transition_due",
                  decks[d].id, None, None))
    /\ UNCHANGED <<playback, task, fades, sessionVars, budgets>>

\* A deck ends or fails by itself, or the driver reports one that was stopped.
DeckEnded(d) ==
    /\ \/ Audible(d) /\ Len(decks) < scenario.ends
       \/ decks[d].state = "stopped"
    /\ decks' = [decks EXCEPT ![d].state = "gone", ![d].slot = NoArm]
    /\ Emit(Event("ended", decks[d].id, None, None))
    /\ UNCHANGED <<playback, task, fades, sessionVars, budgets>>

\* The armed start comes due on the outgoing deck's clock.
ArmFires(d) ==
    LET arm == decks[d].slot
        alive == Alive(arm.incoming)
        report(kind) == Emit(Event(kind, decks[d].id, decks[arm.incoming].id, arm.gen))
        spent == [decks EXCEPT ![d].slot = NoArm]
    IN
    /\ Audible(d)
    /\ arm # NoArm
    /\ \/ alive /\ decks' = Resumed(spent, arm.incoming) /\ report("started")
       \/ alive /\ scenario.arm /\ decks' = Resumed(spent, arm.incoming) /\ report("late")
       \/ (scenario.arm \/ ~alive) /\ decks' = spent /\ report("arm_failed")
       \* The queued start still runs after its failure was reported.
       \/ alive /\ scenario.arm /\ decks' = Resumed(spent, arm.incoming) /\ report("arm_failed")
    /\ UNCHANGED <<playback, task, fades, sessionVars, budgets>>

-----------------------------------------------------------------------------
Init ==
    /\ scenario \in Scenarios
    /\ playback = [player |-> [EmptyPlayer EXCEPT !.current = FirstTrack,
                                                  !.queue = scenario.queue],
                   automix |-> TRUE, current |-> 1, active |-> 1,
                   retiring |-> NoRetiring, prepared |-> NoPrepared,
                   gen |-> 0, replacing |-> None, due |-> None, rearm |-> None,
                   fade |-> None]
    /\ task = [h \in Tasks |-> Idle]
    /\ fades = {}
    /\ decks = <<NewDeck(1, FirstTrack, "playing")>>
    /\ inbox = <<>>
    /\ live = TRUE
    /\ call = TRUE
    /\ dpc = "idle"
    /\ rearms = 0
    /\ skips = 0
    /\ toggles = 0
    /\ disconnects = 0

Prefetch(h) == \/ PrefetchBegin(h) \/ SourcePrepared(h) \/ PrepareIncoming(h)
               \/ PrefetchFails(h) \/ ArmAccepted(h) \/ ArmRejected(h)
               \/ PrepareFallback(h) \/ InstallPrepared(h)

Transition(h) == TransitionBegin(h) \/ CheckTarget(h) \/ TransitionWake(h)

WorkerOnly == \/ TakeEvent \/ TransitionStarted \/ DegradeArmed
              \/ ReplacementPrepared \/ ReplacementFails \/ InstallReplacement
              \/ Advance \/ NextStarted \/ NextFails \/ AdvanceAgain

RearmStep(r) == RearmClaim(r) \/ RearmCheck(r) \/ RearmTransition(r) \/ RearmOutside(r)

Commands == Skip \/ Toggle \/ \E t \in Tracks : EnqueueTrack(t)

Next ==
    \/ \E h \in Tasks : Prefetch(h) \/ Transition(h)
    \/ WorkerOnly
    \/ \E r \in Rearmers : RearmBegin(r) \/ RearmStep(r)
    \/ FadeEnds
    \/ Commands
    \/ BeginDisconnect \/ ClearSession \/ LeaveCall
    \/ \E d \in DOMAIN decks : DeckTimer(d) \/ DeckEnded(d) \/ ArmFires(d)

Spec == Init /\ [][Next]_vars

\* The coordinator's tasks and the driver run; users, timers and natural ends
\* owe nothing.
Fairness ==
    /\ WF_vars(WorkerOnly \/ Prefetch(Worker) \/ Transition(Worker))
    /\ \A r \in Rearmers : WF_vars(Prefetch(r) \/ Transition(r) \/ RearmStep(r))
    /\ WF_vars(FadeEnds)
    /\ WF_vars(ClearSession \/ LeaveCall)
    /\ WF_vars(\E d \in DOMAIN decks : decks[d].state = "stopped" /\ DeckEnded(d))

FairSpec == Spec /\ Fairness

-----------------------------------------------------------------------------
DeckStates == {"paused", "playing", "stopped", "gone"}
Steps == {"idle", "prefetch", "preparing", "planning", "arming", "refit", "install",
          "transition", "checking", "sleeping", "confirm", "degrade", "replacing", "replace",
          "advance", "starting", "advancing", "positioned", "rearmed", "window"}
AnyTrack == Tracks \cup {NoTrack}
TransitionKinds == {"crossfade", "gapless", "beatmatched"}
Kinds == TransitionKinds \cup {"none"}
EventKinds == {"prefetch_due", "transition_due", "started", "late", "arm_failed", "ended"}

\* Every variable has the type its Rust field has, and the logical queue is
\* well formed between the handlers that share it.
TypeOK ==
    /\ scenario \in Scenarios
    /\ playback.player \in Players /\ WellFormed(playback.player)
    /\ playback.automix \in BOOLEAN
    /\ {playback.current, playback.active, playback.gen, playback.replacing,
        playback.due, playback.rearm, playback.fade} \subseteq Nat
    /\ playback.retiring \in [id : Nat, deck : Nat]
    /\ playback.prepared \in [origin : Nat, next : AnyTrack, id : Nat, deck : Nat,
                              kind : Kinds, armed : BOOLEAN, gen : Nat, started : BOOLEAN]
    /\ task \in [Tasks -> [pc : Steps, id : Nat, gen : Nat, next : AnyTrack, deck : Nat,
                           incoming : Nat, kind : Kinds \cup EventKinds, armed : BOOLEAN]]
    /\ fades \subseteq [id : Nat, deck : Nat]
    /\ decks \in Seq([id : Nat, track : Tracks, state : DeckStates, timers : 0..2,
                      slot : [incoming : Nat, gen : Nat]])
    /\ inbox \in Seq([kind : EventKinds, id : Nat, incoming : Nat, gen : Nat])
    /\ {live, call} \subseteq BOOLEAN
    /\ dpc \in {"idle", "clear", "leave"}
    /\ budgets \in Nat \X Nat \X Nat \X Nat

\* The prepared deck is always the answer to the current question: it was
\* prepared for the track that plays now and holds the track that the queue
\* would give next.  Every command that changes either gives the deck up.
PreparedIsNext ==
    HasPrepared(playback) =>
        /\ playback.prepared.origin = playback.current
        /\ playback.prepared.next = PeekNextTrack(playback.player)
        /\ decks[playback.prepared.deck].track = playback.prepared.next

\* What the panel shows is what is heard: the active deck holds the current
\* track, through promotions, natural ends and failed starts.
ActiveIsCurrent ==
    playback.active # None => decks[playback.active].track = playback.player.current

\* The decks that somebody will stop: the session's three, the ones in the
\* hands of a task and the ones being faded out.
OwnedDecks ==
    {playback.active, playback.retiring.deck, playback.prepared.deck}
    \cup {task[h].deck : h \in {g \in Tasks :
              task[g].pc \in {"arming", "install", "replace"}}}
    \cup {f.deck : f \in fades}

\* No two decks share a playback id.  A fallback deck takes the id of the deck it
\* replaces (AnyStaleEndIgnored is violated then: run handoff_reused_id).
FreshIds == \A d, e \in DOMAIN decks : decks[d].id = decks[e].id => d = e

\* No deck is leaked: each that is paused or playing has an owner, whatever
\* toggles, skips and late prefetches do.
EveryDeckOwned == FreshIds => \A d \in DOMAIN decks : Alive(d) => d \in OwnedDecks

\* At most two decks are heard at once: before a third sounds the older of a
\* crossfade is cut.  An armed start sounds before it is promoted, so a third
\* deck is heard for a moment when it fires inside an earlier crossfade.
TwoDecksHeard ==
    "beatmatched" \notin scenario.kinds =>
        Cardinality({d \in DOMAIN decks : Audible(d)}) <= 2

\* The session plays its current track, or the end of its deck is still to be
\* reported or handled.
NeverSilent ==
    live /\ playback.current # None =>
        \/ \E d \in DOMAIN decks : /\ decks[d].id = playback.current
                                   /\ decks[d].state \in {"playing", "stopped"}
        \/ \E i \in DOMAIN inbox : inbox[i].kind = "ended" /\ inbox[i].id = playback.current
        \/ task[Worker].pc = "advance" /\ task[Worker].id = playback.current

\* fallback_replacement_generation, which keeps every transition away, is held
\* only while the worker is replacing the deck it names: it is given back on
\* every way out, so it cannot block the session's transitions for good.  (A rearm
\* task that sleeps in transition may promote the deck meanwhile, playback.rs:2573:
\* then the worker finds another current track and keeps the token.)
ReplacementInHand ==
    playback.replacing # None /\ (scenario.rearms = 0 \/ "beatmatched" \notin scenario.kinds)
        => /\ task[Worker].pc \in {"replacing", "replace"}
           /\ task[Worker].gen = playback.replacing

\* While the active deck plays on, advance neither replaces the current track nor
\* takes one off the queue.
AdvanceSpares ==
    task[Worker].pc = "advance" /\ task'[Worker].pc # "advance" /\ Audible(playback.active)
        => UNCHANGED playback.player

\* A stale end event changes nothing that is heard, as long as playback ids are
\* not reused,
StaleEndIgnored == [][FreshIds => AdvanceSpares]_vars

\* and, as advance takes for granted, whatever the ids are.
AnyStaleEndIgnored == [][AdvanceSpares]_vars

\* A crossfade ends: the outgoing deck is stopped and forgotten, so the session
\* is not left holding two decks.
RetiringIsReleased ==
    \A id \in 1..MaxDecks : playback.retiring.id = id ~> playback.retiring.id # id
=============================================================================
