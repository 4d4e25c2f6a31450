--------------------------- MODULE EventDelivery ---------------------------
(***************************************************************************)
(* The way of a runtime event from a callback of the voice driver to        *)
(* PlaybackCoordinator::handle_runtime_event.  RuntimeEventSink::send puts  *)
(* it into the ingress mailbox; one router task takes it out and puts it    *)
(* into the mailbox of its guild's worker, which it spawns if there is      *)
(* none; the worker takes a global permit, runs the handler, and retires    *)
(* after a VoiceDisconnected.                                               *)
(*                                                                          *)
(* Both mailboxes are a bounded channel with a bounded list beside it for   *)
(* critical events, in which an event of an identity that is already there  *)
(* is dropped, and a Notify that wakes the consumer.  What the handler does *)
(* is the subject of the other modules: here it starts and ends.            *)
(***************************************************************************)
EXTENDS Naturals, FiniteSets, Sequences

CONSTANTS
  Guilds,
  Events,             \* records [guild, kind, about]: about stands for the ids in an event
  IngressCapacity,    \* RUNTIME_EVENT_INGRESS_CAPACITY
  SpillCapacity,      \* RUNTIME_CRITICAL_OVERFLOW_CAPACITY
  QueueCapacity,      \* PER_GUILD_EVENT_QUEUE
  OverflowCapacity,   \* MAX_CRITICAL_EVENT_OVERFLOW
  Permits,            \* GLOBAL_EVENT_CONCURRENCY
  MaxSends,           \* bound: events sent
  MaxWorkers,         \* bound: workers spawned
  MaxPanics           \* bound: workers whose handler panics

CriticalKinds == {"TrackEnded", "TransitionDue", "TransitionStarted",
                  "TransitionArmFailed", "TrackErrored", "VoiceDisconnected"}
Kinds == CriticalKinds \cup {"TrackStarted", "TransitionPrefetchDue"}

ASSUME EventsAssumption ==
  /\ \A e \in Events : e.guild \in Guilds /\ e.kind \in Kinds
  /\ {IngressCapacity, SpillCapacity, QueueCapacity, OverflowCapacity,
      Permits, MaxSends, MaxWorkers, MaxPanics} \subseteq Nat

Router  == 0
Workers == 1..MaxWorkers
Tasks   == {Router} \cup Workers

VARIABLES
  mailbox,     \* of each task: the channel and the overflow list it consumes
  phase,       \* of each task: the await or the step it is at
  holding,     \* of each task: the event it has taken out, in a sequence
  serves,      \* of each worker: its guild, in a set; empty before it is spawned
  entry,       \* event_workers: of each guild the worker in the map, in a set
  target,      \* the worker the router has looked up for the event it holds
  permits,     \* event_concurrency
  sends,
  spilling,    \* critical events whose send has found the ingress channel full
  panics,
  owed,        \* identities of critical events accepted and not handled since
  warned,      \* guilds for which a critical event was reported as dropped
  bounced      \* of each worker: events that found its channel closed

vars == <<mailbox, phase, holding, serves, entry, target, permits, sends, spilling,
          panics, owed, warned, bounced>>

-----------------------------------------------------------------------------
(* Mailboxes *)

Critical(e) == e.kind \in CriticalKinds

\* What same_critical_identity compares: the two outcomes of an arm are one
\* identity, a disconnect is one per guild.
Identity(e) ==
  [guild |-> e.guild,
   kind  |-> IF e.kind \in {"TransitionStarted", "TransitionArmFailed"}
               THEN "ArmOutcome" ELSE e.kind,
   about |-> IF e.kind = "VoiceDisconnected" THEN {} ELSE {e.about}]

Identities == {Identity(e) : e \in {f \in Events : Critical(f)}}

EmptyMailbox == [main |-> << >>, overflow |-> << >>, notified |-> FALSE]

\* Mutant: coalesces every event of a guild with the first.
BugSameGuild(s, e) == \E i \in 1..Len(s) : s[i].guild = e.guild

Listed(s, e) == \E i \in 1..Len(s) : Identity(s[i]) = Identity(e)

HasRoom(t, capacity) == Len(mailbox[t].main) < capacity

\* queue_critical_event and queue_critical_overflow: FALSE when saturated.
Queued(t, e, capacity) ==
  Listed(mailbox[t].overflow, e) \/ Len(mailbox[t].overflow) < capacity

PutMain(t, e) == mailbox' = [mailbox EXCEPT ![t].main = Append(@, e)]

\* Mutant: the consumer is not notified.
BugNoNotify(t, e, capacity) ==
  mailbox' = [mailbox EXCEPT
    ![t].overflow = IF ~Listed(@, e) /\ Len(@) < capacity THEN Append(@, e) ELSE @]

\* Mutant: the list has no limit.
BugUnbounded(t, e, capacity) ==
  mailbox' = [mailbox EXCEPT
    ![t].notified = TRUE,
    ![t].overflow = IF ~Listed(@, e) THEN Append(@, e) ELSE @]

\* The consumer is notified whether or not the event was added.
PutOverflow(t, e, capacity) ==
  mailbox' = [mailbox EXCEPT
    ![t].notified = TRUE,
    ![t].overflow = IF ~Listed(@, e) /\ Len(@) < capacity THEN Append(@, e) ELSE @]

-----------------------------------------------------------------------------
(* RuntimeEventSink::send, called from the callbacks of the driver *)

Accept(e) == owed' = IF Critical(e) THEN owed \cup {Identity(e)} ELSE owed

\* try_send on the ingress channel.
Send(e) ==
  /\ sends < MaxSends
  /\ sends' = sends + 1
  /\ \/ /\ HasRoom(Router, IngressCapacity)
        /\ PutMain(Router, e)
        /\ Accept(e)
        /\ UNCHANGED spilling
     \/ /\ ~HasRoom(Router, IngressCapacity) /\ Critical(e) /\ e \notin spilling
        /\ spilling' = spilling \cup {e}
        /\ UNCHANGED <<mailbox, owed>>
     \/ /\ ~HasRoom(Router, IngressCapacity) /\ ~Critical(e)
        /\ UNCHANGED <<mailbox, owed, spilling>>
  /\ UNCHANGED <<phase, holding, serves, entry, target, permits, panics, warned, bounced>>

\* The rest of send after TrySendError::Full: by now the channel may be empty
\* and the router asleep.
Spill(e) ==
  /\ e \in spilling
  /\ spilling' = spilling \ {e}
  /\ PutOverflow(Router, e, SpillCapacity)
  /\ IF Queued(Router, e, SpillCapacity) THEN Accept(e) ELSE UNCHANGED owed
  /\ UNCHANGED <<phase, holding, serves, entry, target, permits, sends, panics, warned, bounced>>

-----------------------------------------------------------------------------
(* RuntimeEventReceiver::recv and the first half of the worker's loop *)

\* Where a task goes on with an event in its hands.
Received(t) == IF t = Router THEN "route" ELSE "permit"

TakeMain(t) ==
  /\ phase[t] \in {"main", "wait"}
  /\ mailbox[t].main # << >>
  /\ holding' = [holding EXCEPT ![t] = <<Head(mailbox[t].main)>>]
  /\ mailbox' = [mailbox EXCEPT ![t].main = Tail(@)]
  /\ phase' = [phase EXCEPT ![t] = Received(t)]

TakeOverflow(t) ==
  /\ phase[t] = "overflow"
  /\ mailbox[t].overflow # << >>
  /\ holding' = [holding EXCEPT ![t] = <<Head(mailbox[t].overflow)>>]
  /\ mailbox' = [mailbox EXCEPT ![t].overflow = Tail(@)]
  /\ phase' = [phase EXCEPT ![t] = Received(t)]

MainIsEmpty(t) ==
  /\ phase[t] = "main" /\ mailbox[t].main = << >>
  /\ phase' = [phase EXCEPT ![t] = "overflow"]
  /\ UNCHANGED <<mailbox, holding>>

OverflowIsEmpty(t) ==
  /\ phase[t] = "overflow" /\ mailbox[t].overflow = << >>
  /\ phase' = [phase EXCEPT ![t] = "wait"]
  /\ UNCHANGED <<mailbox, holding>>

Woken(t) ==
  /\ phase[t] = "wait" /\ mailbox[t].notified
  /\ mailbox' = [mailbox EXCEPT ![t].notified = FALSE]
  /\ phase' = [phase EXCEPT ![t] = "main"]
  /\ UNCHANGED holding

Receive(t) ==
  /\ TakeMain(t) \/ TakeOverflow(t) \/ MainIsEmpty(t) \/ OverflowIsEmpty(t) \/ Woken(t)
  /\ UNCHANGED <<serves, entry, target, permits, sends, spilling, panics, owed, warned, bounced>>

-----------------------------------------------------------------------------
(* route_runtime_event *)

Routed == Head(holding[Router])

FindWorker ==
  /\ phase[Router] = "route"
  /\ \E w \in entry[Routed.guild] : target' = w
  /\ phase' = [phase EXCEPT ![Router] = "deliver"]
  /\ UNCHANGED <<mailbox, holding, serves, entry, permits, sends, spilling, panics, owed, warned, bounced>>

SpawnWorker ==
  /\ phase[Router] = "route"
  /\ entry[Routed.guild] = {}
  /\ \E w \in Workers :
       /\ serves[w] = {} /\ \A v \in 1..(w - 1) : serves[v] # {}
       /\ serves' = [serves EXCEPT ![w] = {Routed.guild}]
       /\ entry' = [entry EXCEPT ![Routed.guild] = {w}]
       /\ phase' = [phase EXCEPT ![w] = "main", ![Router] = "deliver"]
       /\ target' = w
  /\ UNCHANGED <<mailbox, holding, permits, sends, spilling, panics, owed, warned, bounced>>

\* The router is done with the event it holds and goes back to recv.
RouterReturns ==
  /\ phase' = [phase EXCEPT ![Router] = "main"]
  /\ holding' = [holding EXCEPT ![Router] = << >>]

\* try_send on the worker's channel.
Deliver ==
  /\ phase[Router] = "deliver"
  /\ phase[target] # "gone"
  /\ \/ /\ HasRoom(target, QueueCapacity)
        /\ PutMain(target, Routed)
        /\ RouterReturns
     \/ /\ ~HasRoom(target, QueueCapacity) /\ Critical(Routed)
        /\ phase' = [phase EXCEPT ![Router] = "overflows"]
        /\ UNCHANGED <<mailbox, holding>>
     \/ /\ ~HasRoom(target, QueueCapacity) /\ ~Critical(Routed)
        /\ RouterReturns
        /\ UNCHANGED mailbox
  /\ UNCHANGED <<serves, entry, target, permits, sends, spilling, panics, owed, warned, bounced>>

\* After TrySendError::Full: the worker may have emptied its channel, or ended,
\* meanwhile; its list outlives it in the hands of the router, unread.
DeliverOverflow ==
  /\ phase[Router] = "overflows"
  /\ IF phase[target] = "gone"
       THEN UNCHANGED <<mailbox, warned>>
       ELSE /\ PutOverflow(target, Routed, OverflowCapacity)
            /\ warned' = IF Queued(target, Routed, OverflowCapacity)
                           THEN warned ELSE warned \cup {Routed.guild}
  /\ RouterReturns
  /\ UNCHANGED <<serves, entry, target, permits, sends, spilling, panics, owed, bounced>>

\* Mutant: the entry of a dead worker stays.
BugKeepsEntry ==
  /\ phase[Router] = "deliver"
  /\ phase[target] = "gone"
  /\ bounced' = [bounced EXCEPT ![target] = @ + 1]
  /\ RouterReturns
  /\ UNCHANGED <<mailbox, serves, entry, target, permits, sends, spilling, panics, owed, warned>>

\* try_send finds the receiver dropped: the event is lost, the entry removed.
DeliverClosed ==
  /\ phase[Router] = "deliver"
  /\ phase[target] = "gone"
  /\ entry' = [entry EXCEPT ![Routed.guild] = @ \ {target}]
  /\ bounced' = [bounced EXCEPT ![target] = @ + 1]
  /\ RouterReturns
  /\ UNCHANGED <<mailbox, serves, target, permits, sends, spilling, panics, owed, warned>>

-----------------------------------------------------------------------------
(* spawn_guild_event_worker, from the permit on *)

Handled(w) == Head(holding[w])

\* Mutant: a disconnect takes the worker out of the map before it is handled.
BugRetiresFirst(w) ==
  /\ phase[w] = "permit" /\ permits > 0
  /\ permits' = permits - 1
  /\ phase' = [phase EXCEPT ![w] = "handling"]
  /\ owed' = owed \ {Identity(Handled(w))}
  /\ entry' = IF Handled(w).kind = "VoiceDisconnected"
                THEN [entry EXCEPT ![Handled(w).guild] = {}] ELSE entry
  /\ UNCHANGED <<mailbox, holding, serves, target, sends, spilling, panics, warned, bounced>>

StartHandling(w) ==
  /\ phase[w] = "permit" /\ permits > 0
  /\ permits' = permits - 1
  /\ phase' = [phase EXCEPT ![w] = "handling"]
  /\ owed' = owed \ {Identity(Handled(w))}
  /\ UNCHANGED <<mailbox, holding, serves, entry, target, sends, spilling, panics, warned, bounced>>

FinishHandling(w) ==
  /\ phase[w] = "handling" /\ Handled(w).kind # "VoiceDisconnected"
  /\ permits' = permits + 1
  /\ phase' = [phase EXCEPT ![w] = "main"]
  /\ holding' = [holding EXCEPT ![w] = << >>]
  /\ UNCHANGED <<mailbox, serves, entry, target, sends, spilling, panics, owed, warned, bounced>>

\* The worker takes itself out of the map; its receiver is still there.
Retire(w) ==
  /\ phase[w] = "handling" /\ Handled(w).kind = "VoiceDisconnected"
  /\ entry' = [g \in Guilds |-> IF g \in serves[w] THEN entry[g] \ {w} ELSE entry[g]]
  /\ phase' = [phase EXCEPT ![w] = "leaving"]
  /\ holding' = [holding EXCEPT ![w] = << >>]
  /\ UNCHANGED <<mailbox, serves, target, permits, sends, spilling, panics, owed, warned, bounced>>

\* The end of the task: the permit is released, the mailbox dropped.
Gone(w) ==
  /\ permits' = permits + 1
  /\ phase' = [phase EXCEPT ![w] = "gone"]
  /\ mailbox' = [mailbox EXCEPT ![w] = EmptyMailbox]
  /\ holding' = [holding EXCEPT ![w] = << >>]
  /\ UNCHANGED <<serves, entry, target, sends, spilling, owed, warned, bounced>>

Leave(w) ==
  /\ phase[w] = "leaving"
  /\ Gone(w)
  /\ UNCHANGED panics

\* A panic in the handler unwinds the task; nobody removes its entry.
Panic(w) ==
  /\ phase[w] = "handling" /\ panics < MaxPanics
  /\ panics' = panics + 1
  /\ Gone(w)

Work(w) == StartHandling(w) \/ FinishHandling(w) \/ Retire(w) \/ Leave(w)

-----------------------------------------------------------------------------
Init ==
  /\ mailbox = [t \in Tasks |-> EmptyMailbox]
  /\ phase = [t \in Tasks |-> IF t = Router THEN "main" ELSE "unborn"]
  /\ holding = [t \in Tasks |-> << >>]
  /\ serves = [w \in Workers |-> {}]
  /\ entry = [g \in Guilds |-> {}]
  /\ target = Router
  /\ permits = Permits
  /\ sends = 0 /\ panics = 0
  /\ spilling = {}
  /\ owed = {} /\ warned = {}
  /\ bounced = [w \in Workers |-> 0]

Route == FindWorker \/ SpawnWorker \/ Deliver \/ DeliverOverflow \/ DeliverClosed

Next ==
  \/ \E e \in Events : Send(e) \/ Spill(e)
  \/ \E t \in Tasks : Receive(t)
  \/ Route
  \/ \E w \in Workers : Work(w) \/ Panic(w)

Spec == Init /\ [][Next]_vars

\* tokio runs every task that is not blocked; the semaphore serves its waiters
\* in order; a handler ends because every await in it has a timeout or an end.
FairSpec ==
  /\ Spec
  /\ WF_vars(Route)
  /\ \A e \in Events : WF_vars(Spill(e))
  /\ \A t \in Tasks : WF_vars(Receive(t))
  /\ \A w \in Workers : SF_vars(StartHandling(w)) /\ WF_vars(Work(w))

-----------------------------------------------------------------------------
(* Properties *)

InMailbox(t, id) ==
  \/ \E i \in 1..Len(mailbox[t].main) : Identity(mailbox[t].main[i]) = id
  \/ \E i \in 1..Len(mailbox[t].overflow) : Identity(mailbox[t].overflow[i]) = id
  \/ \E i \in 1..Len(holding[t]) : Identity(holding[t][i]) = id

\* A worker of the guild ended, by a disconnect or a panic, or the loss of an
\* event of the guild was reported.
Excused(g) ==
  \/ g \in warned
  \/ \E w \in Workers : g \in serves[w] /\ phase[w] \in {"leaving", "gone"}

Polling  == {"main", "overflow", "wait"}
Routing  == {"route", "deliver", "overflows"}
Serving  == Polling \cup {"permit", "handling"}
Phases   == Routing \cup Serving \cup {"unborn", "leaving", "gone"}

Shape ==
  /\ mailbox \in [Tasks -> [main : Seq(Events), overflow : Seq(Events), notified : BOOLEAN]]
  /\ phase \in [Tasks -> Phases]
  /\ holding \in [Tasks -> Seq(Events)]
  /\ serves \in [Workers -> SUBSET Guilds]
  /\ entry \in [Guilds -> SUBSET Workers]
  /\ spilling \subseteq Events /\ owed \subseteq Identities /\ warned \subseteq Guilds

\* A task holds an event exactly between taking it and being done with it.
HoldsOne ==
  \A t \in Tasks :
    Len(holding[t]) = IF phase[t] \in Routing \cup {"permit", "handling"} THEN 1 ELSE 0

\* Every list stays within its capacity; no permit is lost or made up.
TypeOK ==
  /\ Shape /\ HoldsOne
  /\ \A t \in Tasks :
       /\ Len(mailbox[t].main) <= IF t = Router THEN IngressCapacity ELSE QueueCapacity
       /\ Len(mailbox[t].overflow) <= IF t = Router THEN SpillCapacity ELSE OverflowCapacity
       /\ phase[t] \in IF t = Router THEN Polling \cup Routing ELSE Phases \ Routing
  /\ permits + Cardinality({w \in Workers : phase[w] \in {"handling", "leaving"}}) = Permits

\* A worker that serves a guild is the one in the map; one that is not yet
\* spawned serves nobody.
ServingIsMapped ==
  \A w \in Workers :
    /\ phase[w] \in Serving => \E g \in Guilds : serves[w] = {g} /\ entry[g] = {w}
    /\ phase[w] = "unborn" <=> serves[w] = {}

\* The map and the router name a worker for its own guild only.
NamesItsOwn ==
  /\ \A g \in Guilds : \A w \in entry[g] : serves[w] = {g}
  /\ phase[Router] \in {"deliver", "overflows"} =>
       target \in Workers /\ serves[target] = {Routed.guild}

\* A worker whose closed channel was noticed is dead and nobody names it.
BouncedIsForgotten ==
  /\ bounced \in [Workers -> Nat]
  /\ \A w \in Workers : bounced[w] # 0 =>
       /\ bounced[w] = 1 /\ phase[w] = "gone"
       /\ \A g \in Guilds : w \notin entry[g]
       /\ ~(phase[Router] = "deliver" /\ target = w)

\* Runtime events of one guild are handled one at a time, also across the end
\* of a worker and the start of the next (playback.rs:497-599).
OneHandlerPerGuild ==
  \A v, w \in Workers :
    phase[v] = "handling" /\ phase[w] = "handling" /\ serves[v] = serves[w] => v = w

\* An accepted critical event is on its way, has been handled, or its loss has a
\* reason: the guild's worker ended, or the saturated list was reported
\* (contracts/src/lib.rs:170-176).
NoSilentLoss ==
  \A id \in owed : Excused(id.guild) \/ \E t \in Tasks : InMailbox(t, id)

\* A worker that died takes at most one later event with it: the closed channel
\* removes its entry (playback.rs:548-553).
DeadWorkerCostsOneEvent == \A w \in Workers : bounced[w] <= 1

\* Every accepted critical event is handled in the end, with as few permits as
\* there may be, unless its loss has one of the reasons above.
EveryEventHandled ==
  \A id \in Identities : id \in owed ~> (id \notin owed \/ Excused(id.guild))
=============================================================================
