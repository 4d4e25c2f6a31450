---------------------------- MODULE TrackRuntime ----------------------------
(***************************************************************************)
(* The decks of one guild's call in wotoha-runtime/src/songbird.rs.        *)
(*                                                                         *)
(* Three parties work on a deck: callers (the coordinator, which registers,*)
(* resumes and stops decks and arms frame-scheduled starts), songbird's    *)
(* mixer, which drains the commands sent to a deck and then mixes one 20 ms*)
(* frame, and songbird's event task, which runs the listeners some frames  *)
(* later.  Mixer and event task are the library's, modelled as the code    *)
(* uses them: a command to a deck that is over is refused, an errored deck *)
(* fires both its error and its end listener, in either order.             *)
(*                                                                         *)
(* The model follows one handoff: First plays, the other decks are to come *)
(* after it, and starts are armed on First.  Its frames alone are counted. *)
(***************************************************************************)
EXTENDS Naturals, Sequences, FiniteSets

CONSTANTS Decks, First,  \* First plays already, the others are not yet there
          Arms,          \* the calls of arm_transition
          Targets,       \* the target frames they may name
          Played,        \* the frames of First mixed when the handoff begins
          MaxFrame,      \* this frame and all after it are one
          MaxLag         \* frames the event task may be behind the mixer

ASSUME RuntimeAssumption ==
    /\ First \in Decks
    /\ Targets \subseteq Nat
    /\ {Played, MaxFrame, MaxLag} \subseteq Nat /\ Played <= MaxFrame
    /\ \A t \in Targets : MaxFrame > t + 1 + MaxLag
    /\ {"play", "stop"} \cap Arms = {}

None == "none"
ASSUME NoneAssumption == None \notin Decks \cup Arms

VARIABLES
    stage,      \* how far register_track has come with the deck
    mode,       \* PlayMode, as the mixer has it
    frame,      \* frames mixed of First
    cmds,       \* commands sent and not yet drained
    lifecycle,  \* TrackLifecycle
    slot,       \* First's frame_slot: the start armed on it
    stopping,   \* how far SongbirdTrackHandle::stop has come
    arm,        \* the calls of arm_transition and their arguments
    status,     \* ArmedFrameTransition::pending of each arm
    startedAt,  \* First's frame when the armed deck was started
    transit,    \* the event task's queue: the listeners to fire, frame by frame
    reports, answers  \* the events sent to the coordinator, per deck and arm

deckVars == <<stage, mode, frame, cmds, lifecycle, stopping>>
armVars == <<slot, arm, status, startedAt>>
vars == <<deckVars, armVars, transit, reports, answers>>

NoSlot == [arm |-> None, last |-> 0, queued |-> FALSE]
Unasked == [pc |-> "idle", in |-> None, target |-> 0, at |-> 0, playing |-> FALSE]

NextFrame == IF frame < MaxFrame THEN frame + 1 ELSE frame

\* SongbirdRuntime::tracks, the registry: from register_track to stop.
Found(d) == stage[d] = "registered" /\ stopping[d] # "sent"

Over(d) == mode[d] \in {"stop", "end", "error"}
\* The slot when deck d gives up what is armed on it.
Disarmed(d) == IF d = First THEN NoSlot ELSE slot

Send(d, c) == IF Over(d) THEN cmds ELSE [cmds EXCEPT ![d] = Append(@, c)]

-----------------------------------------------------------------------------
(* register_track.                                                         *)

\* call.play: the deck is in the mixer before it has any listener.
Register(d) ==
    /\ stage[d] = "absent"
    /\ stage' = [stage EXCEPT ![d] = "created"]
    /\ \E m \in {"pause", "play"} : mode' = [mode EXCEPT ![d] = m]
    /\ UNCHANGED <<frame, cmds, lifecycle, stopping, armVars, transit,
                   reports, answers>>

\* The listeners are attached one by one, first the one for the end of the deck
\* and then the one for its errors; a deck that is over meanwhile takes no more
\* of them and is given up.
Listen(d) ==
    /\ stage[d] = "created"
    /\ stage' = [stage EXCEPT ![d] = IF Over(d) THEN "failed" ELSE "hearing"]
    /\ UNCHANGED <<mode, frame, cmds, lifecycle, stopping, armVars, transit,
                   reports, answers>>

ListenForErrors(d) ==
    /\ stage[d] = "hearing"
    /\ stage' = [stage EXCEPT ![d] = IF Over(d) THEN "failed" ELSE "listening"]
    /\ UNCHANGED <<mode, frame, cmds, lifecycle, stopping, armVars, transit,
                   reports, answers>>

\* make_playable_async: a deck that is ready is handed out; one that is not is
\* stopped through songbird's own handle, which leaves its lifecycle alone.
Ready(d) ==
    /\ stage[d] = "listening"
    /\ \/ /\ ~Over(d)
          /\ stage' = [stage EXCEPT ![d] = "registered"]
          /\ UNCHANGED cmds
       \/ /\ stage' = [stage EXCEPT ![d] = "failed"]
          /\ cmds' = Send(d, "stop")
    /\ UNCHANGED <<mode, frame, lifecycle, stopping, armVars, transit, reports, answers>>

-----------------------------------------------------------------------------
(* SongbirdTrackHandle.                                                    *)

Resume(d) ==
    /\ stage[d] = "registered"
    /\ mode[d] = "pause"
    /\ cmds[d] = <<>>
    /\ cmds' = Send(d, "play")
    /\ UNCHANGED <<stage, mode, frame, lifecycle, stopping, armVars, transit,
                   reports, answers>>

\* stop: the lifecycle first, and after it, with listeners in between,
RequestStop(d) ==
    /\ stage[d] = "registered"
    /\ stopping[d] = "no"
    /\ stopping' = [stopping EXCEPT ![d] = "requested"]
    /\ lifecycle' = [lifecycle EXCEPT ![d] = IF @ = "running" THEN "stop_requested" ELSE @]
    /\ UNCHANGED <<stage, mode, frame, cmds, armVars, transit, reports, answers>>

\* the armed start, the registry and the mixer.
SendStop(d) ==
    /\ stopping[d] = "requested"
    /\ stopping' = [stopping EXCEPT ![d] = "sent"]
    /\ slot' = Disarmed(d)
    /\ cmds' = Send(d, "stop")
    /\ UNCHANGED <<stage, mode, frame, lifecycle, arm, status, startedAt, transit,
                   reports, answers>>

-----------------------------------------------------------------------------
(* arm_transition.                                                         *)

Refuse(g) == arm' = [arm EXCEPT ![g] = [Unasked EXCEPT !.pc = "refused"]]

\* The decks are looked up and the outgoing one is asked for its state.  The
\* coordinator arms a deck it has prepared, which is paused.
AskOutgoing(g, in, target) ==
    /\ arm[g].pc = "idle"
    /\ mode[in] = "pause"
    /\ stage[in] = "registered"
    /\ IF ~Found(First) \/ ~Found(in) \/ Over(First) THEN Refuse(g)
       ELSE arm' = [arm EXCEPT ![g] = [pc |-> "asked", in |-> in, target |-> target,
                                       at |-> frame, playing |-> mode[First] = "play"]]
    /\ UNCHANGED <<deckVars, slot, status, startedAt, transit, reports, answers>>

AskIncoming(g) ==
    /\ arm[g].pc = "asked"
    /\ IF Over(arm[g].in) THEN Refuse(g) ELSE arm' = [arm EXCEPT ![g].pc = "known"]
    /\ UNCHANGED <<deckVars, slot, status, startedAt, transit, reports, answers>>

\* Both a frame for the trigger and one for the command must be left.
InTime(a) == a.target > a.at + 2

BugSlotFree == TRUE

\* One start at a time.
SlotFree == slot = NoSlot

Arm(g) ==
    LET a == arm[g] IN
    /\ a.pc = "known"
    /\ IF a.playing /\ InTime(a) /\ SlotFree
       THEN /\ slot' = [arm |-> g, last |-> a.at, queued |-> FALSE]
            /\ arm' = [arm EXCEPT ![g].pc = "armed"]
       ELSE Refuse(g) /\ UNCHANGED slot
    /\ UNCHANGED <<deckVars, status, startedAt, transit, reports, answers>>

-----------------------------------------------------------------------------
(* The mixer: it drains the commands of every deck and mixes one frame of  *)
(* each that plays; a deck may come to its end, a source may break.        *)

Drained(d) ==
    IF \E i \in DOMAIN cmds[d] : cmds[d][i] = "stop" THEN "stop"
    ELSE IF cmds[d] # <<>> THEN "play" ELSE mode[d]

\* The armed start was queued behind a stop: it finds a deck that is over.
ActionRefused(d, i) == \E j \in 1..(i - 1) : cmds[d][j] = "stop"

Ran(g) == \E d \in Decks : \E i \in DOMAIN cmds[d] : cmds[d][i] = g
RanOver(g) == \E d \in Decks : \E i \in DOMAIN cmds[d] : cmds[d][i] = g /\ ActionRefused(d, i)

\* The deck has a listener of this kind.
Hears(d, kind) == stage[d] \notin IF kind = "end" THEN {"absent", "created"}
                                  ELSE {"absent", "created", "hearing"}

Fired(d, m) ==
    (IF m = "play" /\ d = First THEN {[deck |-> d, kind |-> "tick", frame |-> NextFrame]} ELSE {})
    \cup (IF ~Over(d) /\ m \in {"stop", "end", "error"}
          THEN {[deck |-> d, kind |-> k, frame |-> frame] :
                   k \in {k \in {"error", "end"} : Hears(d, k) /\ (k = "error" => m = "error")}}
          ELSE {})

MixTick ==
    LET drained == [d \in Decks |-> IF stage[d] = "absent" THEN mode[d] ELSE Drained(d)]
        playing == {d \in Decks : drained[d] = "play"}
        breakable == playing \cup {d \in Decks : stage[d] = "listening" /\ ~Over(d)}
    IN
    /\ Len(transit) <= MaxLag
    /\ \E mixed \in [Decks -> {"pause", "play", "stop", "end", "error"}] :
         /\ \A d \in Decks :
              \/ mixed[d] = drained[d]
              \/ d \in playing /\ mixed[d] = "end"
              \/ d \in breakable /\ mixed[d] = "error"
         /\ mode' = mixed
         /\ frame' = IF mixed[First] = "play" THEN NextFrame ELSE frame
         /\ LET batch == UNION {Fired(d, mixed[d]) : d \in Decks}
            IN transit' = IF batch = {} THEN transit ELSE Append(transit, batch)
    /\ cmds' = [d \in Decks |-> <<>>]
    /\ status' = [g \in Arms |-> IF RanOver(g) THEN "failed"
                                 ELSE IF Ran(g) THEN "started" ELSE status[g]]
    /\ startedAt' = [g \in Arms |-> IF Ran(g) THEN NextFrame ELSE startedAt[g]]
    /\ UNCHANGED <<stage, lifecycle, stopping, slot, arm, reports, answers>>

-----------------------------------------------------------------------------
(* The event task: it fires the listeners of the oldest frame.             *)

Fire(e) ==
    transit' = IF transit[1] = {e} THEN Tail(transit)
               ELSE [transit EXCEPT ![1] = @ \ {e}]

\* At most 35 ms of skew, that is one frame.
OnTime(f, target) == f <= target + 1 /\ target <= f + 1

Answer(g, outcome) ==
    /\ answers' = [answers EXCEPT ![g] = Append(@, outcome)]
    /\ slot' = NoSlot

BugTriggerFrame(target) == target - 2

TriggerFrame(target) == target - 1

\* TargetFrameTransitionNotifier, for the deck's frame f as the event task sees
\* it.
FrameSeen(f) ==
    LET s == slot
        g == s.arm
        target == arm[g].target
        in == arm[g].in
    IN
    IF s = NoSlot THEN UNCHANGED <<slot, cmds, status, answers>>
    ELSE IF f < s.last
    THEN Answer(g, "failed") /\ UNCHANGED <<cmds, status>>
    ELSE IF s.queued /\ status[g] = "started"
    THEN Answer(g, IF OnTime(f, target) THEN "started" ELSE "late") /\ UNCHANGED <<cmds, status>>
    ELSE IF (s.queued /\ status[g] = "failed") \/ f > target + 1
    THEN Answer(g, "failed") /\ UNCHANGED <<cmds, status>>
    ELSE IF s.queued \/ f < TriggerFrame(target)
    THEN /\ slot' = [slot EXCEPT !.last = f]
         /\ UNCHANGED <<cmds, status, answers>>
    ELSE IF Over(in)
    THEN Answer(g, "failed") /\ UNCHANGED <<cmds, status>>
    ELSE /\ cmds' = Send(in, g)
         /\ status' = [status EXCEPT ![g] = "pending"]
         /\ slot' = [slot EXCEPT !.last = f, !.queued = TRUE]
         /\ UNCHANGED answers

\* TrackErrorLogger: only the first word about a deck is passed on.
ErrorSeen(d) ==
    /\ slot' = Disarmed(d)
    /\ lifecycle' = [lifecycle EXCEPT ![d] = IF @ = "running" THEN "errored" ELSE @]
    /\ reports' = IF lifecycle[d] = "running"
                  THEN [reports EXCEPT ![d] = Append(@, "errored")] ELSE reports

BugSilentStop(state) == IF state = "running" THEN <<"completed">> ELSE <<>>

BugFinishReason(state) ==
    CASE state = "stop_requested" -> <<"stopped">>
      [] state = "terminated" -> <<>>
      [] OTHER -> <<"completed">>

\* TrackLifecycle::finish_reason: what is left to say of a deck that is over.
FinishReason(state) ==
    CASE state = "running" -> <<"completed">>
      [] state = "stop_requested" -> <<"stopped">>
      [] OTHER -> <<>>

\* TrackEndNotifier.
EndSeen(d) ==
    /\ slot' = Disarmed(d)
    /\ lifecycle' = [lifecycle EXCEPT ![d] = "terminated"]
    /\ reports' = [reports EXCEPT ![d] = @ \o FinishReason(lifecycle[d])]

EventTask ==
    /\ transit # <<>>
    /\ \E e \in transit[1] :
         /\ e.kind # "tick" => \A other \in transit[1] : other.kind # "tick"
         /\ Fire(e)
         /\ \/ e.kind = "tick" /\ FrameSeen(e.frame) /\ UNCHANGED <<lifecycle, reports>>
            \/ /\ e.kind = "error" /\ ErrorSeen(e.deck)
               /\ UNCHANGED <<cmds, status, answers>>
            \/ /\ e.kind = "end" /\ EndSeen(e.deck)
               /\ UNCHANGED <<cmds, status, answers>>
    /\ UNCHANGED <<stage, mode, frame, stopping, arm, startedAt>>

-----------------------------------------------------------------------------
\* The last k frames of First, which the event task has not seen yet.
Unseen(k) ==
    [i \in 1..k |-> {[deck |-> First, kind |-> "tick", frame |-> Played - k + i]}]

Init ==
    /\ stage = [d \in Decks |-> IF d = First THEN "registered" ELSE "absent"]
    /\ mode = [d \in Decks |-> IF d = First THEN "play" ELSE "pause"]
    /\ frame = Played
    /\ cmds = [d \in Decks |-> <<>>]
    /\ lifecycle = [d \in Decks |-> "running"]
    /\ slot = NoSlot
    /\ stopping = [d \in Decks |-> "no"]
    /\ arm = [g \in Arms |-> Unasked]
    /\ status = [g \in Arms |-> "none"]
    /\ startedAt = [g \in Arms |-> 0]
    /\ \E k \in 0..(MaxLag + 1) : k <= Played /\ transit = Unseen(k)
    /\ reports = [d \in Decks |-> <<>>]
    /\ answers = [g \in Arms |-> <<>>]

Registering(d) == Listen(d) \/ ListenForErrors(d) \/ Ready(d)
Arming(g) == AskIncoming(g) \/ Arm(g)

Next ==
    \/ \E d \in Decks : Register(d) \/ Registering(d) \/ Resume(d) \/ RequestStop(d) \/ SendStop(d)
    \/ \E g \in Arms :
         \/ \E in \in Decks \ {First}, target \in Targets : AskOutgoing(g, in, target)
         \/ Arming(g)
    \/ MixTick
    \/ EventTask

Spec == Init /\ [][Next]_vars

-----------------------------------------------------------------------------
AnyDeck == Decks \cup {None}
Modes == {"pause", "play", "stop", "end", "error"}

\* Every variable has its type, no command waits for a deck that is over, and the
\* start in the slot was accepted and is not answered yet.
TypeOK ==
    /\ stage \in [Decks -> {"absent", "created", "hearing", "listening", "registered", "failed"}]
    /\ mode \in [Decks -> Modes]
    /\ frame \in 0..MaxFrame
    /\ cmds \in [Decks -> Seq({"play", "stop"} \cup Arms)]
    /\ lifecycle \in [Decks -> {"running", "stop_requested", "errored", "terminated"}]
    /\ slot \in [arm : Arms \cup {None}, last : Nat, queued : BOOLEAN]
    /\ stopping \in [Decks -> {"no", "requested", "sent"}]
    /\ arm \in [Arms -> [pc : {"idle", "asked", "known", "armed", "refused"}, in : AnyDeck,
                         target : Nat, at : Nat, playing : BOOLEAN]]
    /\ status \in [Arms -> {"none", "pending", "started", "failed"}]
    /\ startedAt \in [Arms -> Nat]
    /\ transit \in Seq(SUBSET [deck : Decks, kind : {"tick", "end", "error"}, frame : Nat])
    /\ reports \in [Decks -> Seq({"completed", "stopped", "errored"})]
    /\ answers \in [Arms -> Seq({"started", "late", "failed"})]
    /\ \A d \in Decks : Over(d) => cmds[d] = <<>>
    /\ slot.arm # None => arm[slot.arm].pc = "armed" /\ answers[slot.arm] = <<>>

\* The runtime keeps the contract the coordinator is written against: a deck is
\* reported over once, and an armed start is answered once, however errors, ends,
\* stops and late frames fall together.
Contract == INSTANCE DeckContract WITH accepted <- {g \in Arms : arm[g].pc = "armed"}
KeepsContract == Contract!Spec

\* A deck that was handed out does not end unnoticed: when it is over it has been
\* reported, or its listener is still to be fired.
EndNotLost ==
    \A d \in Decks : stage[d] = "registered" /\ Over(d) =>
        \/ reports[d] # <<>>
        \/ \E i \in DOMAIN transit : \E e \in transit[i] : e.deck = d /\ e.kind = "end"

\* An accepted arm is not forgotten: until it is answered it sits in the slot, and
\* the slot is only emptied when its deck is stopped or over.
ArmNotLost ==
    \A g \in Arms : arm[g].pc = "armed" /\ answers[g] = <<>> =>
        slot.arm = g \/ Over(First) \/ stopping[First] = "sent"

Started(g) == answers[g] = <<"started">>

\* A start that is announced as started was never early, and late by no more than
\* the skew the code allows and the frames the event task is behind, although the
\* arm may have waited between the question for the frame and the slot.
StartsOnTime ==
    \A g \in Arms : Started(g) =>
        startedAt[g] \in arm[g].target .. (arm[g].target + 1 + MaxLag)
=============================================================================
