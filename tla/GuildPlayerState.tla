------------------------- MODULE GuildPlayerState -------------------------
(***************************************************************************)
(* The logical queue of one guild: GuildPlayerState of                     *)
(* wotoha-core/src/session.rs, as operators on a record                    *)
(*                                                                         *)
(*   [current, queue, looping, shuffle, pick]                              *)
(*                                                                         *)
(* `pick' is shuffle_next_index: 0 for None, otherwise the 1-based index   *)
(* of the queued track that shuffle has already chosen to play next.  A    *)
(* method that may draw a random index is an operator that returns the set *)
(* of players it can leave behind.                                         *)
(***************************************************************************)
EXTENDS SequencesExt, Integers

CONSTANTS Tracks,    \* the track requests
          NoTrack    \* the absence of a track: None

ASSUME NoTrackAssumption == NoTrack \notin Tracks

NoPick == 0

Players == [current : Tracks \cup {NoTrack}, queue : Seq(Tracks),
            looping : BOOLEAN, shuffle : BOOLEAN, pick : Nat]

EmptyPlayer == [current |-> NoTrack, queue |-> <<>>,
                looping |-> FALSE, shuffle |-> FALSE, pick |-> NoPick]

\* Mutants of the definition that follows them are named Bug...: what a slip in
\* that code would make of it.
BugRedraws(p) ==
    IF p.shuffle /\ p.queue # <<>> THEN {[p EXCEPT !.pick = i] : i \in 1..Len(p.queue)} ELSE {p}
BugNeverChooses(p) == {p}

\* ensure_shuffle_choice: a random index, drawn only when none is held.
EnsureShuffleChoice(p) ==
    IF p.shuffle /\ p.queue # <<>> /\ p.pick = NoPick
    THEN {[p EXCEPT !.pick = i] : i \in 1..Len(p.queue)}
    ELSE {p}

\* selected_shuffle_index: an index out of range falls back to the front.
SelectedShuffleIndex(p) ==
    IF ~p.shuffle \/ p.queue = <<>> THEN NoPick
    ELSE IF p.pick \in 1..Len(p.queue) THEN p.pick ELSE 1

\* enqueue: TRUE when the track became the current one.
BugCurrentWhenQueueEmpty(p) == p.queue = <<>>
BecomesCurrent(p) == p.current = NoTrack

Enqueue(p, t) ==
    IF BecomesCurrent(p)
    THEN {[p EXCEPT !.current = t]}
    ELSE EnsureShuffleChoice([p EXCEPT !.queue = Append(@, t)])

BugKeepsQueue(p) ==
    IF p.looping THEN {p}
    ELSE IF p.queue = <<>> THEN {[p EXCEPT !.current = NoTrack, !.pick = NoPick]}
    ELSE EnsureShuffleChoice([p EXCEPT !.current = Head(p.queue)])

\* prepare_next_track: the next track becomes (or leaves None as) current.
PrepareNextTrack(p) ==
    IF p.looping THEN {p}
    ELSE IF p.queue = <<>> THEN {[p EXCEPT !.current = NoTrack, !.pick = NoPick]}
    ELSE IF p.shuffle
         THEN UNION {LET i == SelectedShuffleIndex(q) IN
                     EnsureShuffleChoice([q EXCEPT !.current = q.queue[i],
                                                   !.queue = RemoveAt(@, i),
                                                   !.pick = NoPick])
                     : q \in EnsureShuffleChoice(p)}
         ELSE {[p EXCEPT !.current = Head(p.queue), !.queue = Tail(@)]}

\* peek_next_track: what prepare_next_track would play, NoTrack for None.
PeekNextTrack(p) ==
    IF p.looping THEN p.current
    ELSE IF p.queue = <<>> THEN NoTrack
    ELSE IF p.shuffle THEN p.queue[SelectedShuffleIndex(p)]
    ELSE Head(p.queue)

BugPreviewRepeats(p, limit) ==
    LET i == SelectedShuffleIndex(p)
        all == IF i = NoPick THEN p.queue ELSE <<p.queue[i]>> \o p.queue
    IN SubSeq(all, 1, IF limit < Len(all) THEN limit ELSE Len(all))

\* upcoming_tracks: the selected track first, then the queue in order.
UpcomingTracks(p, limit) ==
    LET i == SelectedShuffleIndex(p)
        all == IF i = NoPick THEN p.queue
               ELSE <<p.queue[i]>> \o RemoveAt(p.queue, i)
    IN SubSeq(all, 1, IF limit < Len(all) THEN limit ELSE Len(all))

BugLoopKeepsShuffle(p) == [p EXCEPT !.looping = ~@]
ToggleLoop(p) ==
    IF p.looping THEN [p EXCEPT !.looping = FALSE]
    ELSE [p EXCEPT !.looping = TRUE, !.shuffle = FALSE, !.pick = NoPick]

DisableLoop(p) == [p EXCEPT !.looping = FALSE]

SetShuffleEnabled(p, enabled) ==
    IF enabled
    THEN EnsureShuffleChoice([p EXCEPT !.shuffle = TRUE, !.looping = FALSE])
    ELSE {[p EXCEPT !.shuffle = FALSE, !.pick = NoPick]}

ToggleShuffle(p) == SetShuffleEnabled(p, ~p.shuffle)

ReplaceCurrent(p, t) == [p EXCEPT !.current = t]

ClearCurrent(p) == [p EXCEPT !.current = NoTrack]

\* clear
ClearPlayer(p) == EmptyPlayer

\* What keeps the queue operations meaningful: looping and shuffling exclude
\* each other, and shuffle holds a choice exactly while it has something to
\* choose from, so peek_next_track and the next prepare_next_track agree.
WellFormed(p) ==
    /\ ~(p.looping /\ p.shuffle)
    /\ p.pick # NoPick <=> p.shuffle /\ p.queue # <<>>
    /\ p.pick <= Len(p.queue)
=============================================================================
