---------------------------- MODULE GuildPlayer ----------------------------
(***************************************************************************)
(* GuildPlayerState under arbitrary sequences of calls to its methods.     *)
(* Every enqueued request carries a fresh request id                       *)
(* (TrackRequest::with_fresh_request_id), so a track is enqueued only      *)
(* while it is nowhere in the player.                                      *)
(***************************************************************************)
EXTENDS GuildPlayerState

VARIABLE player

Held == ToSet(player.queue) \cup {player.current}

EnqueueTrack(t) == /\ t \notin Held
                   /\ player' \in Enqueue(player, t)
PrepareNext == player' \in PrepareNextTrack(player)
Loop == player' = ToggleLoop(player)
StopLoop == player' = DisableLoop(player)
Shuffle == player' \in ToggleShuffle(player)
SetShuffle(on) == player' \in SetShuffleEnabled(player, on)
Replace == /\ player.current # NoTrack   \* callers put back what prepare_next_track chose
           /\ player' = ReplaceCurrent(player, player.current)
DropCurrent == player' = ClearCurrent(player)
Clear == player' = ClearPlayer(player)

Init == player = EmptyPlayer

Next == \/ \E t \in Tracks : EnqueueTrack(t)
        \/ PrepareNext
        \/ Loop
        \/ StopLoop
        \/ Shuffle
        \/ \E on \in BOOLEAN : SetShuffle(on)
        \/ Replace
        \/ DropCurrent
        \/ Clear

Spec == Init /\ [][Next]_player

-----------------------------------------------------------------------------
\* The player stays a value of its Rust type, and a meaningful one: loop and
\* shuffle never hold together, and a shuffling guild with anything queued always
\* has its next track chosen.  session.rs toggles both ways, and every insertion
\* and removal re-establishes the choice.
TypeOK == player \in Players /\ WellFormed(player)

\* The panel shows first what the next skip will play: the first of
\* upcoming_tracks is peek_next_track unless the current track is looped,
\* whatever the limit, and the preview neither drops nor repeats a track.
PreviewAgrees ==
    \A limit \in 0..Len(player.queue) + 1 :
        LET preview == UpcomingTracks(player, limit) IN
        /\ Len(preview) = IF limit < Len(player.queue) THEN limit ELSE Len(player.queue)
        /\ Cardinality(ToSet(preview)) = Len(preview)
        /\ (preview # <<>> /\ ~player.looping) => Head(preview) = PeekNextTrack(player)

\* A prepared transition is kept only while peek_next_track still returns the
\* track it was prepared for (playback.rs compares them before promoting), so
\* enqueueing behind a chosen next track must not change the choice.
PeekSurvivesEnqueue ==
    [][\A t \in Tracks :
         EnqueueTrack(t) /\ PeekNextTrack(player) # NoTrack /\ player.current # NoTrack
            => PeekNextTrack(player') = PeekNextTrack(player)]_player

\* Taking the next track plays exactly what was promised and removes that one
\* occurrence: no queued track is lost or played twice, in any mode.
NextTrackConserved ==
    [][PrepareNext /\ ~player.looping =>
         /\ player'.current = PeekNextTrack(player)
         /\ ToSet(player'.queue) = ToSet(player.queue) \ {player'.current}
         /\ Len(player.queue) > 0 => Len(player'.queue) = Len(player.queue) - 1]_player
=============================================================================
