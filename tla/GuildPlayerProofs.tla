------------------------- MODULE GuildPlayerProofs -------------------------
(***************************************************************************)
(* Theorems about the logical queue under any sequence of calls, for every *)
(* set of tracks and queues of any length.                                 *)
(***************************************************************************)
EXTENDS GuildPlayer, GuildPlayerStateProofs, FiniteSetTheorems

\* A fresh player is well formed, and every method leaves one that is.
LEMMA TypeInit == Init => TypeOK
  BY EmptySeq, LenProperties DEF Init, EmptyPlayer, TypeOK, Players, WellFormed, NoPick

LEMMA TypeStep == TypeOK /\ [Next]_player => TypeOK'
<1> SUFFICES ASSUME TypeOK, [Next]_player
             PROVE  TypeOK'
  OBVIOUS
<1> USE DEF TypeOK
<1> Len(player.queue) \in Nat
  BY LenProperties DEF Players
<1>1. ASSUME NEW t \in Tracks, EnqueueTrack(t)
      PROVE  TypeOK'
  BY <1>1, EnqueueWellFormed DEF EnqueueTrack
<1>2. CASE PrepareNext
  BY <1>2, PrepareNextWellFormed DEF PrepareNext
<1>3. CASE Loop
  BY <1>3, UpdatesWellFormed DEF Loop
<1>4. CASE StopLoop
  BY <1>4 DEF StopLoop, DisableLoop, Players, WellFormed
<1>5. CASE Shuffle
  <2>1. (~player.shuffle) \in BOOLEAN
    OBVIOUS
  <2> QED BY <1>5, <2>1, SetShuffleWellFormed DEF Shuffle, ToggleShuffle
<1>6. ASSUME NEW on \in BOOLEAN, SetShuffle(on)
      PROVE  TypeOK'
  BY <1>6, SetShuffleWellFormed DEF SetShuffle
<1>7. CASE Replace
  BY <1>7 DEF Replace, ReplaceCurrent, Players, WellFormed
<1>8. CASE DropCurrent
  BY <1>8 DEF DropCurrent, ClearCurrent, Players, WellFormed
<1>9. CASE Clear
  BY <1>9, EmptySeq DEF Clear, ClearPlayer, EmptyPlayer, Players, WellFormed, NoPick
<1>10. CASE UNCHANGED player
  BY <1>10
<1> QED BY <1>1, <1>2, <1>3, <1>4, <1>5, <1>6, <1>7, <1>8, <1>9, <1>10 DEF Next

\* Whatever the methods are called in, loop and shuffle exclude each other and a
\* shuffling guild with a queue always holds a valid choice.
THEOREM TypeCorrect == Spec => []TypeOK
  BY TypeInit, TypeStep, PTL DEF Spec

\* A track is held once: as the current one or at one place of the queue.
NoRepeats ==
    /\ \A i, j \in 1..Len(player.queue) : i # j => player.queue[i] # player.queue[j]
    /\ \A i \in 1..Len(player.queue) : player.queue[i] # player.current

\* A method that leaves the current track and the queue alone repeats nothing.
LEMMA RepeatsUnchanged ==
    ASSUME NoRepeats, player'.current = player.current, player'.queue = player.queue
    PROVE  NoRepeats'
  BY DEF NoRepeats

LEMMA NoRepeatsStep == TypeOK /\ NoRepeats /\ [Next]_player => NoRepeats'
<1> SUFFICES ASSUME TypeOK, NoRepeats, [Next]_player
             PROVE  NoRepeats'
  OBVIOUS
<1>0. player \in Players /\ WellFormed(player) /\ player.queue \in Seq(Tracks)
  BY DEF TypeOK, Players
<1>1. ASSUME NEW t \in Tracks, EnqueueTrack(t)
      PROVE  NoRepeats'
  <2>1. /\ \A i \in 1..Len(player.queue) : player.queue[i] # t
        /\ DOMAIN player.queue = 1..Len(player.queue) /\ Len(player.queue) \in Nat
    BY <1>0, <1>1, LenProperties DEF EnqueueTrack, Held, ToSet
  <2>2. CASE BecomesCurrent(player)
    <3>1. player'.current = t /\ player'.queue = player.queue
      BY <1>0, <1>1, <2>2 DEF EnqueueTrack, Enqueue, Players
    <3> QED BY <2>1, <3>1 DEF NoRepeats
  <2>3. CASE ~BecomesCurrent(player)
    <3> DEFINE longer == [player EXCEPT !.queue = Append(player.queue, t)]
    <3>1. Append(player.queue, t) \in Seq(Tracks)
      BY <1>0, AppendProperties
    <3>2. /\ longer \in Players /\ longer.current = player.current
          /\ longer.queue = Append(player.queue, t)
      BY <1>0, <3>1 DEF Players
    <3>3. player' \in EnsureShuffleChoice(longer)
      BY <1>1, <2>3 DEF EnqueueTrack, Enqueue
    <3>4. player'.current = player.current /\ player'.queue = Append(player.queue, t)
      BY <3>2, <3>3, ChoiceKeepsTracks
    <3>5. /\ Len(Append(player.queue, t)) = Len(player.queue) + 1
          /\ \A i \in 1..Len(player.queue) : Append(player.queue, t)[i] = player.queue[i]
          /\ Append(player.queue, t)[Len(player.queue) + 1] = t
      BY <1>0, AppendProperties
    <3>6. t # player.current
      BY <1>1 DEF EnqueueTrack, Held
    <3> QED BY <2>1, <3>4, <3>5, <3>6 DEF NoRepeats
  <2> QED BY <2>2, <2>3
<1>2. CASE PrepareNext
  <2>1. CASE player.looping
    BY <1>2, <2>1 DEF PrepareNext, PrepareNextTrack, NoRepeats
  <2>2. CASE ~player.looping /\ player.queue = <<>>
    <3>1. player'.queue = <<>>
      BY <1>0, <1>2, <2>2, PrepareNextTakes DEF PrepareNext
    <3> QED BY <3>1, EmptySeq DEF NoRepeats
  <2>3. CASE ~player.looping /\ player.queue # <<>>
    <3>1. PICK i \in 1..Len(player.queue) :
            player'.current = player.queue[i] /\ player'.queue = RemoveAt(player.queue, i)
      BY <1>0, <1>2, <2>3, PrepareNextTakes DEF PrepareNext
    <3>2. /\ \A j, k \in 1..Len(RemoveAt(player.queue, i)) :
               j # k => RemoveAt(player.queue, i)[j] # RemoveAt(player.queue, i)[k]
          /\ \A j \in 1..Len(RemoveAt(player.queue, i)) :
               RemoveAt(player.queue, i)[j] # player.queue[i]
      BY <1>0, RemoveAtTakesOne DEF NoRepeats
    <3> QED BY <3>1, <3>2 DEF NoRepeats
  <2> QED BY <2>1, <2>2, <2>3
<1>3. ASSUME NEW on \in BOOLEAN, player' \in SetShuffleEnabled(player, on)
      PROVE  NoRepeats'
  <2>1. CASE on
    <3> DEFINE shuffling == [player EXCEPT !.shuffle = TRUE, !.looping = FALSE]
    <3>1. /\ shuffling \in Players /\ shuffling.current = player.current
          /\ shuffling.queue = player.queue
      BY <1>0 DEF Players
    <3>2. player' \in EnsureShuffleChoice(shuffling)
      BY <1>3, <2>1 DEF SetShuffleEnabled
    <3> QED BY <3>1, <3>2, ChoiceKeepsTracks, RepeatsUnchanged
  <2>2. CASE ~on
    <3>1. player' = [player EXCEPT !.shuffle = FALSE, !.pick = NoPick]
      BY <1>3, <2>2 DEF SetShuffleEnabled
    <3>2. player'.current = player.current /\ player'.queue = player.queue
      BY <1>0, <3>1 DEF Players
    <3> QED BY <3>2, RepeatsUnchanged
  <2> QED BY <2>1, <2>2
<1>4. CASE Shuffle
  <2>1. (~player.shuffle) \in BOOLEAN
    OBVIOUS
  <2> QED BY <1>3, <1>4, <2>1 DEF Shuffle, ToggleShuffle
<1>5. CASE Loop \/ StopLoop \/ Replace
  <2>1. player'.current = player.current /\ player'.queue = player.queue
    BY <1>0, <1>5 DEF Loop, ToggleLoop, StopLoop, DisableLoop, Replace, ReplaceCurrent, Players
  <2> QED BY <2>1, RepeatsUnchanged
<1>6. CASE DropCurrent
  <2>1. player'.current = NoTrack /\ player'.queue = player.queue
    BY <1>0, <1>6 DEF DropCurrent, ClearCurrent, Players
  <2>2. \A i \in 1..Len(player.queue) : player.queue[i] # NoTrack
    BY <1>0, ElementOfSeq, NoTrackAssumption
  <2> QED BY <2>1, <2>2 DEF NoRepeats
<1>7. CASE Clear
  BY <1>7, EmptySeq DEF Clear, ClearPlayer, EmptyPlayer, NoRepeats
<1>8. CASE UNCHANGED player
  BY <1>8 DEF NoRepeats
<1> QED BY <1>1, <1>2, <1>3, <1>4, <1>5, <1>6, <1>7, <1>8 DEF Next, SetShuffle

\* Taking the next track plays what peek_next_track promised and removes that one
\* occurrence from the queue, whatever calls came before.
THEOREM NextTrackIsConserved == Spec => NextTrackConserved
<1> DEFINE Inv == TypeOK /\ NoRepeats
           Takes == PrepareNext /\ ~player.looping =>
                      /\ player'.current = PeekNextTrack(player)
                      /\ ToSet(player'.queue) = ToSet(player.queue) \ {player'.current}
                      /\ Len(player.queue) > 0 =>
                            Len(player'.queue) = Len(player.queue) - 1
<1>1. Init => Inv
  <2>1. Init => NoRepeats
    BY EmptySeq DEF Init, EmptyPlayer, NoRepeats
  <2> QED BY <2>1, TypeInit
<1>2. Inv /\ [Next]_player => Inv'
  BY TypeStep, NoRepeatsStep
<1>3. Inv /\ [Next]_player => [Takes]_player
  <2> SUFFICES ASSUME TypeOK, NoRepeats, PrepareNext, ~player.looping
               PROVE  /\ player'.current = PeekNextTrack(player)
                      /\ ToSet(player'.queue) = ToSet(player.queue) \ {player'.current}
                      /\ Len(player.queue) > 0 =>
                            Len(player'.queue) = Len(player.queue) - 1
    OBVIOUS
  <2>1. player \in Players /\ WellFormed(player) /\ player.queue \in Seq(Tracks)
    BY DEF TypeOK, Players
  <2>2. player' \in PrepareNextTrack(player)
    BY DEF PrepareNext
  <2>3. player'.current = PeekNextTrack(player)
    BY <2>1, <2>2, PrepareNextTakes
  <2>4. CASE player.queue = <<>>
    <3>1. player'.queue = <<>>
      BY <2>1, <2>2, <2>4, PrepareNextTakes
    <3>2. ToSet(<<>>) = {} /\ Len(<<>>) = 0
      BY EmptySeq DEF ToSet
    <3> QED BY <2>3, <2>4, <3>1, <3>2
  <2>5. CASE player.queue # <<>>
    <3>1. PICK i \in 1..Len(player.queue) :
            player'.current = player.queue[i] /\ player'.queue = RemoveAt(player.queue, i)
      BY <2>1, <2>2, <2>5, PrepareNextTakes
    <3>2. ToSet(RemoveAt(player.queue, i)) = ToSet(player.queue) \ {player.queue[i]}
      BY <2>1, RemoveAtTakesOne DEF NoRepeats
    <3>3. Len(RemoveAt(player.queue, i)) = Len(player.queue) - 1
      BY <2>1, RemoveAtType
    <3> QED BY <2>3, <3>1, <3>2, <3>3
  <2> QED BY <2>4, <2>5
<1> QED BY <1>1, <1>2, <1>3, PTL DEF Spec, NextTrackConserved

\* A prepared transition stays valid when tracks are added: an enqueue never
\* changes the track that peek_next_track names.
THEOREM EnqueueKeepsNextTrack == Spec => PeekSurvivesEnqueue
<1> DEFINE Kept == \A t \in Tracks :
                     EnqueueTrack(t) /\ PeekNextTrack(player) # NoTrack
                                     /\ player.current # NoTrack
                       => PeekNextTrack(player') = PeekNextTrack(player)
<1>1. TypeOK /\ [Next]_player => [Kept]_player
  BY EnqueueKeepsPeek DEF TypeOK, EnqueueTrack
<1> QED BY <1>1, TypeCorrect, PTL DEF Spec, PeekSurvivesEnqueue

-----------------------------------------------------------------------------
(* What the panel shows.                                                   *)

\* A sequence without repeats holds as many tracks as it is long.
LEMMA DistinctTracks ==
    ASSUME NEW q \in Seq(Tracks), \A i, j \in 1..Len(q) : i # j => q[i] # q[j]
    PROVE  Cardinality(ToSet(q)) = Len(q)
<1>1. Len(q) \in Nat /\ DOMAIN q = 1..Len(q) /\ q \in [1..Len(q) -> Tracks]
  BY LenProperties
<1>2. ToSet(q) = {q[i] : i \in 1..Len(q)}
  BY <1>1 DEF ToSet
<1>3. q \in [1..Len(q) -> ToSet(q)]
  BY <1>1, <1>2
<1>4. q \in Injection(1..Len(q), ToSet(q))
  BY <1>1, <1>3 DEF Injection, IsInjective
<1>5. q \in Surjection(1..Len(q), ToSet(q))
  BY <1>2, <1>3 DEF Surjection
<1>6. q \in Bijection(1..Len(q), ToSet(q))
  BY <1>4, <1>5 DEF Bijection
<1> QED BY <1>1, <1>6, FS_CountingElements DEF ExistsBijection

\* The first tracks of a sequence without repeats repeat nothing.
LEMMA FirstTracks ==
    ASSUME NEW q \in Seq(Tracks), \A i, j \in 1..Len(q) : i # j => q[i] # q[j],
           NEW n \in 0..Len(q)
    PROVE  LET first == SubSeq(q, 1, n) IN
           /\ first \in Seq(Tracks) /\ Len(first) = n
           /\ Cardinality(ToSet(first)) = n
           /\ n > 0 => Head(first) = q[1]
<1> DEFINE first == SubSeq(q, 1, n)
<1>1. Len(q) \in Nat /\ \A i \in 1..Len(q) : q[i] \in Tracks
  BY LenProperties, ElementOfSeq
<1>2. first \in Seq(Tracks) /\ Len(first) = n /\ \A i \in 1..n : first[i] = q[i]
  BY <1>1, SubSeqProperties
<1> HIDE DEF first
<1>3. \A i, j \in 1..Len(first) : i # j => first[i] # first[j]
  BY <1>1, <1>2
<1>4. Cardinality(ToSet(first)) = n
  BY <1>2, <1>3, DistinctTracks
<1>5. n > 0 => Head(first) = q[1]
  <2> SUFFICES ASSUME n > 0 PROVE Head(first) = q[1]
    OBVIOUS
  <2>1. first # <<>> /\ 1 \in 1..n
    BY <1>1, <1>2, EmptySeq
  <2> QED BY <1>2, <2>1, HeadTailProperties
<1> QED BY <1>2, <1>4, <1>5 DEF first

\* The selected track, and behind it the others in order: the queue over again,
\* each track once.
LEMMA SelectedFirst ==
    ASSUME NEW q \in Seq(Tracks), \A i, j \in 1..Len(q) : i # j => q[i] # q[j],
           NEW i \in 1..Len(q)
    PROVE  LET all == <<q[i]>> \o RemoveAt(q, i) IN
           /\ all \in Seq(Tracks) /\ Len(all) = Len(q) /\ all[1] = q[i]
           /\ \A j, k \in 1..Len(all) : j # k => all[j] # all[k]
<1> DEFINE rest == RemoveAt(q, i)
           all == <<q[i]>> \o rest
<1>1. Len(q) \in Nat /\ q[i] \in Tracks
  BY LenProperties, ElementOfSeq
<1>2. rest \in Seq(Tracks) /\ Len(rest) = Len(q) - 1
  BY RemoveAtType
<1>3. /\ \A j, k \in 1..Len(rest) : j # k => rest[j] # rest[k]
      /\ \A j \in 1..Len(rest) : rest[j] # q[i]
  BY RemoveAtTakesOne
<1> HIDE DEF rest
<1>4. <<q[i]>> \in Seq(Tracks) /\ Len(<<q[i]>>) = 1 /\ <<q[i]>>[1] = q[i]
  BY <1>1
<1>5. /\ all \in Seq(Tracks) /\ Len(all) = Len(q)
      /\ \A j \in 1..Len(q) : all[j] = IF j <= 1 THEN <<q[i]>>[j] ELSE rest[j - 1]
  BY <1>1, <1>2, <1>4, ConcatProperties
<1>6. all[1] = q[i] /\ \A j \in 2..Len(q) : all[j] = rest[j - 1] /\ j - 1 \in 1..Len(rest)
  BY <1>1, <1>2, <1>4, <1>5
<1> HIDE DEF all
<1>7. \A j, k \in 1..Len(q) : j # k => all[j] # all[k]
  <2> SUFFICES ASSUME NEW j \in 1..Len(q), NEW k \in 1..Len(q), j < k
               PROVE  all[j] # all[k]
    BY <1>1
  <2>1. k \in 2..Len(q) /\ (j = 1 \/ j \in 2..Len(q))
    BY <1>1
  <2> QED BY <1>1, <1>3, <1>6, <2>1
<1> QED BY <1>5, <1>6, <1>7 DEF all, rest

\* The panel shows first what the next skip will play, and shows no track twice,
\* for a queue of any length and however many of its tracks are asked for.
THEOREM PreviewAlwaysAgrees == Spec => []PreviewAgrees
<1>1. Init => TypeOK /\ NoRepeats
  <2>1. Init => NoRepeats
    BY EmptySeq DEF Init, EmptyPlayer, NoRepeats
  <2> QED BY <2>1, TypeInit
<1>2. TypeOK /\ NoRepeats /\ [Next]_player => TypeOK' /\ NoRepeats'
  BY TypeStep, NoRepeatsStep
<1>3. TypeOK /\ NoRepeats => PreviewAgrees
  <2> SUFFICES ASSUME TypeOK, NoRepeats, NEW limit \in 0..Len(player.queue) + 1
               PROVE  LET preview == UpcomingTracks(player, limit) IN
                      /\ Len(preview) = IF limit < Len(player.queue) THEN limit
                                        ELSE Len(player.queue)
                      /\ Cardinality(ToSet(preview)) = Len(preview)
                      /\ (preview # <<>> /\ ~player.looping) =>
                           Head(preview) = PeekNextTrack(player)
    BY DEF PreviewAgrees
  <2> DEFINE q == player.queue
             n == IF limit < Len(q) THEN limit ELSE Len(q)
             i == SelectedShuffleIndex(player)
             all == IF i = NoPick THEN q ELSE <<q[i]>> \o RemoveAt(q, i)
             preview == UpcomingTracks(player, limit)
  <2>1. /\ player \in Players /\ WellFormed(player) /\ q \in Seq(Tracks) /\ Len(q) \in Nat
        /\ \A j, k \in 1..Len(q) : j # k => q[j] # q[k]
        /\ n \in 0..Len(q)
    BY LenProperties DEF TypeOK, Players, NoRepeats
  <2>2. i = NoPick \/ i \in 1..Len(q)
    BY <2>1, SelectedInQueue DEF SelectedShuffleIndex
  <2>3. NoPick \notin 1..Len(q)
    BY DEF NoPick
  <2>4. /\ all \in Seq(Tracks) /\ Len(all) = Len(q)
        /\ \A j, k \in 1..Len(all) : j # k => all[j] # all[k]
        /\ i # NoPick => all[1] = q[i]
        /\ i = NoPick => all = q
    <3>1. CASE i = NoPick
      BY <2>1, <2>3, <3>1
    <3>2. CASE i \in 1..Len(q)
      <4>1. PICK k \in 1..Len(q) : k = i
        BY <3>2
      <4>2. i # NoPick /\ all = <<q[k]>> \o RemoveAt(q, k)
        BY <2>3, <4>1
      <4>3. LET picked == <<q[k]>> \o RemoveAt(q, k) IN
            /\ picked \in Seq(Tracks) /\ Len(picked) = Len(q) /\ picked[1] = q[k]
            /\ \A j, m \in 1..Len(picked) : j # m => picked[j] # picked[m]
        BY <2>1, SelectedFirst
      <4> QED BY <4>1, <4>2, <4>3
    <3> QED BY <2>2, <3>1, <3>2
  <2>5. preview = SubSeq(all, 1, n)
    BY <2>4 DEF UpcomingTracks
  <2>6. n > 0 /\ ~player.looping => all[1] = PeekNextTrack(player)
    <3> SUFFICES ASSUME n > 0, ~player.looping PROVE all[1] = PeekNextTrack(player)
      OBVIOUS
    <3>1. q # <<>>
      BY <2>1, EmptySeq
    <3>2. CASE player.shuffle
      BY <2>1, <2>3, <2>4, <3>1, <3>2, SelectedInQueue DEF PeekNextTrack
    <3>3. CASE ~player.shuffle
      <4>1. i = NoPick
        BY <3>3 DEF SelectedShuffleIndex
      <4> QED BY <2>1, <2>4, <3>1, <3>3, <4>1, HeadTailProperties DEF PeekNextTrack
    <3> QED BY <3>2, <3>3
  <2> HIDE DEF all, i, n, preview
  <2>7. /\ Len(preview) = n /\ Cardinality(ToSet(preview)) = n
        /\ n > 0 => Head(preview) = all[1]
    BY <2>1, <2>4, <2>5, FirstTracks
  <2>8. preview # <<>> => n > 0
    BY <2>1, <2>4, <2>5, <2>7, SubSeqEmpty
  <2> QED BY <2>1, <2>6, <2>7, <2>8 DEF n, preview
<1> QED BY <1>1, <1>2, <1>3, PTL DEF Spec
=============================================================================
