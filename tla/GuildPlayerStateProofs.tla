---------------------- MODULE GuildPlayerStateProofs ----------------------
(***************************************************************************)
(* Lemmas about the methods of the logical queue, for every set of tracks  *)
(* and queues of any length.                                               *)
(***************************************************************************)
EXTENDS GuildPlayerState, SequenceTheorems, TLAPS

\* A player that lacks at most its shuffle choice: what the methods of
\* session.rs pass to ensure_shuffle_choice.
Choosable(p) ==
    /\ p \in Players
    /\ ~(p.looping /\ p.shuffle)
    /\ p.pick # NoPick => p.shuffle /\ p.queue # <<>>
    /\ p.pick <= Len(p.queue)

\* A sequence is empty exactly when its length is zero.
LEMMA EmptyLen == \A S : \A q \in Seq(S) : q = <<>> <=> Len(q) = 0
  BY EmptySeq

\* ensure_shuffle_choice gives such a player the choice it lacks and changes
\* nothing else.
LEMMA ChoiceWellFormed ==
    ASSUME NEW p, Choosable(p), NEW q \in EnsureShuffleChoice(p)
    PROVE  /\ q \in Players /\ WellFormed(q)
           /\ q.current = p.current /\ q.queue = p.queue
           /\ q.looping = p.looping /\ q.shuffle = p.shuffle
           /\ p.pick # NoPick => q = p
<1>1. CASE p.shuffle /\ p.queue # <<>> /\ p.pick = NoPick
  <2>1. PICK i \in 1..Len(p.queue) : q = [p EXCEPT !.pick = i]
    BY <1>1 DEF EnsureShuffleChoice
  <2>2. i \in Nat /\ i # 0 /\ i <= Len(p.queue)
    BY LenProperties DEF Choosable, Players
  <2> QED BY <1>1, <2>1, <2>2 DEF Choosable, Players, WellFormed, NoPick
<1>2. CASE ~(p.shuffle /\ p.queue # <<>> /\ p.pick = NoPick)
  <2>1. q = p
    BY <1>2 DEF EnsureShuffleChoice
  <2> QED BY <1>2, <2>1 DEF Choosable, WellFormed
<1> QED BY <1>1, <1>2

\* The track that selected_shuffle_index names is in the queue.
LEMMA SelectedInQueue ==
    ASSUME NEW p \in Players, p.shuffle, p.queue # <<>>
    PROVE  SelectedShuffleIndex(p) \in 1..Len(p.queue)
<1>1. Len(p.queue) \in Nat /\ Len(p.queue) # 0
  BY EmptyLen, LenProperties DEF Players
<1> QED BY <1>1 DEF SelectedShuffleIndex

\* Removing the i-th track of a queue.
LEMMA RemoveAtType ==
    ASSUME NEW q \in Seq(Tracks), NEW i \in 1..Len(q)
    PROVE  /\ RemoveAt(q, i) \in Seq(Tracks)
           /\ Len(RemoveAt(q, i)) = Len(q) - 1
           /\ \A k \in 1..(Len(q) - 1) :
                RemoveAt(q, i)[k] = IF k < i THEN q[k] ELSE q[k + 1]
<1>1. Len(q) \in Nat /\ 1..Len(q) = DOMAIN q
  BY LenProperties
<1>2. /\ SubSeq(q, 1, i - 1) \in Seq(Tracks)
      /\ Len(SubSeq(q, 1, i - 1)) = i - 1
      /\ \A k \in 1..(i - 1) : SubSeq(q, 1, i - 1)[k] = q[k]
  BY <1>1, SubSeqProperties
<1>3. /\ SubSeq(q, i + 1, Len(q)) \in Seq(Tracks)
      /\ Len(SubSeq(q, i + 1, Len(q))) = Len(q) - i
      /\ \A k \in 1..(Len(q) - i) : SubSeq(q, i + 1, Len(q))[k] = q[i + k]
  BY <1>1, SubSeqProperties
<1> DEFINE front == SubSeq(q, 1, i - 1)
           back == SubSeq(q, i + 1, Len(q))
<1> HIDE DEF front, back
<1>4. /\ front \o back \in Seq(Tracks)
      /\ Len(front \o back) = Len(front) + Len(back)
      /\ \A k \in 1..(Len(front) + Len(back)) :
           (front \o back)[k] = IF k <= Len(front) THEN front[k] ELSE back[k - Len(front)]
  BY <1>2, <1>3, ConcatProperties DEF front, back
<1>5. /\ Len(front) = i - 1 /\ Len(back) = Len(q) - i
      /\ \A k \in 1..(i - 1) : front[k] = q[k]
      /\ \A k \in 1..(Len(q) - i) : back[k] = q[i + k]
  BY <1>2, <1>3 DEF front, back
<1>6. RemoveAt(q, i) = front \o back
  BY DEF RemoveAt, front, back
<1>7. ASSUME NEW k \in 1..(Len(q) - 1)
      PROVE  RemoveAt(q, i)[k] = IF k < i THEN q[k] ELSE q[k + 1]
  <2>1. CASE k < i
    BY <1>1, <1>4, <1>5, <1>6, <2>1
  <2>2. CASE ~(k < i)
    <3>1. k - (i - 1) \in 1..(Len(q) - i) /\ i + (k - (i - 1)) = k + 1
      BY <1>1, <2>2
    <3>2. RemoveAt(q, i)[k] = back[k - (i - 1)]
      BY <1>1, <1>4, <1>5, <1>6, <2>2
    <3> QED BY <1>5, <2>2, <3>1, <3>2
  <2> QED BY <2>1, <2>2
<1>8. Len(RemoveAt(q, i)) = Len(q) - 1
  <2>1. Len(front \o back) = (i - 1) + (Len(q) - i)
    BY <1>4, <1>5
  <2> QED BY <1>1, <1>6, <2>1
<1> QED BY <1>4, <1>6, <1>7, <1>8, Zenon

LEMMA EnqueueWellFormed ==
    ASSUME NEW p \in Players, WellFormed(p), NEW t \in Tracks, NEW q \in Enqueue(p, t)
    PROVE  q \in Players /\ WellFormed(q)
<1>1. CASE BecomesCurrent(p)
  BY <1>1 DEF Enqueue, Players, WellFormed
<1>2. CASE ~BecomesCurrent(p)
  <2> DEFINE longer == [p EXCEPT !.queue = Append(p.queue, t)]
  <2>1. /\ Append(p.queue, t) \in Seq(Tracks)
        /\ Append(p.queue, t) # <<>>
        /\ Len(p.queue) \in Nat
        /\ Len(Append(p.queue, t)) = Len(p.queue) + 1
    BY AppendProperties, LenProperties DEF Players
  <2>2. Choosable(longer)
    BY <2>1 DEF Choosable, Players, WellFormed, NoPick
  <2>3. q \in EnsureShuffleChoice(longer)
    BY <1>2 DEF Enqueue
  <2> QED BY <2>2, <2>3, ChoiceWellFormed
<1> QED BY <1>1, <1>2

LEMMA PrepareNextWellFormed ==
    ASSUME NEW p \in Players, WellFormed(p), NEW q \in PrepareNextTrack(p)
    PROVE  q \in Players /\ WellFormed(q)
<1>1. CASE p.looping
  BY <1>1 DEF PrepareNextTrack
<1>2. CASE ~p.looping /\ p.queue = <<>>
  BY <1>2 DEF PrepareNextTrack, Players, WellFormed, NoPick
<1>3. CASE ~p.looping /\ p.queue # <<>> /\ p.shuffle
  <2>1. PICK c \in EnsureShuffleChoice(p) :
          LET i == SelectedShuffleIndex(c) IN
          q \in EnsureShuffleChoice([c EXCEPT !.current = c.queue[i],
                                              !.queue = RemoveAt(@, i),
                                              !.pick = NoPick])
    BY <1>3 DEF PrepareNextTrack
  <2>2. Choosable(p)
    BY DEF Choosable, WellFormed
  <2>3. c \in Players /\ c.shuffle /\ c.queue # <<>> /\ ~c.looping
    BY <1>3, <2>1, <2>2, ChoiceWellFormed
  <2> DEFINE i == SelectedShuffleIndex(c)
  <2>4. i \in 1..Len(c.queue)
    BY <2>3, SelectedInQueue
  <2>5. /\ c.queue \in Seq(Tracks)
        /\ c.queue[i] \in Tracks
        /\ RemoveAt(c.queue, i) \in Seq(Tracks)
    BY <2>3, <2>4, RemoveAtType, ElementOfSeq DEF Players
  <2> DEFINE rest == [c EXCEPT !.current = c.queue[i],
                               !.queue = RemoveAt(c.queue, i), !.pick = NoPick]
  <2>6. Len(RemoveAt(c.queue, i)) \in Nat
    BY <2>5, LenProperties
  <2>7. Choosable(rest)
    <3>1. rest \in Players
      BY <2>3, <2>5 DEF Players, NoPick
    <3>2. ~rest.looping /\ rest.pick = 0 /\ rest.queue = RemoveAt(c.queue, i)
      BY <2>3 DEF Players, NoPick
    <3> QED BY <2>6, <3>1, <3>2 DEF Choosable, NoPick
  <2>8. q \in EnsureShuffleChoice(rest)
    BY <2>1
  <2> QED BY <2>7, <2>8, ChoiceWellFormed
<1>4. CASE ~p.looping /\ p.queue # <<>> /\ ~p.shuffle
  <2>1. q = [p EXCEPT !.current = Head(p.queue), !.queue = Tail(p.queue)]
    BY <1>4 DEF PrepareNextTrack
  <2>2. Head(p.queue) \in Tracks /\ Tail(p.queue) \in Seq(Tracks)
    BY <1>4, HeadTailProperties DEF Players
  <2>3. Len(Tail(p.queue)) \in Nat
    BY <2>2, LenProperties
  <2>4. p.pick = 0
    BY <1>4 DEF WellFormed, NoPick
  <2>5. q \in Players
    BY <2>1, <2>2 DEF Players
  <2>6. ~q.shuffle /\ q.pick = 0 /\ q.queue = Tail(p.queue)
    BY <1>4, <2>1, <2>4 DEF Players
  <2> QED BY <2>3, <2>5, <2>6 DEF WellFormed, NoPick
<1> QED BY <1>1, <1>2, <1>3, <1>4

LEMMA SetShuffleWellFormed ==
    ASSUME NEW p \in Players, WellFormed(p), NEW on \in BOOLEAN,
           NEW q \in SetShuffleEnabled(p, on)
    PROVE  q \in Players /\ WellFormed(q)
<1>1. CASE on
  <2> DEFINE shuffling == [p EXCEPT !.shuffle = TRUE, !.looping = FALSE]
  <2>1. Choosable(shuffling)
    BY DEF Choosable, Players, WellFormed
  <2>2. q \in EnsureShuffleChoice(shuffling)
    BY <1>1 DEF SetShuffleEnabled
  <2> QED BY <2>1, <2>2, ChoiceWellFormed
<1>2. CASE ~on
  <2>1. q = [p EXCEPT !.shuffle = FALSE, !.pick = NoPick]
    BY <1>2 DEF SetShuffleEnabled
  <2>2. Len(p.queue) \in Nat
    BY LenProperties DEF Players
  <2>3. q \in Players /\ ~q.shuffle /\ q.pick = 0 /\ q.queue = p.queue
    BY <2>1 DEF Players, NoPick
  <2> QED BY <2>2, <2>3 DEF WellFormed, NoPick
<1> QED BY <1>1, <1>2

\* The methods that draw nothing.
LEMMA UpdatesWellFormed ==
    ASSUME NEW p \in Players, WellFormed(p), NEW t \in Tracks \cup {NoTrack}
    PROVE  /\ ToggleLoop(p) \in Players /\ WellFormed(ToggleLoop(p))
           /\ DisableLoop(p) \in Players /\ WellFormed(DisableLoop(p))
           /\ ReplaceCurrent(p, t) \in Players /\ WellFormed(ReplaceCurrent(p, t))
           /\ ClearCurrent(p) \in Players /\ WellFormed(ClearCurrent(p))
           /\ ClearPlayer(p) \in Players /\ WellFormed(ClearPlayer(p))
<1>0. Len(p.queue) \in Nat
  BY LenProperties DEF Players
<1>1. ToggleLoop(p) \in Players /\ WellFormed(ToggleLoop(p))
  <2>1. CASE p.looping
    BY <2>1 DEF ToggleLoop, Players, WellFormed
  <2>2. CASE ~p.looping
    <3> DEFINE q == ToggleLoop(p)
    <3>1. q = [p EXCEPT !.looping = TRUE, !.shuffle = FALSE, !.pick = NoPick]
      BY <2>2 DEF ToggleLoop
    <3> HIDE DEF q
    <3>2. q \in Players /\ ~q.shuffle /\ q.pick = 0 /\ q.queue = p.queue
      BY <3>1 DEF Players, NoPick
    <3> QED BY <1>0, <3>2 DEF q, WellFormed, NoPick
  <2> QED BY <2>1, <2>2
<1>2. DisableLoop(p) \in Players /\ WellFormed(DisableLoop(p))
  BY DEF DisableLoop, Players, WellFormed
<1>3. ReplaceCurrent(p, t) \in Players /\ WellFormed(ReplaceCurrent(p, t))
  BY DEF ReplaceCurrent, Players, WellFormed
<1>4. ClearCurrent(p) \in Players /\ WellFormed(ClearCurrent(p))
  BY DEF ClearCurrent, Players, WellFormed
<1>5. ClearPlayer(p) \in Players /\ WellFormed(ClearPlayer(p))
  BY EmptySeq DEF ClearPlayer, EmptyPlayer, Players, WellFormed, NoPick
<1> QED BY <1>1, <1>2, <1>3, <1>4, <1>5

\* prepare_next_track, when it does not loop: the track it makes current is the
\* one peek_next_track names, removed from its place in the queue.
LEMMA PrepareNextTakes ==
    ASSUME NEW p \in Players, WellFormed(p), ~p.looping, NEW q \in PrepareNextTrack(p)
    PROVE  /\ q.current = PeekNextTrack(p)
           /\ p.queue = <<>> => q.queue = <<>> /\ q.current = NoTrack
           /\ p.queue # <<>> => \E i \in 1..Len(p.queue) :
                /\ q.current = p.queue[i]
                /\ q.queue = RemoveAt(p.queue, i)
<1>1. CASE p.queue = <<>>
  BY <1>1 DEF PrepareNextTrack, PeekNextTrack, Players
<1>2. CASE p.queue # <<>> /\ p.shuffle
  <2> DEFINE i == SelectedShuffleIndex(p)
             rest == [p EXCEPT !.current = p.queue[i],
                               !.queue = RemoveAt(p.queue, i), !.pick = NoPick]
  <2>1. EnsureShuffleChoice(p) = {p}
    BY <1>2 DEF WellFormed, EnsureShuffleChoice
  <2>2. q \in EnsureShuffleChoice(rest)
    BY <1>2, <2>1 DEF PrepareNextTrack
  <2>3. i \in 1..Len(p.queue)
    BY <1>2, SelectedInQueue
  <2>4. /\ rest \in Players /\ rest.pick = NoPick /\ ~rest.looping
        /\ rest.current = p.queue[i] /\ rest.queue = RemoveAt(p.queue, i)
    BY <2>3, RemoveAtType, ElementOfSeq DEF Players, NoPick
  <2>5. Len(rest.queue) \in Nat
    BY <2>4, LenProperties DEF Players
  <2>6. Choosable(rest)
    BY <2>4, <2>5 DEF Choosable, NoPick
  <2>7. q.current = p.queue[i] /\ q.queue = RemoveAt(p.queue, i)
    BY <2>2, <2>4, <2>6, ChoiceWellFormed
  <2> QED BY <1>2, <2>3, <2>7 DEF PeekNextTrack
<1>3. CASE p.queue # <<>> /\ ~p.shuffle
  <2>1. q = [p EXCEPT !.current = Head(p.queue), !.queue = Tail(p.queue)]
    BY <1>3 DEF PrepareNextTrack
  <2>2. p.queue \in Seq(Tracks) /\ Len(p.queue) \in Nat /\ Len(p.queue) # 0
    BY <1>3, EmptyLen, LenProperties DEF Players
  <2>3. Head(p.queue) = p.queue[1] /\ 1 \in 1..Len(p.queue)
    BY <2>2
  <2>4. Tail(p.queue) = RemoveAt(p.queue, 1)
    <3>1. Tail(p.queue) = SubSeq(p.queue, 2, Len(p.queue))
      BY <1>3, <2>2, TailIsSubSeq
    <3>2. Tail(p.queue) \in Seq(Tracks)
      BY <1>3, <2>2, HeadTailProperties
    <3>3. SubSeq(p.queue, 1, 0) = <<>>
      BY SubSeqEmpty
    <3>4. RemoveAt(p.queue, 1) = SubSeq(p.queue, 1, 0) \o SubSeq(p.queue, 2, Len(p.queue))
      BY DEF RemoveAt
    <3> QED BY <3>1, <3>2, <3>3, <3>4, ConcatEmptySeq
  <2>5. q.current = p.queue[1] /\ q.queue = RemoveAt(p.queue, 1)
    BY <2>1, <2>3, <2>4 DEF Players
  <2> QED BY <1>3, <2>3, <2>5 DEF PeekNextTrack
<1> QED BY <1>1, <1>2, <1>3

\* Removing one track of a queue without repeats removes it from the tracks
\* that are held, and no other.
LEMMA RemoveAtTakesOne ==
    ASSUME NEW q \in Seq(Tracks), NEW i \in 1..Len(q),
           \A j, k \in 1..Len(q) : j # k => q[j] # q[k]
    PROVE  /\ ToSet(RemoveAt(q, i)) = ToSet(q) \ {q[i]}
           /\ \A j, k \in 1..Len(RemoveAt(q, i)) :
                j # k => RemoveAt(q, i)[j] # RemoveAt(q, i)[k]
           /\ \A j \in 1..Len(RemoveAt(q, i)) : RemoveAt(q, i)[j] # q[i]
<1> DEFINE rest == RemoveAt(q, i)
<1>1. Len(q) \in Nat /\ DOMAIN q = 1..Len(q)
  BY LenProperties
<1>2. /\ rest \in Seq(Tracks)
      /\ Len(rest) = Len(q) - 1
      /\ \A k \in 1..(Len(q) - 1) : rest[k] = IF k < i THEN q[k] ELSE q[k + 1]
  BY RemoveAtType
<1>3. DOMAIN rest = 1..(Len(q) - 1)
  BY <1>2, LenProperties
<1> HIDE DEF rest
<1>4. \A j, k \in 1..Len(rest) : j # k => rest[j] # rest[k]
  BY <1>1, <1>2
<1>5. \A j \in 1..Len(rest) : rest[j] # q[i]
  BY <1>1, <1>2
<1>6. ASSUME NEW k \in 1..(Len(q) - 1)
      PROVE  \E j \in 1..Len(q) : j # i /\ rest[k] = q[j]
  BY <1>1, <1>2
<1>7. ASSUME NEW j \in 1..Len(q), j # i
      PROVE  \E k \in 1..(Len(q) - 1) : rest[k] = q[j]
  <2>1. CASE j < i
    BY <1>1, <1>2, <2>1
  <2>2. CASE j > i
    <3>1. j - 1 \in 1..(Len(q) - 1) /\ ~(j - 1 < i) /\ (j - 1) + 1 = j
      BY <1>1, <2>2
    <3> QED BY <1>2, <3>1
  <2> QED BY <1>1, <1>7, <2>1, <2>2
<1>8. ToSet(rest) = ToSet(q) \ {q[i]}
  <2>1. ASSUME NEW x \in ToSet(rest)
        PROVE  x \in ToSet(q) \ {q[i]}
    <3>1. PICK k \in 1..(Len(q) - 1) : x = rest[k]
      BY <1>3, <2>1 DEF ToSet
    <3>2. PICK j \in 1..Len(q) : j # i /\ x = q[j]
      BY <1>6, <3>1
    <3> QED BY <1>1, <3>2 DEF ToSet
  <2>2. ASSUME NEW x \in ToSet(q) \ {q[i]}
        PROVE  x \in ToSet(rest)
    <3>1. PICK j \in 1..Len(q) : x = q[j]
      BY <1>1, <2>2 DEF ToSet
    <3>2. PICK k \in 1..(Len(q) - 1) : rest[k] = x
      BY <1>7, <2>2, <3>1
    <3> QED BY <1>3, <3>2 DEF ToSet
  <2> QED BY <2>1, <2>2
<1> QED BY <1>4, <1>5, <1>8 DEF rest

LEMMA ChoiceKeepsTracks ==
    ASSUME NEW p, NEW q \in EnsureShuffleChoice(p), p \in Players
    PROVE  q.current = p.current /\ q.queue = p.queue
  BY DEF EnsureShuffleChoice, Players

\* enqueue behind a chosen next track keeps the choice.
LEMMA EnqueueKeepsPeek ==
    ASSUME NEW p \in Players, WellFormed(p), NEW t \in Tracks, NEW q \in Enqueue(p, t),
           PeekNextTrack(p) # NoTrack, p.current # NoTrack
    PROVE  PeekNextTrack(q) = PeekNextTrack(p)
<1> DEFINE longer == [p EXCEPT !.queue = Append(p.queue, t)]
<1>1. q \in EnsureShuffleChoice(longer)
  BY DEF Enqueue, BecomesCurrent
<1>2. /\ p.queue \in Seq(Tracks)
      /\ Append(p.queue, t) \in Seq(Tracks)
      /\ Append(p.queue, t) # <<>>
      /\ Len(p.queue) \in Nat
      /\ Len(Append(p.queue, t)) = Len(p.queue) + 1
      /\ \A i \in 1..Len(p.queue) : Append(p.queue, t)[i] = p.queue[i]
  BY AppendProperties, LenProperties DEF Players
<1>3. /\ longer \in Players /\ longer.pick = p.pick /\ longer.looping = p.looping
      /\ longer.shuffle = p.shuffle /\ longer.current = p.current
      /\ longer.queue = Append(p.queue, t)
  BY <1>2 DEF Players
<1>4. Choosable(longer)
  <2>1. p.pick \in Nat /\ p.pick <= Len(p.queue)
    BY DEF Players, WellFormed
  <2>2. p.pick <= Len(Append(p.queue, t))
    BY <1>2, <2>1
  <2> HIDE DEF longer
  <2> QED BY <1>2, <1>3, <2>2 DEF Choosable, WellFormed
<1>5. /\ q.current = p.current /\ q.queue = Append(p.queue, t)
      /\ q.looping = p.looping /\ q.shuffle = p.shuffle
      /\ p.pick # NoPick => q.pick = p.pick
  BY <1>1, <1>3, <1>4, ChoiceWellFormed
<1>6. CASE p.looping
  BY <1>5, <1>6 DEF PeekNextTrack
<1>7. CASE ~p.looping /\ p.shuffle
  <2>1. p.queue # <<>>
    BY <1>7 DEF PeekNextTrack
  <2>2. p.pick # NoPick /\ p.pick \in Nat /\ p.pick <= Len(p.queue)
    BY <1>7, <2>1 DEF WellFormed, Players
  <2>3. p.pick \in 1..Len(p.queue) /\ p.pick \in 1..(Len(p.queue) + 1)
    BY <1>2, <2>2 DEF NoPick
  <2>4. SelectedShuffleIndex(p) = p.pick
    BY <1>7, <2>1, <2>3 DEF SelectedShuffleIndex
  <2>5. SelectedShuffleIndex(q) = p.pick
    BY <1>2, <1>5, <1>7, <2>2, <2>3 DEF SelectedShuffleIndex
  <2> QED BY <1>2, <1>5, <1>7, <2>1, <2>3, <2>4, <2>5 DEF PeekNextTrack
<1>8. CASE ~p.looping /\ ~p.shuffle
  <2>1. p.queue # <<>>
    BY <1>8 DEF PeekNextTrack
  <2>2. Head(Append(p.queue, t)) = Head(p.queue)
    BY <1>2, <2>1, HeadTailAppend
  <2> QED BY <1>2, <1>5, <1>8, <2>1, <2>2 DEF PeekNextTrack
<1> QED BY <1>6, <1>7, <1>8

\* enqueue makes a queue one longer at most, and no other method any longer.
LEMMA QueueLengths ==
    ASSUME NEW p \in Players, WellFormed(p)
    PROVE  /\ Len(p.queue) \in Nat
           /\ \A t \in Tracks : \A q \in Enqueue(p, t) :
                Len(q.queue) \in Nat /\ Len(q.queue) <= Len(p.queue) + 1
           /\ \A q \in PrepareNextTrack(p) : Len(q.queue) \in Nat /\ Len(q.queue) <= Len(p.queue)
           /\ \A q \in {ToggleLoop(p)} \cup ToggleShuffle(p) : q.queue = p.queue
           /\ \A t \in Tracks \cup {NoTrack} : ReplaceCurrent(p, t).queue = p.queue
           /\ DisableLoop(p).queue = p.queue
           /\ ClearCurrent(p).queue = p.queue
           /\ Len(ClearPlayer(p).queue) = 0
<1>1. p.queue \in Seq(Tracks) /\ Len(p.queue) \in Nat
  BY LenProperties DEF Players
<1>2. ASSUME NEW t \in Tracks, NEW q \in Enqueue(p, t)
      PROVE  Len(q.queue) \in Nat /\ Len(q.queue) <= Len(p.queue) + 1
  <2> DEFINE longer == [p EXCEPT !.queue = Append(p.queue, t)]
  <2>1. /\ Append(p.queue, t) \in Seq(Tracks)
        /\ Len(Append(p.queue, t)) = Len(p.queue) + 1
    BY <1>1, AppendProperties
  <2>2. longer \in Players /\ longer.queue = Append(p.queue, t)
    BY <2>1 DEF Players
  <2>3. q.queue = p.queue \/ q \in EnsureShuffleChoice(longer)
    BY <1>2 DEF Enqueue, Players
  <2> HIDE DEF longer
  <2>4. q.queue = p.queue \/ q.queue = Append(p.queue, t)
    BY <2>2, <2>3, ChoiceKeepsTracks
  <2> QED BY <1>1, <2>1, <2>4
<1>3. ASSUME NEW q \in PrepareNextTrack(p)
      PROVE  Len(q.queue) \in Nat /\ Len(q.queue) <= Len(p.queue)
  <2>1. CASE p.looping
    BY <1>1, <1>3, <2>1 DEF PrepareNextTrack
  <2>2. CASE ~p.looping /\ p.queue = <<>>
    BY <1>1, <1>3, <2>2, PrepareNextTakes
  <2>3. CASE ~p.looping /\ p.queue # <<>>
    <3>1. PICK i \in 1..Len(p.queue) : q.queue = RemoveAt(p.queue, i)
      BY <1>3, <2>3, PrepareNextTakes
    <3>2. Len(q.queue) = Len(p.queue) - 1
      BY <1>1, <3>1, RemoveAtType
    <3> QED BY <1>1, <3>2
  <2> QED BY <2>1, <2>2, <2>3
<1>4. ASSUME NEW q \in ToggleShuffle(p)
      PROVE  q.queue = p.queue
  <2> DEFINE shuffling == [p EXCEPT !.shuffle = TRUE, !.looping = FALSE]
  <2>1. shuffling \in Players /\ shuffling.queue = p.queue
    BY DEF Players
  <2>2. q \in EnsureShuffleChoice(shuffling) \/ q.queue = p.queue
    BY <1>4 DEF ToggleShuffle, SetShuffleEnabled, Players
  <2> HIDE DEF shuffling
  <2> QED BY <2>1, <2>2, ChoiceKeepsTracks
<1>5. ToggleLoop(p).queue = p.queue
  BY DEF ToggleLoop, Players
<1>6. Len(ClearPlayer(p).queue) = 0
  BY EmptySeq DEF ClearPlayer, EmptyPlayer
<1> QED BY <1>1, <1>2, <1>3, <1>4, <1>5, <1>6 DEF ReplaceCurrent, DisableLoop, ClearCurrent, Players

\* Loop and shuffle are no matter of the current track.
LEMMA TogglesKeepCurrent ==
    ASSUME NEW p \in Players,
           NEW q \in {DisableLoop(p), ToggleLoop(p)} \cup ToggleShuffle(p)
    PROVE  q.current = p.current
<1> DEFINE shuffling == [p EXCEPT !.shuffle = TRUE, !.looping = FALSE]
<1>1. shuffling \in Players /\ shuffling.current = p.current
  BY DEF Players
<1>2. q \in EnsureShuffleChoice(shuffling) \/ q.current = p.current
  BY DEF DisableLoop, ToggleLoop, ToggleShuffle, SetShuffleEnabled, Players
<1> HIDE DEF shuffling
<1> QED BY <1>1, <1>2, ChoiceKeepsTracks

\* A track that is queued behind the current one does not replace it.
LEMMA EnqueueKeepsCurrent ==
    ASSUME NEW p \in Players, NEW t \in Tracks, NEW q \in Enqueue(p, t), ~BecomesCurrent(p)
    PROVE  q.current = p.current
<1> DEFINE longer == [p EXCEPT !.queue = Append(p.queue, t)]
<1>1. longer \in Players /\ longer.current = p.current
  BY AppendProperties DEF Players
<1>2. q \in EnsureShuffleChoice(longer)
  BY DEF Enqueue
<1> HIDE DEF longer
<1> QED BY <1>1, <1>2, ChoiceKeepsTracks
=============================================================================
