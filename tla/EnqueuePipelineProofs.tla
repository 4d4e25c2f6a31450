----------------------- MODULE EnqueuePipelineProofs -----------------------
(***************************************************************************)
(* Theorems about the enqueue pipeline, for every number of requests,      *)
(* sessions and disconnects, and every limit.                              *)
(***************************************************************************)
EXTENDS EnqueuePipeline, GuildPlayerStateProofs, FiniteSetTheorems,
        WellFoundedInduction

-----------------------------------------------------------------------------
(* next_commit_seq moves past what was withdrawn, and no further.          *)

\* Beyond a number there is a first one that a finite set does not hold.
LEMMA FirstOutside ==
    ASSUME NEW next \in Nat, NEW dropped \in SUBSET Nat, IsFiniteSet(dropped)
    PROVE  \E n \in next..(next + Cardinality(dropped)) :
             /\ n \notin dropped
             /\ next..(n - 1) \subseteq dropped
<1> DEFINE Outside == {n \in Nat : n >= next /\ n \notin dropped}
           size == Cardinality(dropped)
<1>1. size \in Nat
  BY FS_CardinalityType
<1>2. Outside # {}
  <2> SUFFICES ASSUME Outside = {} PROVE FALSE
    OBVIOUS
  <2>1. next..(next + size) \in SUBSET dropped
    BY <1>1
  <2>2. Cardinality(next..(next + size)) = size + 1
    BY <1>1, FS_Interval
  <2>3. Cardinality(next..(next + size)) <= size
    BY <2>1, FS_Subset
  <2> QED BY <1>1, <2>2, <2>3
<1> DEFINE Before(n) == next..(n - 1)
           Befores == {Before(n) : n \in Outside}
<1>3. PICK n \in Outside : \A m \in Outside : ~(m < n)
  <2>1. Befores # {} /\ Befores \subseteq FiniteSubsetsOf(Nat)
    <3>1. ASSUME NEW n \in Outside
          PROVE  Before(n) \subseteq Nat /\ IsFiniteSet(Before(n))
      <4>1. next \in Int /\ n - 1 \in Int
        OBVIOUS
      <4> QED BY <4>1, FS_Interval
    <3> QED BY <1>2, <3>1 DEF FiniteSubsetsOf
  <2>2. PICK P \in Befores :
          \A Q \in Befores : <<Q, P>> \notin StrictSubsetOrdering(Nat)
    BY <2>1, FS_StrictSubsetOrderingWellFounded, WFMin
  <2>3. PICK n \in Outside : P = Before(n)
    BY <2>2
  <2>4. ASSUME NEW m \in Outside, m < n
        PROVE  FALSE
    <3>1. Before(m) \subseteq Before(n) /\ m \in Before(n) /\ m \notin Before(m)
      BY <2>4
    <3>2. <<Before(m), Before(n)>> \in StrictSubsetOrdering(Nat)
      BY <3>1, <2>1 DEF StrictSubsetOrdering
    <3> QED BY <2>2, <2>3, <3>2
  <2> QED BY <2>4
<1>4. next..(n - 1) \in SUBSET dropped
  BY <1>3
<1>5. Cardinality(next..(n - 1)) = n - next
  <2>1. n \in Nat /\ n >= next /\ n - 1 \in Int /\ next \in Int
    OBVIOUS
  <2>2. Cardinality(next..(n - 1)) = IF next > n - 1 THEN 0 ELSE (n - 1) - next + 1
    BY <2>1, FS_Interval, Zenon
  <2> QED BY <2>1, <2>2
<1>6. n - next <= size
  BY <1>4, <1>5, FS_Subset
<1> QED BY <1>1, <1>4, <1>6

LEMMA SkipCancelledStops ==
    ASSUME NEW next \in Nat, NEW dropped \in SUBSET Nat, IsFiniteSet(dropped)
    PROVE  /\ SkipCancelled(next, dropped) \in Nat
           /\ SkipCancelled(next, dropped) >= next
           /\ SkipCancelled(next, dropped) \notin dropped
           /\ next..(SkipCancelled(next, dropped) - 1) \subseteq dropped
<1>1. Cardinality(dropped) \in Nat
  BY FS_CardinalityType
<1> DEFINE Stop(n) == n \notin dropped /\ next..(n - 1) \subseteq dropped
<1>2. \E n \in next..(next + Cardinality(dropped)) : Stop(n)
  BY FirstOutside
<1> HIDE DEF Stop
<1>3. LET n == CHOOSE n \in next..(next + Cardinality(dropped)) : Stop(n)
      IN  n \in next..(next + Cardinality(dropped)) /\ Stop(n)
  BY <1>2
<1> USE DEF Stop
<1> QED BY <1>1, <1>3 DEF SkipCancelled

-----------------------------------------------------------------------------
(* The inductive invariant behind the commit cursor.                       *)

\* Sessions in use were handed out, and one to come has numbered no request.
SessionsExist ==
    /\ current <= lastSession
    /\ dsession <= lastSession
    /\ \A r \in Requests : session[r] <= lastSession
    /\ \A s \in Sessions : s > lastSession => order[s] = <<>>

\* A task that has passed get_or_create_session works for a session, and
\* play_request runs only for a task that is starting a track.
TasksHaveSession ==
    \A r \in Requests : /\ pc[r] \notin {"idle", "joined"} => session[r] # NoSession
                        /\ play[r].step # "none" => pc[r] = "starting"

\* So does the worker, and every deck was started for a session.
WorkerHasSession ==
    /\ \A d \in decks \cup events : d.session # NoSession
    /\ worker.pc # "idle" => worker.event.session # NoSession
    /\ play[Worker].step # "none" => worker.pc = "starting"

\* Session ids are not reused, so what found its session replaced stays right:
\* the sequences of that session may be drained.
ReplacedForGood ==
    /\ dpc = "clear" => dsession # current
    /\ \A r \in Requests : play[r].step = "expired" => session[r] # current

\* An outcome is set only for a pending sequence, and the cursor is at most one
\* past the last sequence.
CursorInRange ==
    \A s \in Sessions : /\ ready[s] \subseteq pending[s]
                        /\ nextCommit[s] <= Len(order[s]) + 1

Known ==
    /\ SessionsExist
    /\ TasksHaveSession
    /\ WorkerHasSession
    /\ ReplacedForGood
    /\ CursorInRange

CursorInv == TypeOK /\ Known /\ CommitCursor

\* The sequences that are withdrawn, or are being, are finitely many, so the
\* cursor comes to stand on the first that is not.
LEMMA SkipAhead ==
    ASSUME CursorInv, NEW s \in Sessions, NEW mine \in SUBSET pending[s]
    PROVE  LET dropped == cancelled[s] \cup mine
               next == SkipCancelled(nextCommit[s], dropped)
           IN  /\ next \in Nat /\ next >= nextCommit[s] /\ next \notin dropped
               /\ nextCommit[s]..(next - 1) \subseteq dropped
<1> DEFINE dropped == cancelled[s] \cup mine
<1>1. /\ nextCommit[s] \in Nat /\ pending[s] \in SUBSET Nat
      /\ cancelled[s] \in SUBSET Nat /\ order[s] \in Seq(Requests)
  BY DEF CursorInv, TypeOK, PendingType
<1>2. Len(order[s]) \in Nat
  BY <1>1, LenProperties
<1>3. dropped \subseteq nextCommit[s]..Len(order[s])
  BY DEF CursorInv, CommitCursor
<1>4. IsFiniteSet(dropped)
  <2>1. nextCommit[s] \in Int /\ Len(order[s]) \in Int
    BY <1>1, <1>2
  <2>2. IsFiniteSet(nextCommit[s]..Len(order[s]))
    BY <2>1, FS_Interval
  <2> QED BY <1>3, <2>2, FS_Subset
<1>5. dropped \in SUBSET Nat
  BY <1>1
<1> QED BY <1>1, <1>4, <1>5, SkipCancelledStops

LEMMA NextSequenceStops ==
    ASSUME CursorInv, NEW s \in Sessions
    PROVE  LET n == NextSequence(s)
           IN  /\ n \in Nat /\ n >= nextCommit[s] /\ n \notin cancelled[s]
               /\ nextCommit[s]..(n - 1) \subseteq cancelled[s]
<1>1. {} \in SUBSET pending[s] /\ cancelled[s] \cup {} = cancelled[s]
  OBVIOUS
<1> QED BY <1>1, SkipAhead DEF NextSequence

-----------------------------------------------------------------------------
(* Every action keeps the types.                                           *)

USE DEF coordVars, pendingVars, deckVars, sessionVars, taskVars, runtimeVars, otherVars

LEMMA InSession ==
    ASSUME CursorInv, NEW r \in Requests, pc[r] \notin {"idle", "joined"}
    PROVE  session[r] \in Sessions
<1>1. session[r] \in 0..MaxSessions
  BY DEF CursorInv, TypeOK, TaskType
<1>2. session[r] # 0
  BY DEF CursorInv, Known, TasksHaveSession, NoSession
<1> QED BY <1>1, <1>2, BoundsAssumption DEF Sessions

LEMMA WorkerSession ==
    ASSUME CursorInv, worker.pc # "idle"
    PROVE  worker.event.session \in Sessions
<1>1. worker.event.session \in 0..MaxSessions
  BY DEF CursorInv, TypeOK, OtherType, Workers, Decks
<1>2. worker.event.session # 0
  BY DEF CursorInv, Known, WorkerHasSession, NoSession
<1> QED BY <1>1, <1>2, BoundsAssumption DEF Sessions

LEMMA IdleWorkerType == IdleWorker \in Workers
<1>1. 0 \in 0..MaxSessions
  BY BoundsAssumption
<1> QED BY <1>1 DEF IdleWorker, Workers, Decks, Deck, NoDeck, NoSession

\* The player of one session is replaced by a well-formed one.
LEMMA PlayerUpdate ==
    ASSUME PlayerType, NEW s \in Sessions, NEW p \in Players, WellFormed(p),
           player' = [player EXCEPT ![s] = p]
    PROVE  PlayerType'
  BY DEF PlayerType

\* What the flush commits is a request.
LEMMA CommitsTrack ==
    ASSUME CursorInv, NEW s \in Sessions, NEW n \in ready[s]
    PROVE  order[s][n] \in Tracks
<1>1. n \in nextCommit[s]..Len(order[s]) /\ nextCommit[s] \in Nat \ {0} /\ n \in Nat
  BY DEF CursorInv, Known, CursorInRange, CommitCursor, TypeOK, PendingType
<1>2. order[s] \in Seq(Tracks)
  BY DEF CursorInv, TypeOK, PendingType, Requests
<1> QED BY <1>1, <1>2, ElementOfSeq

\* One task moves its play_request on, gives it up or begins a new one.
LEMMA PlayUpdate ==
    ASSUME play \in [Holders -> Plays], NEW h \in Holders,
           \/ StopPlaying(h)
           \/ \E t \in Tracks : play' = [play EXCEPT ![h] = Starting(t)]
           \/ \E step \in Steps : Step(h, step)
    PROVE  play' \in [Holders -> Plays]
<1>1. NoPlay \in Plays
  BY DEF NoPlay, Plays, Steps, NoDeck
<1>2. \A t \in Tracks : Starting(t) \in Plays
  BY DEF NoPlay, Starting, Plays, Steps, NoDeck
<1>3. \A step \in Steps : [play[h] EXCEPT !.step = step] \in Plays
  BY DEF Plays
<1> QED BY <1>1, <1>2, <1>3 DEF StopPlaying, Step

LEMMA JoinType ==
    ASSUME CursorInv, NEW r \in Requests, Join(r)
    PROVE  TypeOK'
<1> USE DEF CursorInv, TypeOK, Join
<1>1. TaskType'
  BY DEF TaskType, TaskStates, Replies, Errors
<1>2. RuntimeType'
  BY DEF RuntimeType, Decks, Deck
<1>3. /\ CoordType'
      /\ lastDeck' \in Nat
      /\ operation' \in [Sessions -> Holders \cup {Free}]
      /\ PendingType'
      /\ PlayerType'
      /\ DeckType'
      /\ play' \in [Holders -> Plays]
      /\ OtherType'
  BY DEF CoordType, PendingType, PlayerType, DeckType, OtherType
<1> QED BY <1>1, <1>2, <1>3

LEMMA GetOrCreateSessionType ==
    ASSUME CursorInv, NEW r \in Requests, GetOrCreateSession(r)
    PROVE  TypeOK'
<1> USE DEF CursorInv, TypeOK, GetOrCreateSession
<1>1. CoordType'
  BY BoundsAssumption DEF CoordType, NoSession
<1>2. TaskType'
  BY <1>1 DEF CoordType, TaskType, TaskStates
<1>3. /\ lastDeck' \in Nat
      /\ operation' \in [Sessions -> Holders \cup {Free}]
      /\ PendingType'
      /\ PlayerType'
      /\ DeckType'
      /\ play' \in [Holders -> Plays]
      /\ RuntimeType'
      /\ OtherType'
  BY DEF PendingType, PlayerType, DeckType, RuntimeType, OtherType
<1> QED BY <1>1, <1>2, <1>3

LEMMA ReserveType ==
    ASSUME CursorInv, NEW r \in Requests, Reserve(r)
    PROVE  TypeOK'
<1> USE DEF CursorInv, TypeOK, Reserve
<1>1. PendingType'
  <2>1. session[r] \in Sessions
    BY InSession
  <2>2. /\ Append(order[session[r]], r) \in Seq(Requests)
        /\ Len(order[session[r]]) + 1 \in Nat
    BY <2>1, AppendProperties, LenProperties DEF PendingType
  <2>3. CASE Full(session[r])
    BY <2>3 DEF PendingType
  <2>4. CASE ~Full(session[r])
    <3>1. pending[session[r]] \cup {Len(order[session[r]]) + 1} \in SUBSET Nat
      BY <2>1, <2>2 DEF PendingType
    <3>2. order' \in [Sessions -> Seq(Requests)]
      BY <2>1, <2>2, <2>4 DEF PendingType
    <3>3. pending' \in [Sessions -> SUBSET Nat]
      BY <2>1, <2>4, <3>1 DEF PendingType
    <3> QED BY <3>2, <3>3 DEF PendingType
  <2> QED BY <2>3, <2>4
<1>2. TaskType'
  BY DEF TaskType, TaskStates, Complete, Replies, Errors
<1>3. /\ CoordType'
      /\ lastDeck' \in Nat
      /\ operation' \in [Sessions -> Holders \cup {Free}]
      /\ PlayerType'
      /\ DeckType'
      /\ play' \in [Holders -> Plays]
      /\ RuntimeType'
      /\ OtherType'
  BY DEF CoordType, PlayerType, DeckType, RuntimeType, OtherType
<1> QED BY <1>1, <1>2, <1>3

LEMMA ResolveType ==
    ASSUME CursorInv, NEW r \in Requests, Resolve(r)
    PROVE  TypeOK'
<1> USE DEF CursorInv, TypeOK, Resolve
<1>1. TaskType'
  BY DEF TaskType, TaskStates, Replies, Errors
<1>2. /\ CoordType'
      /\ lastDeck' \in Nat
      /\ operation' \in [Sessions -> Holders \cup {Free}]
      /\ PendingType'
      /\ PlayerType'
      /\ DeckType'
      /\ play' \in [Holders -> Plays]
      /\ RuntimeType'
      /\ OtherType'
  BY DEF CoordType, PendingType, PlayerType, DeckType, RuntimeType, OtherType
<1> QED BY <1>1, <1>2

LEMMA FinishEnqueueType ==
    ASSUME CursorInv, NEW r \in Requests, FinishEnqueue(r)
    PROVE  TypeOK'
<1> USE DEF CursorInv, TypeOK, FinishEnqueue
<1>1. operation' \in [Sessions -> Holders \cup {Free}]
  BY DEF Holders
<1>2. PendingType'
  <2>1. session[r] \in Sessions
    BY InSession
  <2>2. Mine(r) \in SUBSET Nat
    BY <2>1 DEF PendingType, Mine
  <2>3. ready[session[r]] \cup Mine(r) \in SUBSET Nat
    BY <2>1, <2>2 DEF PendingType
  <2>4. pending[session[r]] \ Mine(r) \in SUBSET Nat
    BY <2>1 DEF PendingType
  <2>5. ready' \in [Sessions -> SUBSET Nat]
    <3>1. ready[session[r]] \ Mine(r) \in SUBSET Nat
      BY <2>1 DEF PendingType
    <3> QED BY <2>1, <2>3, <3>1 DEF PendingType
  <2>6. pending' \in [Sessions -> SUBSET Nat]
    BY <2>1, <2>4 DEF PendingType
  <2> QED BY <2>5, <2>6 DEF PendingType
<1>3. TaskType'
  BY DEF TaskType, TaskStates, Complete, Replies, Errors
<1>4. /\ CoordType'
      /\ lastDeck' \in Nat
      /\ PlayerType'
      /\ DeckType'
      /\ play' \in [Holders -> Plays]
      /\ RuntimeType'
      /\ OtherType'
  BY DEF CoordType, PlayerType, DeckType, RuntimeType, OtherType
<1> QED BY <1>1, <1>2, <1>3, <1>4

LEMMA WaitForEarlierType ==
    ASSUME CursorInv, NEW r \in Requests, WaitForEarlier(r)
    PROVE  TypeOK'
<1> USE DEF CursorInv, TypeOK, WaitForEarlier
<1>1. operation' \in [Sessions -> Holders \cup {Free}]
  BY DEF Holders, Release
<1>2. PendingType'
  <2>1. session[r] \in Sessions
    BY InSession
  <2>2. NextSequence(session[r]) \in Nat \ {0}
    BY <2>1, NextSequenceStops DEF PendingType
  <2> QED BY <2>1, <2>2 DEF PendingType
<1>3. TaskType'
  BY DEF TaskType, TaskStates, Replies, Errors
<1>4. /\ CoordType'
      /\ lastDeck' \in Nat
      /\ PlayerType'
      /\ DeckType'
      /\ play' \in [Holders -> Plays]
      /\ RuntimeType'
      /\ OtherType'
  BY DEF CoordType, PlayerType, DeckType, RuntimeType, OtherType
<1> QED BY <1>1, <1>2, <1>3, <1>4

LEMMA FailNextType ==
    ASSUME CursorInv, NEW r \in Requests, FailNext(r)
    PROVE  TypeOK'
<1> USE DEF CursorInv, TypeOK, FailNext
<1>1. PendingType'
  <2>1. session[r] \in Sessions
    BY InSession
  <2>2. /\ NextSequence(session[r]) \in Nat
        /\ NextSequence(session[r]) + 1 \in Nat \ {0}
    BY <2>1, NextSequenceStops
  <2> QED BY <2>1, <2>2 DEF PendingType, TakeNext
<1>2. TaskType'
  BY DEF TaskType, TaskStates, Complete, Replies, Errors
<1>3. /\ CoordType'
      /\ lastDeck' \in Nat
      /\ operation' \in [Sessions -> Holders \cup {Free}]
      /\ PlayerType'
      /\ DeckType'
      /\ play' \in [Holders -> Plays]
      /\ RuntimeType'
      /\ OtherType'
  BY DEF CoordType, PlayerType, DeckType, RuntimeType, OtherType
<1> QED BY <1>1, <1>2, <1>3

LEMMA CommitNextType ==
    ASSUME CursorInv, NEW r \in Requests, CommitNext(r)
    PROVE  TypeOK'
<1> USE DEF CursorInv, TypeOK, CommitNext
<1>1. PendingType'
  <2>1. session[r] \in Sessions
    BY InSession
  <2>2. /\ NextSequence(session[r]) \in Nat
        /\ NextSequence(session[r]) + 1 \in Nat \ {0}
    BY <2>1, NextSequenceStops
  <2> QED BY <2>1, <2>2 DEF PendingType, TakeNext
<1>2. PlayerType'
  <2>1. session[r] \in Sessions
    BY InSession
  <2>2. NextSequence(session[r]) \in ready[session[r]]
    OBVIOUS
  <2>3. order[session[r]][NextSequence(session[r])] \in Tracks
    BY <2>1, <2>2, CommitsTrack
  <2> QED BY <2>1, <2>3, PlayerUpdate, EnqueueWellFormed DEF PlayerType
<1>3. TaskType'
  BY DEF TaskType, TaskStates, Complete, Replies, Errors
<1>4. play' \in [Holders -> Plays]
  <2>1. session[r] \in Sessions
    BY InSession
  <2>2. order[session[r]][NextSequence(session[r])] \in Tracks
    BY <2>1, CommitsTrack
  <2> QED BY <2>2, PlayUpdate DEF Holders
<1>5. /\ CoordType'
      /\ lastDeck' \in Nat
      /\ operation' \in [Sessions -> Holders \cup {Free}]
      /\ DeckType'
      /\ RuntimeType'
      /\ OtherType'
  BY DEF CoordType, DeckType, RuntimeType, OtherType
<1> QED BY <1>1, <1>2, <1>3, <1>4, <1>5

LEMMA StartedCurrentType ==
    ASSUME CursorInv, NEW r \in Requests, StartedCurrent(r)
    PROVE  TypeOK'
<1> USE DEF CursorInv, TypeOK, StartedCurrent
<1>1. DeckType'
  <2>1. play[r].id \in Nat
    BY DEF Plays, Holders
  <2> QED BY <2>1 DEF DeckType, Install
<1>2. TaskType'
  BY DEF TaskType, TaskStates, Complete, Replies, Errors
<1>3. play' \in [Holders -> Plays]
  BY PlayUpdate DEF Install, Holders
<1>4. /\ CoordType'
      /\ lastDeck' \in Nat
      /\ operation' \in [Sessions -> Holders \cup {Free}]
      /\ PendingType'
      /\ PlayerType'
      /\ RuntimeType'
      /\ OtherType'
  BY DEF CoordType, PendingType, PlayerType, RuntimeType, OtherType
<1> QED BY <1>1, <1>2, <1>3, <1>4

LEMMA StartFailedType ==
    ASSUME CursorInv, NEW r \in Requests, StartFailed(r)
    PROVE  TypeOK'
<1> USE DEF CursorInv, TypeOK, StartFailed
<1>1. PlayerType'
  BY InSession, PlayerUpdate, UpdatesWellFormed DEF PlayerType, ClearCurrentOf
<1>2. DeckType'
  BY DEF DeckType, ClearCurrentOf, NoDeck, Plays
<1>3. TaskType'
  BY DEF TaskType, TaskStates, Complete, Replies, Errors
<1>4. play' \in [Holders -> Plays]
  BY PlayUpdate DEF Holders
<1>5. /\ CoordType'
      /\ lastDeck' \in Nat
      /\ operation' \in [Sessions -> Holders \cup {Free}]
      /\ PendingType'
      /\ RuntimeType'
      /\ OtherType'
  BY DEF CoordType, PendingType, RuntimeType, OtherType
<1> QED BY <1>1, <1>2, <1>3, <1>4, <1>5

LEMMA StartExpiredType ==
    ASSUME CursorInv, NEW r \in Requests, StartExpired(r)
    PROVE  TypeOK'
<1> USE DEF CursorInv, TypeOK, StartExpired
<1>1. operation' \in [Sessions -> Holders \cup {Free}]
  BY DEF Holders, Release
<1>2. PendingType'
  BY DEF PendingType, DrainPending, Owners
<1>3. PlayerType'
  BY InSession, PlayerUpdate, UpdatesWellFormed DEF PlayerType, ClearCurrentOf
<1>4. DeckType'
  BY DEF DeckType, ClearCurrentOf, NoDeck, Plays
<1>5. TaskType'
  BY DEF TaskType, TaskStates, Complete, Replies, Errors
<1>6. play' \in [Holders -> Plays]
  BY PlayUpdate DEF Holders
<1>7. /\ CoordType'
      /\ lastDeck' \in Nat
      /\ RuntimeType'
      /\ OtherType'
  BY DEF CoordType, RuntimeType, OtherType
<1> QED BY <1>1, <1>2, <1>3, <1>4, <1>5, <1>6, <1>7

LEMMA CancelType ==
    ASSUME CursorInv, NEW r \in Requests, Cancel(r)
    PROVE  TypeOK'
<1> USE DEF CursorInv, TypeOK, Cancel
<1>1. operation' \in [Sessions -> Holders \cup {Free}]
  BY DEF Holders, Release
<1>2. PendingType'
  <2>1. session[r] \in Sessions
    BY InSession
  <2> DEFINE dropped == cancelled[session[r]] \cup Mine(r)
             next == SkipCancelled(nextCommit[session[r]], dropped)
  <2>2. Mine(r) \in SUBSET pending[session[r]]
    BY DEF Mine
  <2>3. next \in Nat \ {0}
    <3>1. nextCommit[session[r]] \in Nat \ {0}
      BY <2>1 DEF PendingType
    <3>2. next \in Nat /\ next >= nextCommit[session[r]]
      BY <2>1, <2>2, SkipAhead
    <3> QED BY <3>1, <3>2
  <2>4. {n \in dropped : n > next} \in SUBSET Nat
    BY <2>1, <2>2 DEF PendingType
  <2>5. order' = order
    OBVIOUS
  <2>6. pending' \in [Sessions -> SUBSET Nat] /\ ready' \in [Sessions -> SUBSET Nat]
    BY <2>1, <2>2 DEF PendingType
  <2>7. /\ cancelled' \in [Sessions -> SUBSET Nat]
        /\ nextCommit' \in [Sessions -> Nat \ {0}]
    BY <2>1, <2>3, <2>4 DEF PendingType
  <2> QED BY <2>5, <2>6, <2>7 DEF PendingType
<1>3. TaskType'
  BY DEF TaskType, TaskStates, Complete, Replies, Errors
<1>4. play' \in [Holders -> Plays]
  BY PlayUpdate DEF Holders
<1>5. /\ CoordType'
      /\ lastDeck' \in Nat
      /\ PlayerType'
      /\ DeckType'
      /\ RuntimeType'
      /\ OtherType'
  BY DEF CoordType, PlayerType, DeckType, RuntimeType, OtherType
<1> QED BY <1>1, <1>2, <1>3, <1>4, <1>5

LEMMA PlayRequestType ==
    ASSUME CursorInv, NEW h \in Holders, PlayRequest(h)
    PROVE  TypeOK'
<1> USE DEF CursorInv, TypeOK, PlayRequest
<1>1. lastDeck' \in Nat
  BY DEF Deck
<1>2. play' \in [Holders -> Plays]
  BY DEF Plays, Steps, Step, Holders
<1>3. /\ CoordType'
      /\ operation' \in [Sessions -> Holders \cup {Free}]
      /\ PendingType'
      /\ PlayerType'
      /\ DeckType'
      /\ TaskType'
      /\ RuntimeType'
      /\ OtherType'
  BY DEF CoordType, PendingType, PlayerType, DeckType, TaskType, RuntimeType, OtherType
<1> QED BY <1>1, <1>2, <1>3

LEMMA PreparePlaybackType ==
    ASSUME CursorInv, NEW h \in Holders, PreparePlayback(h)
    PROVE  TypeOK'
<1> USE DEF CursorInv, TypeOK, PreparePlayback
<1>1. play' \in [Holders -> Plays]
  BY DEF Plays, Steps, Step, Holders
<1>2. /\ CoordType'
      /\ lastDeck' \in Nat
      /\ operation' \in [Sessions -> Holders \cup {Free}]
      /\ PendingType'
      /\ PlayerType'
      /\ DeckType'
      /\ TaskType'
      /\ RuntimeType'
      /\ OtherType'
  BY DEF CoordType, PendingType, PlayerType, DeckType, TaskType, RuntimeType, OtherType
<1> QED BY <1>1, <1>2

LEMMA PlayTrackType ==
    ASSUME CursorInv, NEW h \in Holders, PlayTrack(h)
    PROVE  TypeOK'
<1> USE DEF CursorInv, TypeOK, PlayTrack
<1>1. play' \in [Holders -> Plays]
  BY DEF Plays, Steps, Step, Holders
<1>2. RuntimeType'
  <2>1. SessionOf(h) \in 0..MaxSessions
    BY DEF SessionOf, TaskType, OtherType, Workers, Decks, Holders
  <2>2. Deck(play[h].id, SessionOf(h)) \in Decks
    BY <2>1 DEF Deck, Decks, Plays
  <2> QED BY <2>2 DEF RuntimeType
<1>3. /\ CoordType'
      /\ lastDeck' \in Nat
      /\ operation' \in [Sessions -> Holders \cup {Free}]
      /\ PendingType'
      /\ PlayerType'
      /\ DeckType'
      /\ TaskType'
      /\ OtherType'
  BY DEF CoordType, PendingType, PlayerType, DeckType, TaskType, OtherType
<1> QED BY <1>1, <1>2, <1>3

LEMMA RefreshSourceType ==
    ASSUME CursorInv, NEW h \in Holders, RefreshSource(h)
    PROVE  TypeOK'
<1> USE DEF CursorInv, TypeOK, RefreshSource
<1>1. play' \in [Holders -> Plays]
  BY DEF Plays, Steps, Step, Holders
<1>2. /\ CoordType'
      /\ lastDeck' \in Nat
      /\ operation' \in [Sessions -> Holders \cup {Free}]
      /\ PendingType'
      /\ PlayerType'
      /\ DeckType'
      /\ TaskType'
      /\ RuntimeType'
      /\ OtherType'
  BY DEF CoordType, PendingType, PlayerType, DeckType, TaskType, RuntimeType, OtherType
<1> QED BY <1>1, <1>2

LEMMA CheckStartedType ==
    ASSUME CursorInv, NEW h \in Holders, CheckStarted(h)
    PROVE  TypeOK'
<1> USE DEF CursorInv, TypeOK, CheckStarted
<1>1. play' \in [Holders -> Plays]
  BY DEF Plays, Steps, Step, Holders
<1>2. RuntimeType'
  BY DEF RuntimeType, End, Decks, Deck, SessionOf
<1>3. /\ CoordType'
      /\ lastDeck' \in Nat
      /\ operation' \in [Sessions -> Holders \cup {Free}]
      /\ PendingType'
      /\ PlayerType'
      /\ DeckType'
      /\ TaskType'
      /\ OtherType'
  BY DEF CoordType, PendingType, PlayerType, DeckType, TaskType, OtherType
<1> QED BY <1>1, <1>2, <1>3

LEMMA TakeEventType ==
    ASSUME CursorInv, TakeEvent
    PROVE  TypeOK'
<1> USE DEF CursorInv, TypeOK, TakeEvent
<1>1. RuntimeType'
  BY DEF RuntimeType, Decks, Deck
<1>2. OtherType'
  BY IdleWorkerType DEF OtherType, Workers, RuntimeType, Decks
<1>3. /\ CoordType'
      /\ lastDeck' \in Nat
      /\ operation' \in [Sessions -> Holders \cup {Free}]
      /\ PendingType'
      /\ PlayerType'
      /\ DeckType'
      /\ TaskType'
      /\ play' \in [Holders -> Plays]
  BY DEF CoordType, PendingType, PlayerType, DeckType, TaskType
<1> QED BY <1>1, <1>2, <1>3

LEMMA AdvanceLockedType ==
    ASSUME CursorInv, AdvanceLocked
    PROVE  TypeOK'
<1> USE DEF CursorInv, TypeOK, AdvanceLocked
<1>1. operation' \in [Sessions -> Holders \cup {Free}]
  BY DEF Holders
<1>2. OtherType'
  BY IdleWorkerType DEF OtherType, Workers, WorkerIdles
<1>3. /\ CoordType'
      /\ lastDeck' \in Nat
      /\ PendingType'
      /\ PlayerType'
      /\ DeckType'
      /\ TaskType'
      /\ play' \in [Holders -> Plays]
      /\ RuntimeType'
  BY DEF CoordType, PendingType, PlayerType, DeckType, TaskType, RuntimeType
<1> QED BY <1>1, <1>2, <1>3

LEMMA AdvanceType ==
    ASSUME CursorInv, Advance
    PROVE  TypeOK'
<1> USE DEF CursorInv, TypeOK, Advance
<1>1. operation' \in [Sessions -> Holders \cup {Free}]
  BY DEF Holders, Release
<1>2. PlayerType'
  <2>1. worker.event.session \in Sessions
    BY WorkerSession
  <2> QED BY <2>1, PlayerUpdate, PrepareNextWellFormed DEF PlayerType
<1>3. DeckType'
  BY DEF DeckType, NoDeck, Plays
<1>4. play' \in [Holders -> Plays]
  <2>1. worker.event.session \in Sessions
    BY WorkerSession
  <2>2. \A p \in PrepareNextTrack(player[worker.event.session]) :
          p.current # NoTrack => p.current \in Tracks
    BY <2>1, PrepareNextWellFormed, SMTT(30) DEF PlayerType, Players
  <2> QED BY <2>2, PlayUpdate DEF Holders
<1>5. OtherType'
  BY IdleWorkerType DEF OtherType, Workers, WorkerIdles
<1>6. /\ CoordType'
      /\ lastDeck' \in Nat
      /\ PendingType'
      /\ TaskType'
      /\ RuntimeType'
  BY DEF CoordType, PendingType, TaskType, RuntimeType
<1> QED BY <1>1, <1>2, <1>3, <1>4, <1>5, <1>6

LEMMA AdvanceStartedType ==
    ASSUME CursorInv, AdvanceStarted
    PROVE  TypeOK'
<1> USE DEF CursorInv, TypeOK, AdvanceStarted
<1>1. operation' \in [Sessions -> Holders \cup {Free}]
  BY DEF Holders, Release
<1>2. PlayerType'
  <2>1. worker.event.session \in Sessions
    BY WorkerSession
  <2>2. play[Worker].track \in Tracks \cup {NoTrack}
    BY DEF Plays, Holders
  <2> QED BY <2>1, <2>2, PlayerUpdate, UpdatesWellFormed DEF PlayerType
<1>3. DeckType'
  <2>1. play[Worker].id \in Nat
    BY DEF Plays, Holders
  <2> QED BY <2>1 DEF DeckType, Install
<1>4. play' \in [Holders -> Plays]
  BY PlayUpdate DEF Install, Holders
<1>5. OtherType'
  BY IdleWorkerType DEF OtherType, WorkerIdles
<1>6. /\ CoordType'
      /\ lastDeck' \in Nat
      /\ PendingType'
      /\ TaskType'
      /\ RuntimeType'
  BY DEF CoordType, PendingType, TaskType, RuntimeType
<1> QED BY <1>1, <1>2, <1>3, <1>4, <1>5, <1>6

LEMMA AdvanceFailedType ==
    ASSUME CursorInv, AdvanceFailed
    PROVE  TypeOK'
<1> USE DEF CursorInv, TypeOK, AdvanceFailed
<1>1. PlayerType'
  <2>1. worker.event.session \in Sessions
    BY WorkerSession
  <2>2. /\ DisableLoop(player[worker.event.session]) \in Players
        /\ WellFormed(DisableLoop(player[worker.event.session]))
    BY <2>1, UpdatesWellFormed DEF PlayerType
  <2> QED BY <2>1, <2>2, PlayerUpdate, UpdatesWellFormed DEF ClearCurrentOf
<1>2. DeckType'
  BY DEF DeckType, ClearCurrentOf, NoDeck, Plays
<1>3. play' \in [Holders -> Plays]
  BY PlayUpdate DEF Holders
<1>4. OtherType'
  BY DEF OtherType, Workers, NoDeck
<1>5. /\ CoordType'
      /\ lastDeck' \in Nat
      /\ operation' \in [Sessions -> Holders \cup {Free}]
      /\ PendingType'
      /\ TaskType'
      /\ RuntimeType'
  BY DEF CoordType, PendingType, TaskType, RuntimeType
<1> QED BY <1>1, <1>2, <1>3, <1>4, <1>5

LEMMA AdvanceExpiredType ==
    ASSUME CursorInv, AdvanceExpired
    PROVE  TypeOK'
<1> USE DEF CursorInv, TypeOK, AdvanceExpired
<1>1. operation' \in [Sessions -> Holders \cup {Free}]
  BY DEF Holders, Release
<1>2. play' \in [Holders -> Plays]
  BY PlayUpdate DEF Holders
<1>3. OtherType'
  BY IdleWorkerType DEF OtherType, WorkerIdles
<1>4. /\ CoordType'
      /\ lastDeck' \in Nat
      /\ PendingType'
      /\ PlayerType'
      /\ DeckType'
      /\ TaskType'
      /\ RuntimeType'
  BY DEF CoordType, PendingType, PlayerType, DeckType, TaskType, RuntimeType
<1> QED BY <1>1, <1>2, <1>3, <1>4

LEMMA SkipType ==
    ASSUME CursorInv, NEW s \in Sessions, Skip(s)
    PROVE  TypeOK'
<1> USE DEF CursorInv, TypeOK, Skip, UserCommand
<1>1. PlayerType'
  BY PlayerUpdate, UpdatesWellFormed DEF PlayerType
<1>2. DeckType'
  BY DEF DeckType, NoDeck, Plays
<1>3. RuntimeType'
  BY DEF RuntimeType, End, Decks, Deck, ActiveDeck
<1>4. OtherType'
  BY DEF OtherType
<1>5. /\ CoordType'
      /\ lastDeck' \in Nat
      /\ operation' \in [Sessions -> Holders \cup {Free}]
      /\ PendingType'
      /\ TaskType'
      /\ play' \in [Holders -> Plays]
  BY DEF CoordType, PendingType, TaskType
<1> QED BY <1>1, <1>2, <1>3, <1>4, <1>5

LEMMA ToggleModeType ==
    ASSUME CursorInv, NEW s \in Sessions, ToggleMode(s)
    PROVE  TypeOK'
<1> USE DEF CursorInv, TypeOK, ToggleMode, UserCommand
<1>1. PlayerType'
  <2>1. player[s] \in Players /\ WellFormed(player[s])
    BY DEF PlayerType
  <2>2. (~player[s].shuffle) \in BOOLEAN
    OBVIOUS
  <2> QED BY <2>1, <2>2, PlayerUpdate, UpdatesWellFormed, SetShuffleWellFormed
      DEF ToggleShuffle
<1>2. OtherType'
  BY DEF OtherType
<1>3. /\ CoordType'
      /\ lastDeck' \in Nat
      /\ operation' \in [Sessions -> Holders \cup {Free}]
      /\ PendingType'
      /\ DeckType'
      /\ TaskType'
      /\ play' \in [Holders -> Plays]
      /\ RuntimeType'
  BY DEF CoordType, PendingType, DeckType, TaskType, RuntimeType
<1> QED BY <1>1, <1>2, <1>3

LEMMA DeckEndsType ==
    ASSUME CursorInv, DeckEnds
    PROVE  TypeOK'
<1> USE DEF CursorInv, TypeOK, DeckEnds
<1>1. RuntimeType'
  BY DEF RuntimeType, End, Decks, Deck
<1>2. /\ CoordType'
      /\ lastDeck' \in Nat
      /\ operation' \in [Sessions -> Holders \cup {Free}]
      /\ PendingType'
      /\ PlayerType'
      /\ DeckType'
      /\ TaskType'
      /\ play' \in [Holders -> Plays]
      /\ OtherType'
  BY DEF CoordType, PendingType, PlayerType, DeckType, TaskType, OtherType
<1> QED BY <1>1, <1>2

LEMMA BeginDisconnectType ==
    ASSUME CursorInv, BeginDisconnect
    PROVE  TypeOK'
<1> USE DEF CursorInv, TypeOK, BeginDisconnect
<1>1. CoordType'
  BY BoundsAssumption DEF CoordType, NoSession
<1>2. OtherType'
  BY DEF CoordType, OtherType
<1>3. /\ lastDeck' \in Nat
      /\ operation' \in [Sessions -> Holders \cup {Free}]
      /\ PendingType'
      /\ PlayerType'
      /\ DeckType'
      /\ TaskType'
      /\ play' \in [Holders -> Plays]
      /\ RuntimeType'
  BY DEF PendingType, PlayerType, DeckType, TaskType, RuntimeType
<1> QED BY <1>1, <1>2, <1>3

LEMMA ClearSessionType ==
    ASSUME CursorInv, ClearSession
    PROVE  TypeOK'
<1> USE DEF CursorInv, TypeOK, ClearSession
<1>1. PendingType'
  BY DEF PendingType, DrainPending, Owners
<1>2. PlayerType'
  BY PlayerUpdate, UpdatesWellFormed DEF PlayerType
<1>3. DeckType'
  BY DEF DeckType, NoDeck, Plays
<1>4. TaskType'
  BY DEF TaskType, TaskStates, Complete, Replies, Errors
<1>5. RuntimeType'
  BY DEF RuntimeType, End, Decks, Deck, ActiveDeck
<1>6. OtherType'
  BY DEF OtherType
<1>7. /\ CoordType'
      /\ lastDeck' \in Nat
      /\ operation' \in [Sessions -> Holders \cup {Free}]
      /\ play' \in [Holders -> Plays]
  BY DEF CoordType
<1> QED BY <1>1, <1>2, <1>3, <1>4, <1>5, <1>6, <1>7

LEMMA LeaveCallType ==
    ASSUME CursorInv, LeaveCall
    PROVE  TypeOK'
<1> USE DEF CursorInv, TypeOK, LeaveCall
<1>1. RuntimeType'
  BY DEF RuntimeType, Decks, Deck
<1>2. OtherType'
  BY DEF OtherType
<1>3. /\ CoordType'
      /\ lastDeck' \in Nat
      /\ operation' \in [Sessions -> Holders \cup {Free}]
      /\ PendingType'
      /\ PlayerType'
      /\ DeckType'
      /\ TaskType'
      /\ play' \in [Holders -> Plays]
  BY DEF CoordType, PendingType, PlayerType, DeckType, TaskType
<1> QED BY <1>1, <1>2, <1>3

-----------------------------------------------------------------------------
(* What the actions leave alone.                                           *)

\* Only these begin or end a session, or number a request.
LEMMA SessionFrame ==
    ASSUME [Next]_vars
    PROVE  \/ \E r \in Requests : GetOrCreateSession(r) \/ Reserve(r)
           \/ BeginDisconnect
           \/ UNCHANGED <<coordVars, dsession, session, order>>
<1> DEFINE Same == UNCHANGED <<coordVars, dsession, session, order>>
<1>1. ASSUME NEW r \in Requests,
             Join(r) \/ Resolve(r) \/ FinishEnqueue(r) \/ Flush(r) \/ Cancel(r)
      PROVE  Same
  BY <1>1 DEF Join, Resolve, FinishEnqueue, Flush, WaitForEarlier, FailNext, CommitNext,
       TakeNext, StartedCurrent, StartFailed, StartExpired, DrainPending, Cancel
<1>2. ASSUME NEW h \in Holders, Play(h)
      PROVE  Same
  BY <1>2 DEF Play, PlayRequest, PreparePlayback, PlayTrack, RefreshSource, CheckStarted
<1>3. CASE WorkerStep
  BY <1>3 DEF WorkerStep, TakeEvent, AdvanceLocked, Advance, AdvanceStarted,
       AdvanceFailed,
       AdvanceExpired
<1>4. ASSUME NEW s \in Sessions, Skip(s) \/ ToggleMode(s)
      PROVE  Same
  BY <1>4 DEF Skip, ToggleMode, UserCommand
<1>5. CASE DeckEnds \/ ClearSession \/ LeaveCall \/ UNCHANGED vars
  BY <1>5 DEF DeckEnds, ClearSession, LeaveCall, DrainPending, vars
<1> QED BY <1>1, <1>2, <1>3, <1>4, <1>5 DEF Next, Disconnect

\* Only these touch what is pending or the cursor.
LEMMA PendingFrame ==
    ASSUME [Next]_vars
    PROVE  \/ \E r \in Requests : \/ Reserve(r) \/ FinishEnqueue(r) \/ WaitForEarlier(r)
                                  \/ FailNext(r) \/ CommitNext(r) \/ StartExpired(r)
                                  \/ Cancel(r)
           \/ ClearSession
           \/ UNCHANGED pendingVars
<1>1. ASSUME NEW r \in Requests, \/ Join(r) \/ GetOrCreateSession(r) \/ Resolve(r)
                                 \/ StartedCurrent(r) \/ StartFailed(r)
      PROVE  UNCHANGED pendingVars
  BY <1>1 DEF Join, GetOrCreateSession, Resolve, StartedCurrent, StartFailed
<1>2. ASSUME NEW h \in Holders, Play(h)
      PROVE  UNCHANGED pendingVars
  BY <1>2 DEF Play, PlayRequest, PreparePlayback, PlayTrack, RefreshSource, CheckStarted
<1>3. CASE WorkerStep
  BY <1>3 DEF WorkerStep, TakeEvent, AdvanceLocked, Advance, AdvanceStarted,
       AdvanceFailed,
       AdvanceExpired
<1>4. ASSUME NEW s \in Sessions, Skip(s) \/ ToggleMode(s)
      PROVE  UNCHANGED pendingVars
  BY <1>4 DEF Skip, ToggleMode, UserCommand
<1>5. CASE DeckEnds \/ BeginDisconnect \/ LeaveCall \/ UNCHANGED vars
  BY <1>5 DEF DeckEnds, BeginDisconnect, LeaveCall, vars
<1> QED BY <1>1, <1>2, <1>3, <1>4, <1>5 DEF Next, Flush, Disconnect

-----------------------------------------------------------------------------
(* Every step keeps the invariant.                                         *)

LEMMA SessionsExistStep ==
    ASSUME CursorInv, [Next]_vars, TypeOK'
    PROVE  SessionsExist'
<1> USE DEF CursorInv, Known, SessionsExist
<1>1. /\ lastSession \in Nat /\ current \in Nat /\ dsession \in Nat
      /\ \A r \in Requests : session[r] \in Nat
      /\ \A s \in Sessions : s \in Nat
      /\ session \in [Requests -> 0..MaxSessions]
      /\ order \in [Sessions -> Seq(Requests)]
  BY BoundsAssumption, SMTT(30) DEF TypeOK, CoordType, TaskType, OtherType, PendingType, Sessions
<1>2. CASE \E r \in Requests : GetOrCreateSession(r)
  BY <1>1, <1>2 DEF GetOrCreateSession
<1>3. ASSUME NEW r \in Requests, Reserve(r)
      PROVE  SessionsExist'
  BY <1>1, <1>3 DEF Reserve
<1>4. CASE BeginDisconnect
  BY <1>1, <1>4 DEF BeginDisconnect, NoSession
<1>5. CASE UNCHANGED <<coordVars, dsession, session, order>>
  BY <1>5
<1> QED BY <1>2, <1>3, <1>4, <1>5, SessionFrame

\* The cursor moves within one session to n, past withdrawn sequences only, and
\* perhaps past n itself once that is settled.
LEMMA CursorMoves ==
    ASSUME CursorInv, TypeOK', CursorInRange, NEW s \in Sessions,
           NEW gone \in SUBSET pending[s], NEW n \in Nat, NEW after \in {n, n + 1},
           nextCommit[s]..(n - 1) \subseteq cancelled[s] \cup gone,
           n >= nextCommit[s],
           IF after = n THEN n \notin cancelled[s] \cup gone ELSE n \in gone,
           UNCHANGED <<current, order>>,
           pending' = [pending EXCEPT ![s] = @ \ gone],
           cancelled' = [cancelled EXCEPT ![s] = {m \in @ \cup gone : m > n}],
           nextCommit' = [nextCommit EXCEPT ![s] = after],
           ready'[s] \subseteq pending'[s],
           \A z \in Sessions \ {s} : ready'[z] = ready[z]
    PROVE  CommitCursor' /\ CursorInRange'
<1> USE DEF CursorInv, CommitCursor, CursorInRange
<1>1. /\ nextCommit[s] \in Nat /\ Len(order[s]) \in Nat
      /\ pending[s] \subseteq Nat /\ cancelled[s] \subseteq Nat
  BY LenProperties DEF TypeOK, PendingType
<1>2. /\ pending'[s] = pending[s] \ gone
      /\ cancelled'[s] = {m \in cancelled[s] \cup gone : m > n}
      /\ nextCommit'[s] = after
      /\ order'[s] = order[s]
      /\ pending \in [Sessions -> SUBSET Nat]
      /\ \A z \in Sessions \ {s} : /\ pending'[z] = pending[z]
                                   /\ cancelled'[z] = cancelled[z]
                                   /\ nextCommit'[z] = nextCommit[z]
  BY DEF TypeOK, PendingType
<1>3. after <= Len(order[s]) + 1
  <2>1. CASE n = nextCommit[s] /\ after = n
    BY <2>1, <1>1
  <2>2. CASE n > nextCommit[s] /\ after = n
    <3>1. n - 1 \in nextCommit[s]..(n - 1)
      BY <2>2, <1>1
    <3>2. n - 1 \in nextCommit[s]..Len(order[s])
      BY <3>1
    <3> QED BY <3>2, <2>2, <1>1
  <2>3. CASE after = n + 1
    BY <2>3, <1>1
  <2> QED BY <2>1, <2>2, <2>3, <1>1
<1>4. /\ pending'[s] \subseteq after..Len(order[s])
      /\ cancelled'[s] \subseteq after..Len(order[s])
  <2>1. ASSUME NEW m \in pending[s] \ gone
        PROVE  m \in after..Len(order[s])
    <3>1. m \in nextCommit[s]..Len(order[s]) /\ m \notin cancelled[s]
      OBVIOUS
    <3>2. m \notin nextCommit[s]..(n - 1)
      BY <3>1
    <3>3. after = n \/ m # n
      OBVIOUS
    <3> QED BY <3>1, <3>2, <3>3, <1>1
  <2>2. ASSUME NEW m \in cancelled[s] \cup gone, m > n
        PROVE  m \in after..Len(order[s])
    <3>1. m \in nextCommit[s]..Len(order[s])
      OBVIOUS
    <3> QED BY <3>1, <2>2, <1>1
  <2> QED BY <2>1, <2>2, <1>2
<1>5. pending'[s] \cap cancelled'[s] = {}
  BY <1>2
<1>6. ASSUME current' = s, NEW m \in after..Len(order[s])
      PROVE  m \in pending'[s] \cup cancelled'[s]
  <2>1. m \in pending[s] \cup cancelled[s]
    <3>1. m \in nextCommit[s]..Len(order[s])
      BY <1>1
    <3> QED BY <3>1, <1>6
  <2>2. m > n \/ (m = n /\ after = n)
    BY <1>1
  <2> QED BY <2>1, <2>2, <1>2
<1>7. ready'[s] \subseteq pending'[s] /\ nextCommit'[s] <= Len(order'[s]) + 1
  BY <1>2, <1>3
<1>8. CursorInRange'
  BY <1>2, <1>7
<1>9. CommitCursor'
  BY <1>2, <1>4, <1>5, <1>6
<1> QED BY <1>8, <1>9

LEMMA ReserveCursor ==
    ASSUME CursorInv, TypeOK', NEW r \in Requests, Reserve(r)
    PROVE  CommitCursor' /\ CursorInRange'
<1> USE DEF CursorInv, Known, CommitCursor, CursorInRange, Reserve
<1> DEFINE s == session[r]
<1>1. s \in Sessions /\ \A z \in Sessions : order[z] \in Seq(Requests)
  BY InSession DEF TypeOK, PendingType
<1>2. CASE Full(s)
  BY <1>2
<1>3. CASE ~Full(s)
  <2> DEFINE last == Len(order[s]) + 1
  <2>1. /\ order'[s] = Append(order[s], r) /\ pending'[s] = pending[s] \cup {last}
        /\ \A z \in Sessions \ {s} : order'[z] = order[z] /\ pending'[z] = pending[z]
        /\ UNCHANGED <<current, ready, cancelled, nextCommit>>
    BY <1>1, <1>3 DEF TypeOK, PendingType
  <2>2. Len(order'[s]) = last /\ last \in Nat /\ nextCommit[s] \in Nat
    BY <1>1, <2>1, AppendProperties, LenProperties DEF TypeOK, PendingType
  <2>3. nextCommit[s]..last = (nextCommit[s]..Len(order[s])) \cup {last}
    BY <2>2, <1>1, LenProperties
  <2>4. last \notin nextCommit[s]..Len(order[s])
    BY <1>1, LenProperties
  <2> HIDE DEF last, s
  <2>5. CursorInRange'
    BY <2>1, <2>2
  <2>6. CommitCursor'
    BY <2>1, <2>2, <2>3, <2>4
  <2> QED BY <2>5, <2>6
<1> QED BY <1>2, <1>3

\* The lock holder stops at a sequence that has no outcome yet.
LEMMA WaitCursor ==
    ASSUME CursorInv, TypeOK', NEW r \in Requests, WaitForEarlier(r)
    PROVE  CommitCursor' /\ CursorInRange'
<1> USE DEF CursorInv, Known, WaitForEarlier
<1> DEFINE s == session[r]
           n == NextSequence(s)
           none == {}
<1>1. s \in Sessions
  BY InSession
<1>2. /\ n \in Nat /\ n >= nextCommit[s] /\ n \notin cancelled[s]
      /\ nextCommit[s]..(n - 1) \subseteq cancelled[s]
  BY <1>1, NextSequenceStops
<1>3. none \in SUBSET pending[s] /\ cancelled[s] \cup none = cancelled[s]
  OBVIOUS
<1>4. /\ pending' = [pending EXCEPT ![s] = @ \ none]
      /\ cancelled' = [cancelled EXCEPT ![s] = {m \in @ \cup none : m > n}]
      /\ nextCommit' = [nextCommit EXCEPT ![s] = n]
      /\ UNCHANGED <<current, order, ready>>
  BY <1>1 DEF TypeOK, PendingType
<1>5. ready'[s] \subseteq pending'[s]
  BY <1>1 DEF CursorInRange
<1>6. CursorInRange /\ n \in {n, n + 1}
  OBVIOUS
<1> HIDE DEF s, n, none, WaitForEarlier
<1> QED BY <1>1, <1>2, <1>3, <1>4, <1>5, <1>6, CursorMoves

\* The sequence the cursor stands on is settled.
LEMMA TakeCursor ==
    ASSUME CursorInv, TypeOK', NEW s \in Sessions, NEW n \in ready[s], n = NextSequence(s),
           TakeNext(s, n), UNCHANGED current
    PROVE  CommitCursor' /\ CursorInRange'
<1> USE DEF CursorInv, Known, TakeNext
<1> DEFINE gone == {n}
           after == n + 1
<1>1. /\ n \in Nat /\ n >= nextCommit[s]
      /\ nextCommit[s]..(n - 1) \subseteq cancelled[s] \cup gone
  BY NextSequenceStops
<1>2. CursorInRange /\ gone \in SUBSET pending[s] /\ after \in {n, n + 1} /\ after # n
  BY <1>1 DEF CursorInRange
<1>3. {m \in cancelled[s] \cup gone : m > n} = {m \in cancelled[s] : m > n}
  BY <1>1
<1>4. /\ pending' = [pending EXCEPT ![s] = @ \ gone]
      /\ cancelled' = [cancelled EXCEPT ![s] = {m \in @ \cup gone : m > n}]
      /\ nextCommit' = [nextCommit EXCEPT ![s] = after]
      /\ UNCHANGED <<current, order>>
  BY <1>3
<1>5. ready'[s] \subseteq pending'[s] /\ \A z \in Sessions \ {s} : ready'[z] = ready[z]
  BY DEF CursorInRange, TypeOK, PendingType
<1>6. n \in gone
  OBVIOUS
<1> HIDE DEF gone, after, TakeNext
<1> QED BY <1>1, <1>2, <1>4, <1>5, <1>6, CursorMoves

\* A dropped /play call withdraws its sequence.
LEMMA CancelCursor ==
    ASSUME CursorInv, TypeOK', NEW r \in Requests, Cancel(r)
    PROVE  CommitCursor' /\ CursorInRange'
<1> USE DEF CursorInv, Known
<1> DEFINE s == session[r]
           gone == Mine(r)
           n == SkipCancelled(nextCommit[s], cancelled[s] \cup gone)
<1>1. s \in Sessions /\ gone \in SUBSET pending[s] /\ CursorInRange
  BY InSession DEF Cancel, Mine
<1>2. /\ n \in Nat /\ n >= nextCommit[s] /\ n \notin cancelled[s] \cup gone
      /\ nextCommit[s]..(n - 1) \subseteq cancelled[s] \cup gone
  BY <1>1, SkipAhead
<1>3. /\ pending' = [pending EXCEPT ![s] = @ \ gone]
      /\ ready' = [ready EXCEPT ![s] = @ \ gone]
      /\ UNCHANGED <<current, order>>
  BY DEF Cancel
<1>4. ready'[s] \subseteq pending'[s] /\ \A z \in Sessions \ {s} : ready'[z] = ready[z]
  BY <1>1, <1>3 DEF CursorInRange, TypeOK, PendingType
<1>5. CASE gone = {}
  <2>1. UNCHANGED <<pending, cancelled, nextCommit>>
    BY <1>1, <1>3, <1>5 DEF Cancel, TypeOK, PendingType
  <2> HIDE DEF gone, s, n
  <2> QED BY <1>1, <1>3, <1>4, <2>1 DEF CommitCursor, CursorInRange
<1>6. CASE gone # {}
  <2>1. /\ cancelled' = [cancelled EXCEPT ![s] = {m \in @ \cup gone : m > n}]
        /\ nextCommit' = [nextCommit EXCEPT ![s] = n]
    BY <1>6 DEF Cancel
  <2>2. n \in {n, n + 1}
    OBVIOUS
  <2> HIDE DEF gone, s, n
  <2> QED BY <1>1, <1>2, <1>3, <1>4, <2>1, <2>2, CursorMoves
<1> QED BY <1>5, <1>6

\* An outcome is published, or the reservation of a replaced session given up.
LEMMA FinishCursor ==
    ASSUME CursorInv, TypeOK', NEW r \in Requests, FinishEnqueue(r)
    PROVE  CommitCursor' /\ CursorInRange'
<1> USE DEF CursorInv, Known, FinishEnqueue, CommitCursor, CursorInRange
<1> DEFINE s == session[r]
           mine == Mine(r)
<1>1. s \in Sessions /\ mine \subseteq pending[s]
  BY InSession DEF Mine
<1>2. UNCHANGED <<current, order, cancelled, nextCommit>>
  OBVIOUS
<1>3. CASE SessionIsCurrent(s) /\ mine # {}
  <2>1. ready' = [ready EXCEPT ![s] = @ \cup mine] /\ UNCHANGED pending
    BY <1>3
  <2> HIDE DEF mine, s, FinishEnqueue
  <2> QED BY <1>1, <1>2, <2>1 DEF TypeOK, PendingType
<1>4. CASE ~(SessionIsCurrent(s) /\ mine # {})
  <2>1. /\ pending' = [pending EXCEPT ![s] = @ \ mine]
        /\ ready' = [ready EXCEPT ![s] = @ \ mine]
    BY <1>4
  <2>2. s # current \/ pending' = pending
    BY <1>1, <1>4, <2>1 DEF SessionIsCurrent, TypeOK, PendingType
  <2>3. ready'[s] \subseteq pending'[s]
    BY <1>1, <2>1 DEF TypeOK, PendingType
  <2> HIDE DEF mine, s, FinishEnqueue
  <2> QED BY <1>1, <1>2, <2>1, <2>2, <2>3 DEF TypeOK, PendingType
<1> QED BY <1>3, <1>4

LEMMA CommitCursorStep ==
    ASSUME CursorInv, [Next]_vars, TypeOK'
    PROVE  CommitCursor' /\ CursorInRange'
<1> USE DEF CursorInv, Known
<1>1. ASSUME NEW r \in Requests, FailNext(r) \/ CommitNext(r)
      PROVE  CommitCursor' /\ CursorInRange'
  <2>1. session[r] \in Sessions
    BY <1>1, InSession DEF FailNext, CommitNext
  <2> QED BY <1>1, <2>1, TakeCursor DEF FailNext, CommitNext
<1>2. ASSUME NEW s \in Sessions, s # current, DrainPending(s), UNCHANGED current
      PROVE  CommitCursor' /\ CursorInRange'
  BY <1>2 DEF DrainPending, CommitCursor, CursorInRange, TypeOK, PendingType
<1>3. ASSUME NEW r \in Requests, StartExpired(r)
      PROVE  CommitCursor' /\ CursorInRange'
  <2>1. session[r] \in Sessions
    BY <1>3, InSession DEF StartExpired
  <2> QED BY <1>2, <1>3, <2>1 DEF StartExpired, ReplacedForGood
<1>4. CASE ClearSession
  <2>1. CASE dsession \in Sessions
    BY <1>2, <1>4, <2>1 DEF ClearSession, ReplacedForGood
  <2>2. CASE dsession \notin Sessions
    BY <1>4, <2>2 DEF ClearSession, DrainPending, CommitCursor, CursorInRange, TypeOK,
         PendingType
  <2> QED BY <2>1, <2>2
<1>5. ASSUME UNCHANGED pendingVars, \A s \in Sessions : current' = s =>
                 current = s \/ nextCommit[s]..Len(order[s]) = {}
      PROVE  CommitCursor' /\ CursorInRange'
  BY <1>5 DEF CommitCursor, CursorInRange
<1>6. ASSUME NEW r \in Requests, GetOrCreateSession(r), UNCHANGED pendingVars
      PROVE  CommitCursor' /\ CursorInRange'
  <2>1. ASSUME NEW s \in Sessions, current' = s, current # s
        PROVE  nextCommit[s]..Len(order[s]) = {}
    <3>1. order[s] = <<>>
      BY <1>6, <2>1 DEF GetOrCreateSession, SessionsExist, TypeOK, CoordType
    <3>2. nextCommit[s] \in Nat \ {0} /\ Len(order[s]) = 0
      BY <3>1 DEF TypeOK, PendingType
    <3> QED BY <3>2
  <2> QED BY <1>5, <1>6, <2>1
<1>7. CASE BeginDisconnect /\ UNCHANGED pendingVars
  <2>1. \A s \in Sessions : current' # s
    BY <1>7, BoundsAssumption DEF BeginDisconnect, NoSession, Sessions
  <2> QED BY <1>5, <1>7, <2>1
<1>8. CASE UNCHANGED <<coordVars, pendingVars>>
  BY <1>5, <1>8
<1> QED BY <1>1, <1>3, <1>4, <1>6, <1>7, <1>8, ReserveCursor, FinishCursor, WaitCursor,
       CancelCursor, PendingFrame, SessionFrame

-----------------------------------------------------------------------------
\* play_request runs for the task that begins it.
LEMMA TasksHaveSessionStep ==
    ASSUME CursorInv, [Next]_vars, TypeOK'
    PROVE  TasksHaveSession'
<1> USE DEF CursorInv, Known, TasksHaveSession
<1>1. /\ pc \in [Requests -> TaskStates] /\ session \in [Requests -> 0..MaxSessions]
      /\ play \in [Holders -> Plays]
      /\ Requests \subseteq Holders /\ Worker \in Holders /\ Worker \notin Requests
  BY WorkerAssumption DEF TypeOK, TaskType, Holders
<1>2. ASSUME NEW r \in Requests, \/ Join(r) \/ GetOrCreateSession(r) \/ Reserve(r)
                                 \/ Resolve(r) \/ FinishEnqueue(r)
      PROVE  TasksHaveSession'
  BY <1>1, <1>2, BoundsAssumption DEF Join, GetOrCreateSession, Reserve, Resolve,
       FinishEnqueue, SessionsExist, NoSession, TypeOK, CoordType
<1>3. ASSUME NEW r \in Requests, Flush(r) \/ Cancel(r)
      PROVE  TasksHaveSession'
  BY <1>1, <1>3 DEF Flush, WaitForEarlier, FailNext, CommitNext, StartedCurrent,
       StartFailed, StartExpired, Cancel, Install, StopPlaying, NoPlay, Starting
<1>4. ASSUME NEW h \in Holders, Play(h)
      PROVE  TasksHaveSession'
  BY <1>1, <1>4 DEF Play, PlayRequest, PreparePlayback, PlayTrack, RefreshSource,
       CheckStarted, Step
<1>5. CASE WorkerStep
  BY <1>1, <1>5 DEF WorkerStep, TakeEvent, AdvanceLocked, Advance, AdvanceStarted,
       AdvanceFailed,
       AdvanceExpired, Install, StopPlaying, NoPlay, Starting
<1>6. ASSUME NEW s \in Sessions, Skip(s) \/ ToggleMode(s)
      PROVE  TasksHaveSession'
  BY <1>6 DEF Skip, ToggleMode, UserCommand
<1>7. CASE DeckEnds \/ Disconnect \/ UNCHANGED vars
  BY <1>7 DEF DeckEnds, Disconnect, BeginDisconnect, ClearSession, LeaveCall, vars
<1> QED BY <1>2, <1>3, <1>4, <1>5, <1>6, <1>7 DEF Next

LEMMA WorkerHasSessionStep ==
    ASSUME CursorInv, [Next]_vars, TypeOK'
    PROVE  WorkerHasSession'
<1> USE DEF CursorInv, Known, WorkerHasSession
<1>1. /\ play \in [Holders -> Plays]
      /\ Requests \subseteq Holders /\ Worker \in Holders /\ Worker \notin Requests
      /\ worker \in Workers
  BY WorkerAssumption DEF TypeOK, TaskType, OtherType, Holders
<1>2. ASSUME NEW r \in Requests, \/ Join(r) \/ GetOrCreateSession(r) \/ Reserve(r)
                                 \/ Resolve(r) \/ FinishEnqueue(r)
      PROVE  WorkerHasSession'
  BY <1>2 DEF Join, GetOrCreateSession, Reserve, Resolve, FinishEnqueue
<1>3. ASSUME NEW r \in Requests, Flush(r) \/ Cancel(r)
      PROVE  WorkerHasSession'
  BY <1>1, <1>3 DEF Flush, WaitForEarlier, FailNext, CommitNext, StartedCurrent,
       StartFailed, StartExpired, Cancel, Install, StopPlaying
<1>4. ASSUME NEW h \in Holders, Play(h)
      PROVE  WorkerHasSession'
  <2>1. play'[Worker].step # "none" => play[Worker].step # "none"
    BY <1>1, <1>4 DEF Play, PlayRequest, PreparePlayback, PlayTrack, RefreshSource,
         CheckStarted, Step
  <2>2. play[h].step # "none" => SessionOf(h) # NoSession
    BY <1>1 DEF SessionOf, TasksHaveSession, Holders
  <2>3. \A d \in decks' \cup events' : d.session # NoSession
    BY <1>4, <2>2 DEF Play, PlayRequest, PreparePlayback, PlayTrack, RefreshSource,
         CheckStarted, End, Deck
  <2>4. UNCHANGED worker
    BY <1>4 DEF Play, PlayRequest, PreparePlayback, PlayTrack, RefreshSource, CheckStarted
  <2> QED BY <2>1, <2>3, <2>4
<1>5. CASE WorkerStep
  <2>1. IdleWorker.pc = "idle" /\ NoPlay.step = "none"
    BY DEF IdleWorker, NoPlay
  <2>2. CASE TakeEvent
    BY <2>1, <2>2 DEF TakeEvent
  <2>3. CASE AdvanceLocked
    BY <1>1, <2>1, <2>3 DEF AdvanceLocked, WorkerIdles, Workers
  <2>4. CASE Advance
    BY <1>1, <2>1, <2>4 DEF Advance, WorkerIdles, Workers
  <2>5. CASE AdvanceStarted \/ AdvanceExpired
    BY <1>1, <2>1, <2>5 DEF AdvanceStarted, AdvanceExpired, WorkerIdles, Install,
         StopPlaying
  <2>6. CASE AdvanceFailed
    BY <1>1, <2>1, <2>6 DEF AdvanceFailed, Workers, StopPlaying
  <2> QED BY <1>5, <2>2, <2>3, <2>4, <2>5, <2>6 DEF WorkerStep
<1>6. ASSUME NEW s \in Sessions, Skip(s) \/ ToggleMode(s)
      PROVE  WorkerHasSession'
  BY <1>6 DEF Skip, ToggleMode, UserCommand, End, ActiveDeck
<1>7. CASE DeckEnds \/ Disconnect \/ UNCHANGED vars
  BY <1>7 DEF DeckEnds, Disconnect, BeginDisconnect, ClearSession, LeaveCall, End,
       ActiveDeck, vars
<1> QED BY <1>2, <1>3, <1>4, <1>5, <1>6, <1>7 DEF Next

LEMMA ReplacedForGoodStep ==
    ASSUME CursorInv, [Next]_vars, TypeOK'
    PROVE  ReplacedForGood'
<1> USE DEF CursorInv, Known, ReplacedForGood
<1>1. /\ pc \in [Requests -> TaskStates] /\ session \in [Requests -> 0..MaxSessions]
      /\ play \in [Holders -> Plays]
      /\ Requests \subseteq Holders /\ Worker \in Holders /\ Worker \notin Requests
  BY WorkerAssumption DEF TypeOK, TaskType, Holders
<1>2. ASSUME NEW r \in Requests, Join(r) \/ Reserve(r) \/ Resolve(r) \/ FinishEnqueue(r)
      PROVE  ReplacedForGood'
  BY <1>2 DEF Join, Reserve, Resolve, FinishEnqueue
<1>3. ASSUME NEW r \in Requests, GetOrCreateSession(r)
      PROVE  ReplacedForGood'
  BY <1>1, <1>3 DEF GetOrCreateSession, SessionsExist, TasksHaveSession, TypeOK,
       CoordType, OtherType
<1>4. ASSUME NEW r \in Requests, Flush(r) \/ Cancel(r)
      PROVE  ReplacedForGood'
  <2>1. NoPlay.step = "none" /\ \A t : Starting(t).step = "check"
    BY DEF NoPlay, Starting
  <2>2. UNCHANGED <<current, session, dpc, dsession>>
    BY <1>4 DEF Flush, WaitForEarlier, FailNext, CommitNext, StartedCurrent, StartFailed,
         StartExpired, Cancel
  <2>3. \/ UNCHANGED play
        \/ StopPlaying(r)
        \/ \E t : play' = [play EXCEPT ![r] = Starting(t)]
    BY <1>4 DEF Flush, WaitForEarlier, FailNext, CommitNext, StartedCurrent, StartFailed,
         StartExpired, Cancel, Install
  <2>4. \A q \in Requests : play'[q].step = "expired" => play[q].step = "expired"
    BY <1>1, <2>1, <2>3 DEF StopPlaying
  <2> QED BY <2>2, <2>4
<1>5. ASSUME NEW h \in Holders, Play(h)
      PROVE  ReplacedForGood'
  <2>1. \A r \in Requests : SessionOf(r) = session[r]
    BY <1>1 DEF SessionOf
  <2>2. UNCHANGED <<current, session, dpc, dsession>>
    BY <1>5 DEF Play, PlayRequest, PreparePlayback, PlayTrack, RefreshSource, CheckStarted
  <2>3. play'[h].step = "expired" => play[h].step = "expired" \/ SessionOf(h) # current
    <3>1. play[h] \in Plays
      BY <1>1
    <3>2. CASE PlayRequest(h)
      BY <1>1, <3>1, <3>2 DEF PlayRequest, Step, SessionIsCurrent, Plays
    <3>3. CASE PreparePlayback(h)
      BY <1>1, <3>1, <3>3 DEF PreparePlayback, Step, SessionIsCurrent, Plays
    <3>4. CASE PlayTrack(h) \/ RefreshSource(h)
      BY <1>1, <3>1, <3>4 DEF PlayTrack, RefreshSource, Step, Plays
    <3>5. CASE CheckStarted(h)
      BY <1>1, <3>1, <3>5 DEF CheckStarted, Step, SessionIsCurrent, Plays
    <3> QED BY <1>5, <3>2, <3>3, <3>4, <3>5 DEF Play
  <2>4. \A r \in Requests \ {h} : play'[r] = play[r]
    BY <1>1, <1>5 DEF Play, PlayRequest, PreparePlayback, PlayTrack, RefreshSource,
         CheckStarted, Step
  <2> QED BY <2>1, <2>2, <2>3, <2>4
<1>6. CASE WorkerStep
  BY <1>1, <1>6 DEF WorkerStep, TakeEvent, AdvanceLocked, Advance, AdvanceStarted,
       AdvanceFailed,
       AdvanceExpired, Install, StopPlaying
<1>7. ASSUME NEW s \in Sessions, Skip(s) \/ ToggleMode(s)
      PROVE  ReplacedForGood'
  BY <1>7 DEF Skip, ToggleMode, UserCommand
<1>8. CASE BeginDisconnect
  BY <1>1, <1>8 DEF BeginDisconnect, TasksHaveSession
<1>9. CASE DeckEnds \/ ClearSession \/ LeaveCall \/ UNCHANGED vars
  BY <1>9 DEF DeckEnds, ClearSession, LeaveCall, vars
<1> QED BY <1>2, <1>3, <1>4, <1>5, <1>6, <1>7, <1>8, <1>9 DEF Next, Disconnect

LEMMA TypeStep ==
    ASSUME CursorInv, [Next]_vars
    PROVE  TypeOK'
<1>1. CASE UNCHANGED vars
  BY <1>1 DEF CursorInv, TypeOK, vars, CoordType, PendingType, PlayerType, DeckType,
       TaskType,
       RuntimeType, OtherType
<1>2. ASSUME NEW r \in Requests, Flush(r)
      PROVE  TypeOK'
  BY <1>2, WaitForEarlierType, FailNextType, CommitNextType, StartedCurrentType,
     StartFailedType, StartExpiredType DEF Flush
<1>3. ASSUME NEW r \in Requests, \/ Join(r) \/ GetOrCreateSession(r) \/ Reserve(r) \/ Resolve(r)
                                 \/ FinishEnqueue(r) \/ Cancel(r)
      PROVE  TypeOK'
  BY <1>3, JoinType, GetOrCreateSessionType, ReserveType, ResolveType, FinishEnqueueType,
     CancelType
<1>4. ASSUME NEW h \in Holders, Play(h)
      PROVE  TypeOK'
  BY <1>4, PlayRequestType, PreparePlaybackType, PlayTrackType, RefreshSourceType,
     CheckStartedType DEF Play
<1>5. CASE WorkerStep
  BY <1>5, TakeEventType, AdvanceLockedType, AdvanceType, AdvanceStartedType,
     AdvanceFailedType, AdvanceExpiredType DEF WorkerStep
<1>6. ASSUME NEW s \in Sessions, Skip(s) \/ ToggleMode(s)
      PROVE  TypeOK'
  BY <1>6, SkipType, ToggleModeType
<1>7. CASE DeckEnds \/ Disconnect
  BY <1>7, DeckEndsType, BeginDisconnectType, ClearSessionType,
       LeaveCallType DEF Disconnect
<1> QED BY <1>1, <1>2, <1>3, <1>4, <1>5, <1>6, <1>7 DEF Next

LEMMA InitInv == Init => CursorInv
<1> SUFFICES ASSUME Init PROVE CursorInv
  OBVIOUS
<1> USE DEF Init
<1>1. CoordType
  BY BoundsAssumption DEF CoordType, NoSession
<1>2. PendingType
  BY DEF PendingType
<1>3. PlayerType
  BY EmptySeq DEF PlayerType, EmptyPlayer, Players, WellFormed, NoPick
<1>4. DeckType /\ lastDeck \in Nat /\ operation \in [Sessions -> Holders \cup {Free}]
  BY DEF DeckType, NoDeck
<1>5. TaskType
  BY BoundsAssumption DEF TaskType, TaskStates, Replies, NoSession
<1>6. play \in [Holders -> Plays]
  BY DEF NoPlay, Plays, Steps, NoDeck
<1>7. RuntimeType
  BY DEF RuntimeType
<1>8. OtherType
  BY IdleWorkerType, BoundsAssumption DEF OtherType, NoSession
<1>9. TypeOK
  BY <1>1, <1>2, <1>3, <1>4, <1>5, <1>6, <1>7, <1>8 DEF TypeOK
<1>10. SessionsExist
  BY DEF SessionsExist, NoSession
<1>11. TasksHaveSession /\ WorkerHasSession /\ ReplacedForGood
  BY WorkerAssumption DEF TasksHaveSession, WorkerHasSession, ReplacedForGood, NoPlay,
       Holders, IdleWorker
<1>12. CommitCursor /\ CursorInRange
  BY DEF CommitCursor, CursorInRange
<1> QED BY <1>9, <1>10, <1>11, <1>12 DEF CursorInv, Known

LEMMA StepInv == CursorInv /\ [Next]_vars => CursorInv'
<1> SUFFICES ASSUME CursorInv, [Next]_vars PROVE CursorInv'
  OBVIOUS
<1>1. TypeOK'
  BY TypeStep
<1>2. SessionsExist' /\ TasksHaveSession' /\ WorkerHasSession' /\ ReplacedForGood'
  BY <1>1, SessionsExistStep, TasksHaveSessionStep, WorkerHasSessionStep, ReplacedForGoodStep
<1>3. CommitCursor' /\ CursorInRange'
  BY <1>1, CommitCursorStep
<1> QED BY <1>1, <1>2, <1>3 DEF CursorInv, Known

\* Whatever the number of requests, sessions and disconnects, every variable of
\* the pipeline keeps its type.
THEOREM TypeCorrect == Spec => []TypeOK
<1>1. CursorInv => TypeOK
  BY DEF CursorInv
<1> QED BY <1>1, InitInv, StepInv, PTL DEF Spec

\* next_commit_seq is exact in every behaviour: nothing reserved or withdrawn
\* lies behind it, and in the live session nothing else lies ahead of it, so
\* flush_ready_prefix never waits for a sequence nobody will settle.
THEOREM CommitCursorExact == Spec => []CommitCursor
<1>1. CursorInv => CommitCursor
  BY DEF CursorInv
<1> QED BY <1>1, InitInv, StepInv, PTL DEF Spec

-----------------------------------------------------------------------------
(* The queue stays within its limits.                                      *)

\* The reserved numbers of a session can be counted.
LEMMA PendingFinite ==
    ASSUME CursorInv, NEW s \in Sessions
    PROVE  IsFiniteSet(pending[s]) /\ Cardinality(pending[s]) \in Nat
<1>1. /\ nextCommit[s] \in Int /\ Len(order[s]) \in Int
      /\ pending[s] \subseteq nextCommit[s]..Len(order[s])
  BY LenProperties DEF CursorInv, CommitCursor, TypeOK, PendingType
<1>2. IsFiniteSet(nextCommit[s]..Len(order[s]))
  BY <1>1, FS_Interval
<1> QED BY <1>1, <1>2, FS_Subset, FS_CardinalityType

\* What a session holds does not grow.
NotMore(s) == pending'[s] \subseteq pending[s] /\ Len(player'[s].queue) <= Len(player[s].queue)

\* A step that adds no track and no number keeps the limits.
LEMMA NotMoreIsBound ==
    ASSUME CursorInv, TypeOK', QueueBound, NEW s \in Sessions, NotMore(s)
    PROVE  /\ Cardinality(pending'[s]) <= MaxPendingEnqueues
           /\ Len(player'[s].queue) + Cardinality(pending'[s])
                < MaxQueueLen + MaxPendingEnqueues
<1>1. /\ IsFiniteSet(pending[s]) /\ Cardinality(pending[s]) \in Nat
      /\ Len(player[s].queue) \in Nat
  BY PendingFinite, QueueLengths DEF CursorInv, TypeOK, PlayerType
<1>2. Cardinality(pending'[s]) \in Nat /\ Cardinality(pending'[s]) <= Cardinality(pending[s])
  BY <1>1, FS_Subset, FS_CardinalityType DEF NotMore
<1>3. Len(player'[s].queue) \in Nat
  BY LenProperties DEF TypeOK, PlayerType, Players
<1> QED BY <1>1, <1>2, <1>3, BoundsAssumption, SMTT(30) DEF QueueBound, NotMore

\* Only Reserve adds a number, below both limits, and a commit gives up its number
\* for the track it adds.
LEMMA QueueBoundStep ==
    ASSUME CursorInv, TypeOK', QueueBound, [Next]_vars
    PROVE  QueueBound'
<1>1. ASSUME \A s \in Sessions : NotMore(s)
      PROVE  QueueBound'
  BY <1>1, NotMoreIsBound DEF QueueBound
<1>2. \A s \in Sessions : /\ player[s] \in Players /\ WellFormed(player[s])
                          /\ Len(player[s].queue) \in Nat
  BY QueueLengths DEF CursorInv, TypeOK, PlayerType
<1>3. pending \in [Sessions -> SUBSET Nat] /\ player \in [Sessions -> Players]
  BY DEF CursorInv, TypeOK, PlayerType, PendingType
<1>4. ASSUME NEW r \in Requests, \/ Join(r) \/ GetOrCreateSession(r) \/ Resolve(r)
                                 \/ FinishEnqueue(r) \/ WaitForEarlier(r) \/ FailNext(r)
                                 \/ StartedCurrent(r) \/ Cancel(r)
      PROVE  QueueBound'
  <2>1. UNCHANGED player
    BY <1>4 DEF Join, GetOrCreateSession, Resolve, FinishEnqueue, WaitForEarlier, FailNext,
         StartedCurrent, Cancel
  <2>2. \A s \in Sessions : pending'[s] \subseteq pending[s]
    BY <1>3, <1>4 DEF Join, GetOrCreateSession, Resolve, FinishEnqueue, WaitForEarlier,
       FailNext,
         StartedCurrent, Cancel, TakeNext
  <2> QED BY <1>1, <1>2, <2>1, <2>2 DEF NotMore
<1>5. ASSUME NEW r \in Requests, StartFailed(r) \/ StartExpired(r)
      PROVE  QueueBound'
  <2>1. \A s \in Sessions : pending'[s] \subseteq pending[s]
    BY <1>3, <1>5 DEF StartFailed, StartExpired, DrainPending
  <2>2. player' = [player EXCEPT ![session[r]] = ClearCurrent(player[session[r]])]
    BY <1>5 DEF StartFailed, StartExpired, ClearCurrentOf
  <2>3. \A s \in Sessions : player'[s].queue = player[s].queue
    BY <1>2, <1>3, <2>2, QueueLengths
  <2> QED BY <1>1, <1>2, <2>1, <2>3 DEF NotMore
<1>6. ASSUME NEW r \in Requests, Reserve(r)
      PROVE  QueueBound'
  <2> DEFINE s == session[r]
  <2>1. s \in Sessions
    BY <1>6, InSession DEF Reserve
  <2>2. UNCHANGED player /\ \A z \in Sessions \ {s} : pending'[z] = pending[z]
    BY <1>3, <1>6 DEF Reserve
  <2>3. CASE Full(s)
    BY <1>1, <1>2, <1>6, <2>2, <2>3 DEF Reserve, NotMore
  <2>4. CASE ~Full(s)
    <3>1. pending'[s] = pending[s] \cup {Len(order[s]) + 1}
      BY <1>3, <1>6, <2>1, <2>4 DEF Reserve
    <3>2. Cardinality(pending[s]) < MaxPendingEnqueues /\ Len(player[s].queue) < MaxQueueLen
      BY <1>2, <2>1, <2>4, PendingFinite, BoundsAssumption DEF Full
    <3>3. /\ Cardinality(pending'[s]) \in Nat
          /\ Cardinality(pending'[s]) <= Cardinality(pending[s]) + 1
      <4> DEFINE more == pending[s] \cup {Len(order[s]) + 1}
      <4>1. IsFiniteSet(pending[s]) /\ Cardinality(pending[s]) \in Nat
        BY <2>1, PendingFinite
      <4>2. /\ IsFiniteSet(more)
            /\ Cardinality(more) = Cardinality(pending[s]) \/ Cardinality(more) = Cardinality(pending[s]) + 1
        BY <4>1, FS_AddElement, Zenon
      <4> HIDE DEF more
      <4> QED BY <3>1, <4>1, <4>2, FS_CardinalityType DEF more
    <3>4. \A z \in Sessions \ {s} : NotMore(z)
      BY <1>2, <2>2 DEF NotMore
    <3>5. /\ Cardinality(pending'[s]) <= MaxPendingEnqueues
          /\ Len(player'[s].queue) + Cardinality(pending'[s]) < MaxQueueLen + MaxPendingEnqueues
      <4> HIDE DEF s
      <4> QED BY <1>2, <2>1, <2>2, <3>2, <3>3, PendingFinite, BoundsAssumption
    <3> QED BY <3>4, <3>5, NotMoreIsBound DEF QueueBound
  <2> QED BY <2>3, <2>4
<1>7. ASSUME NEW r \in Requests, CommitNext(r)
      PROVE  QueueBound'
  <2> DEFINE s == session[r]
             n == NextSequence(s)
  <2>1. s \in Sessions /\ n \in ready[s]
    BY <1>7, InSession DEF CommitNext
  <2>2. n \in pending[s] /\ order[s][n] \in Tracks
    BY <2>1, CommitsTrack DEF CursorInv, Known, CursorInRange
  <2>3. /\ pending'[s] = pending[s] \ {n}
        /\ \A z \in Sessions \ {s} : pending'[z] = pending[z] /\ player'[z] = player[z]
    BY <1>3, <1>7, <2>1 DEF CommitNext, TakeNext
  <2>4. PICK p \in Enqueue(player[s], order[s][n]) : player'[s] = p
    BY <1>3, <1>7, <2>1 DEF CommitNext
  <2>5. Len(player'[s].queue) \in Nat /\ Len(player'[s].queue) <= Len(player[s].queue) + 1
    BY <1>2, <2>1, <2>2, <2>4, QueueLengths
  <2>6. Cardinality(pending'[s]) = Cardinality(pending[s]) - 1
    <3>1. IsFiniteSet(pending[s])
      BY <2>1, PendingFinite
    <3>2. Cardinality(pending[s] \ {n}) = Cardinality(pending[s]) - 1
      BY <2>2, <3>1, FS_RemoveElement, Zenon
    <3> QED BY <2>3, <3>2
  <2>7. \A z \in Sessions \ {s} : NotMore(z)
    BY <1>2, <2>3 DEF NotMore
  <2>8. /\ Cardinality(pending'[s]) <= MaxPendingEnqueues
        /\ Len(player'[s].queue) + Cardinality(pending'[s]) < MaxQueueLen + MaxPendingEnqueues
    <3> HIDE DEF s, n
    <3> QED BY <1>2, <2>1, <2>5, <2>6, PendingFinite, BoundsAssumption, SMTT(30) DEF QueueBound
  <2> QED BY <2>7, <2>8, NotMoreIsBound DEF QueueBound
<1>8. ASSUME NEW h \in Holders, Play(h)
      PROVE  QueueBound'
  <2>1. UNCHANGED <<player, pending>>
    BY <1>8 DEF Play, PlayRequest, PreparePlayback, PlayTrack, RefreshSource, CheckStarted
  <2> QED BY <1>1, <1>2, <2>1 DEF NotMore
<1>9. CASE WorkerStep
  <2> DEFINE s == worker.event.session
  <2>1. UNCHANGED pending
    BY <1>9 DEF WorkerStep, TakeEvent, AdvanceLocked, Advance, AdvanceStarted, AdvanceFailed,
         AdvanceExpired
  <2>2. CASE TakeEvent \/ AdvanceLocked \/ AdvanceExpired
    BY <1>1, <1>2, <2>1, <2>2 DEF TakeEvent, AdvanceLocked, AdvanceExpired, NotMore
  <2>3. CASE Advance
    <3>1. s \in Sessions
      BY <2>3, WorkerSession DEF Advance
    <3>2. \/ UNCHANGED player
          \/ \E p \in PrepareNextTrack(player[s]) : player' = [player EXCEPT ![s] = p]
      BY <2>3 DEF Advance
    <3> HIDE DEF s
    <3> QED BY <1>1, <1>2, <1>3, <2>1, <3>1, <3>2, QueueLengths DEF NotMore
  <2>4. CASE AdvanceStarted
    <3>1. s \in Sessions /\ play[Worker].track \in Tracks \cup {NoTrack}
      BY <2>4, WorkerSession DEF AdvanceStarted, CursorInv, TypeOK, Plays, Holders
    <3>2. player' = [player EXCEPT ![s] = ReplaceCurrent(player[s], play[Worker].track)]
      BY <2>4 DEF AdvanceStarted
    <3> HIDE DEF s
    <3> QED BY <1>1, <1>2, <1>3, <2>1, <3>1, <3>2, QueueLengths DEF NotMore
  <2>5. CASE AdvanceFailed
    <3>1. s \in Sessions
      BY <2>5, WorkerSession DEF AdvanceFailed
    <3>2. DisableLoop(player[s]) \in Players /\ WellFormed(DisableLoop(player[s]))
      BY <1>2, <3>1, UpdatesWellFormed
    <3>3. player' = [player EXCEPT ![s] = ClearCurrent(DisableLoop(player[s]))]
      BY <2>5 DEF AdvanceFailed, ClearCurrentOf
    <3> HIDE DEF s
    <3> QED BY <1>1, <1>2, <1>3, <2>1, <3>1, <3>2, <3>3, QueueLengths DEF NotMore
  <2> QED BY <1>9, <2>2, <2>3, <2>4, <2>5 DEF WorkerStep
<1>10. ASSUME NEW s \in Sessions, Skip(s) \/ ToggleMode(s)
       PROVE  QueueBound'
  <2>1. /\ UNCHANGED pending
        /\ \E p \in {DisableLoop(player[s]), ToggleLoop(player[s])} \cup ToggleShuffle(player[s]) :
             player' = [player EXCEPT ![s] = p]
    BY <1>10 DEF Skip, ToggleMode, UserCommand
  <2> QED BY <1>1, <1>2, <1>3, <2>1, QueueLengths DEF NotMore
<1>11. CASE ClearSession
  <2>1. \A z \in Sessions : pending'[z] \subseteq pending[z]
    BY <1>3, <1>11 DEF ClearSession, DrainPending
  <2>2. player' = [player EXCEPT ![dsession] = ClearPlayer(player[dsession])]
    BY <1>11 DEF ClearSession
  <2> QED BY <1>1, <1>2, <1>3, <2>1, <2>2, QueueLengths DEF NotMore
<1>12. CASE DeckEnds \/ BeginDisconnect \/ LeaveCall \/ UNCHANGED vars
  <2>1. UNCHANGED <<player, pending>>
    BY <1>12 DEF DeckEnds, BeginDisconnect, LeaveCall, vars
  <2> QED BY <1>1, <1>2, <2>1 DEF NotMore
<1> QED BY <1>4, <1>5, <1>6, <1>7, <1>8, <1>9, <1>10, <1>11, <1>12 DEF Next, Flush, Disconnect

\* The two limits are checked one by one, so the queue can pass MAX_QUEUE_LEN;
\* whatever the limits, it never does by more than the enqueues in flight.
THEOREM QueueStaysBounded == Spec => []QueueBound
<1>1. Init => QueueBound
  <2> SUFFICES ASSUME Init PROVE QueueBound
    OBVIOUS
  <2>1. \A s \in Sessions : Len(player[s].queue) = 0 /\ Cardinality(pending[s]) = 0
    BY FS_EmptySet, EmptySeq DEF Init, EmptyPlayer
  <2> QED BY <2>1, BoundsAssumption DEF QueueBound
<1>2. CursorInv /\ QueueBound /\ [Next]_vars => QueueBound'
  BY TypeStep, QueueBoundStep
<1> QED BY <1>1, <1>2, InitInv, StepInv, PTL DEF Spec

-----------------------------------------------------------------------------
(* The inductive invariant behind the decks: who may play in a session.    *)

\* A task that flushes or starts a track holds the operation lock, and so does
\* the worker while it advances.
LocksHeld ==
    /\ \A r \in Requests : pc[r] \in {"flushing", "starting"} => operation[session[r]] = r
    /\ worker.pc \in {"advance", "starting"} => operation[worker.event.session] = Worker
    /\ worker.pc = "starting" => play[Worker].step # "none"
    /\ \A r \in Requests : pc[r] = "starting" => play[r].step # "none"

\* Playback ids are handed out in turn, a deck with an end event is over, and
\* the worker handles the event of such a deck or, after a failed start, none.
EventsFit ==
    /\ \A d \in decks \cup events : d.id \in 1..lastDeck /\ d.session <= lastSession
    /\ events \cap decks = {}
    /\ worker.event.id <= lastDeck /\ worker.event.session <= lastSession
    /\ worker.pc # "idle" => /\ worker.event \notin decks
                             /\ worker.event.id # NoDeck
                             /\ worker.expected \in {worker.event.id, NoDeck}
    /\ worker.pc = "idle" => worker.event.id = NoDeck
    /\ worker.pc = "locking" => worker.expected = worker.event.id

\* While play_request runs in a session nothing else plays there: the deck it
\* brings is new, no other is current, and the queue has a current track unless
\* the session was emptied meanwhile.
PlayFits(h) ==
    LET s == SessionOf(h) id == play[h].id IN
    /\ play[h].step \in {"prepare", "play", "refresh"} =>
         Deck(id, s) \notin decks \cup events \cup {worker.event}
    /\ play[h].step \in {"prepare", "play", "refresh", "started", "ok"} => id \in 1..lastDeck
    /\ play[h].step # "none" =>
         /\ play[h].track \in Tracks
         /\ currentId[s] = NoDeck
         /\ player[s].current # NoTrack \/ (s # current /\ ready[s] = {})
         /\ \A d \in decks : d.session = s =>
              play[h].step \in {"started", "ok"} /\ d.id = id

PlaysFit == \A h \in Holders : PlayFits(h)

Quiet(s) == currentId[s] = NoDeck /\ \A d \in decks : d.session # s

\* A session that has no current track and can still commit one plays nothing.
IdleIsQuiet ==
    /\ \A s \in Sessions :
         /\ s > lastSession => currentId[s] = NoDeck
         /\ player[s].current = NoTrack /\ (s = current \/ ready[s] # {}) => Quiet(s)
    /\ worker.pc = "advance" /\ worker.expected = NoDeck => Quiet(worker.event.session)

\* One deck plays in a session, and the session names no other as current.
DecksFit ==
    /\ \A d \in decks : currentId[d.session] \in {d.id, NoDeck}
    /\ \A d, e \in decks : d.session = e.session => d = e

DeckInv == LocksHeld /\ EventsFit /\ PlaysFit /\ IdleIsQuiet /\ DecksFit

\* The types the steps below rest on.
LEMMA DeckTypes ==
    ASSUME TypeOK
    PROVE  /\ current \in Nat /\ lastSession \in Nat /\ lastDeck \in Nat
           /\ operation \in [Sessions -> Holders \cup {Free}]
           /\ ready \in [Sessions -> SUBSET Nat]
           /\ player \in [Sessions -> Players]
           /\ active \in [Sessions -> Nat] /\ currentId \in [Sessions -> Nat]
           /\ pc \in [Requests -> TaskStates] /\ session \in [Requests -> Nat]
           /\ play \in [Holders -> Plays]
           /\ decks \subseteq Decks /\ events \subseteq Decks
           /\ worker \in Workers
           /\ Requests \subseteq Holders /\ Worker \in Holders
           /\ Worker \notin Requests /\ Free \notin Holders
           /\ Sessions \subseteq Nat \ {0}
  BY BoundsAssumption, WorkerAssumption, FreeAssumption
     DEF TypeOK, CoordType, PendingType, PlayerType, DeckType, TaskType, RuntimeType,
         OtherType, Holders, Worker, Free, Sessions

\* Decks, plays and idle workers are the records they are built as.
LEMMA DeckFields ==
    /\ \A d \in Decks : d.id \in Nat /\ d.session \in Nat
    /\ \A d \in Decks : d = Deck(d.id, d.session)
    /\ \A i, s : Deck(i, s).id = i /\ Deck(i, s).session = s
    /\ \A w \in Workers : w.event \in Decks /\ w.expected \in Nat
    /\ IdleWorker.pc = "idle" /\ IdleWorker.event = Deck(0, 0)
    /\ NoPlay.step = "none"
    /\ \A t : Starting(t).step = "check" /\ Starting(t).track = t
  BY BoundsAssumption DEF Decks, Deck, Workers, IdleWorker, NoPlay, Starting, NoDeck, NoSession

\* Who runs play_request holds the lock of his session, so no one else does.
LEMMA PlayingHolds ==
    ASSUME CursorInv, LocksHeld, NEW h \in Holders, play[h].step # "none"
    PROVE  SessionOf(h) \in Sessions /\ operation[SessionOf(h)] = h
<1>1. CASE h \in Requests
  <2>1. pc[h] = "starting" /\ SessionOf(h) = session[h]
    BY <1>1, WorkerAssumption DEF CursorInv, Known, TasksHaveSession, SessionOf
  <2> QED BY <1>1, <2>1, InSession DEF LocksHeld
<1>2. CASE h = Worker
  <2>1. worker.pc = "starting" /\ SessionOf(h) = worker.event.session
    BY <1>2 DEF CursorInv, Known, WorkerHasSession, SessionOf
  <2> QED BY <1>2, <2>1, WorkerSession DEF LocksHeld
<1> QED BY <1>1, <1>2 DEF Holders

\* Nobody else takes or releases a lock that is held.
LEMMA LocksHeldStep ==
    ASSUME CursorInv, LocksHeld, [Next]_vars, TypeOK'
    PROVE  LocksHeld'
<1> USE DEF LocksHeld
<1>0. /\ operation \in [Sessions -> Holders \cup {Free}]
      /\ pc \in [Requests -> TaskStates] /\ session \in [Requests -> Nat]
      /\ play \in [Holders -> Plays] /\ worker \in Workers
      /\ Requests \subseteq Holders /\ Worker \in Holders
      /\ Worker \notin Requests /\ Free \notin Holders
  BY DeckTypes DEF CursorInv
<1>1. /\ \A r \in Requests : pc[r] \notin {"idle", "joined"} => session[r] \in Sessions
      /\ worker.pc # "idle" => worker.event.session \in Sessions
  BY InSession, WorkerSession
<1>2. ASSUME NEW r \in Requests, \/ Join(r) \/ GetOrCreateSession(r) \/ Reserve(r) \/ Resolve(r)
                                 \/ FailNext(r)
      PROVE  LocksHeld'
  BY <1>0, <1>1, <1>2 DEF Join, GetOrCreateSession, Reserve, Resolve, FailNext
<1>3. ASSUME NEW r \in Requests, FinishEnqueue(r) \/ WaitForEarlier(r)
      PROVE  LocksHeld'
  BY <1>0, <1>1, <1>3 DEF FinishEnqueue, WaitForEarlier, Release
<1>4. ASSUME NEW r \in Requests, CommitNext(r)
      PROVE  LocksHeld'
  BY <1>0, <1>1, <1>4, DeckFields DEF CommitNext
<1>5. ASSUME NEW r \in Requests, StartedCurrent(r) \/ StartFailed(r) \/ StartExpired(r)
      PROVE  LocksHeld'
  BY <1>0, <1>1, <1>5 DEF StartedCurrent, StartFailed, StartExpired, Release, Install,
     StopPlaying
<1>6. ASSUME NEW r \in Requests, Cancel(r)
      PROVE  LocksHeld'
  BY <1>0, <1>1, <1>6 DEF Cancel, Release, StopPlaying
<1>7. ASSUME NEW h \in Holders, Play(h)
      PROVE  LocksHeld'
  <2>1. UNCHANGED <<pc, session, operation, worker>>
    BY <1>7 DEF Play, PlayRequest, PreparePlayback, PlayTrack, RefreshSource, CheckStarted
  <2>2. play'[h].step # "none"
    BY <1>0, <1>7 DEF Play, PlayRequest, PreparePlayback, PlayTrack, RefreshSource,
       CheckStarted, Step, Plays
  <2>3. \A k \in Holders \ {h} : play'[k] = play[k]
    BY <1>0, <1>7 DEF Play, PlayRequest, PreparePlayback, PlayTrack, RefreshSource,
       CheckStarted, Step
  <2> QED BY <1>0, <2>1, <2>2, <2>3
<1>8. CASE TakeEvent \/ AdvanceLocked
  BY <1>0, <1>1, <1>8, DeckFields DEF TakeEvent, AdvanceLocked, WorkerIdles, Workers
<1>9. CASE Advance
  BY <1>0, <1>1, <1>9, DeckFields DEF Advance, WorkerIdles, Release, Workers
<1>10. CASE AdvanceStarted \/ AdvanceExpired
  BY <1>0, <1>1, <1>10, DeckFields
     DEF AdvanceStarted, AdvanceExpired, WorkerIdles, Release, Install, StopPlaying
<1>11. CASE AdvanceFailed
  BY <1>0, <1>1, <1>11, DeckFields DEF AdvanceFailed, StopPlaying, Workers
<1>12. ASSUME NEW s \in Sessions, Skip(s) \/ ToggleMode(s)
       PROVE  LocksHeld'
  BY <1>12 DEF Skip, ToggleMode, UserCommand
<1>13. CASE DeckEnds \/ Disconnect \/ UNCHANGED vars
  BY <1>13 DEF DeckEnds, Disconnect, BeginDisconnect, ClearSession, LeaveCall, vars
<1> QED BY <1>2, <1>3, <1>4, <1>5, <1>6, <1>7, <1>8, <1>9, <1>10, <1>11, <1>12, <1>13
        DEF Next, Flush, WorkerStep

\* Decks that stop become events, and nothing else changes with them.
LEMMA EventsFitStep ==
    ASSUME CursorInv, LocksHeld, EventsFit, PlaysFit, [Next]_vars, TypeOK'
    PROVE  EventsFit'
<1> USE DEF EventsFit
<1>0. /\ lastSession \in Nat /\ lastDeck \in Nat
      /\ decks \subseteq Decks /\ events \subseteq Decks /\ worker \in Workers
      /\ play \in [Holders -> Plays]
  BY DeckTypes DEF CursorInv
<1>1. ASSUME UNCHANGED <<lastDeck, worker, lastSession>>,
             decks' \subseteq decks, decks' \cup events' \subseteq decks \cup events,
             events' \cap decks' = {}
      PROVE  EventsFit'
  BY <1>1
<1>2. ASSUME NEW D \in SUBSET decks, End(D), UNCHANGED <<lastDeck, worker, lastSession>>
      PROVE  EventsFit'
  BY <1>1, <1>2 DEF End
<1>3. ASSUME NEW r \in Requests, \/ Join(r) \/ Reserve(r) \/ Resolve(r) \/ FinishEnqueue(r)
                                 \/ Flush(r) \/ Cancel(r)
      PROVE  EventsFit'
  <2>1. UNCHANGED <<lastDeck, worker, lastSession, decks, events>>
    BY <1>3 DEF Join, Reserve, Resolve, FinishEnqueue, Flush, WaitForEarlier, FailNext,
       CommitNext, StartedCurrent, StartFailed, StartExpired, Cancel
  <2> QED BY <2>1
<1>4. ASSUME NEW r \in Requests, GetOrCreateSession(r)
      PROVE  EventsFit'
  <2>1. UNCHANGED <<lastDeck, worker, decks, events>>
    BY <1>4 DEF GetOrCreateSession
  <2>2. lastSession' \in Nat /\ lastSession <= lastSession'
    BY <1>0, <1>4 DEF GetOrCreateSession
  <2> QED BY <1>0, <2>1, <2>2, DeckFields
<1>5. ASSUME NEW h \in Holders, PlayRequest(h)
      PROVE  EventsFit'
  <2>1. UNCHANGED <<lastSession, worker, decks, events>>
    BY <1>5 DEF PlayRequest
  <2>2. lastDeck' \in Nat /\ lastDeck <= lastDeck'
    BY <1>0, <1>5 DEF PlayRequest
  <2> QED BY <1>0, <2>1, <2>2, DeckFields
<1>6. ASSUME NEW h \in Holders, PreparePlayback(h) \/ RefreshSource(h)
      PROVE  EventsFit'
  BY <1>6 DEF PreparePlayback, RefreshSource
<1>7. ASSUME NEW h \in Holders, PlayTrack(h)
      PROVE  EventsFit'
  <2> DEFINE new == Deck(play[h].id, SessionOf(h))
  <2>1. UNCHANGED <<lastSession, worker, lastDeck, events>>
    BY <1>7 DEF PlayTrack
  <2>2. decks' = decks \/ decks' = decks \cup {new}
    BY <1>7 DEF PlayTrack
  <2>3. /\ play[h].id \in 1..lastDeck
        /\ new \notin decks \cup events \cup {worker.event}
    BY <1>7 DEF PlayTrack, PlaysFit, PlayFits
  <2>4. SessionOf(h) <= lastSession
    BY DEF SessionOf, CursorInv, Known, SessionsExist, Holders
  <2> QED BY <2>1, <2>2, <2>3, <2>4, DeckFields
<1>8. ASSUME NEW h \in Holders, CheckStarted(h)
      PROVE  EventsFit'
  <2>1. \E D \in SUBSET decks : decks' = decks \ D /\ events' = events \cup D
    BY <1>8 DEF CheckStarted, End
  <2> QED BY <1>2, <1>8, <2>1 DEF CheckStarted, End
<1>9. CASE TakeEvent
  <2>1. UNCHANGED <<lastSession, lastDeck, decks>>
    BY <1>9 DEF TakeEvent
  <2>2. PICK e \in events :
          /\ events' = events \ {e}
          /\ worker' = IF SessionIsCurrent(e.session)
                       THEN [pc |-> "locking", event |-> e, expected |-> e.id]
                       ELSE IdleWorker
    BY <1>9 DEF TakeEvent
  <2> QED BY <1>0, <2>1, <2>2, DeckFields DEF NoDeck
<1>10. CASE AdvanceLocked \/ Advance \/ AdvanceStarted \/ AdvanceFailed \/ AdvanceExpired
  <2>1. UNCHANGED <<lastSession, lastDeck, decks, events>>
    BY <1>10 DEF AdvanceLocked, Advance, AdvanceStarted, AdvanceFailed, AdvanceExpired
  <2>2. \/ worker' = IdleWorker
        \/ worker' = worker
        \/ worker' = [worker EXCEPT !.pc = "advance"]
        \/ worker' = [worker EXCEPT !.pc = "starting"]
        \/ worker' = [worker EXCEPT !.pc = "advance", !.expected = NoDeck]
    BY <1>10 DEF AdvanceLocked, Advance, AdvanceStarted, AdvanceFailed, AdvanceExpired,
       WorkerIdles
  <2>3. worker.pc # "idle"
    BY <1>10 DEF AdvanceLocked, Advance, AdvanceStarted, AdvanceFailed, AdvanceExpired
  <2>4. worker' # IdleWorker =>
          /\ worker'.event = worker.event /\ worker'.pc \in {worker.pc, "advance", "starting"}
          /\ worker'.expected \in {worker.expected, NoDeck}
          /\ worker'.pc \in {"idle", "locking"} => worker' = worker
    BY <1>0, <2>2 DEF Workers
  <2>5. IdleWorker.pc = "idle" /\ IdleWorker.event.id = 0 /\ IdleWorker.event.session = 0
    BY DeckFields
  <2>6. CASE worker' = IdleWorker
    BY <1>0, <2>1, <2>5, <2>6 DEF NoDeck
  <2>7. CASE worker' # IdleWorker
    BY <2>1, <2>3, <2>4, <2>7
  <2> QED BY <2>6, <2>7
<1>11. ASSUME NEW s \in Sessions, Skip(s) \/ ToggleMode(s)
       PROVE  EventsFit'
  <2>1. UNCHANGED <<lastSession, worker, lastDeck>>
    BY <1>11 DEF Skip, ToggleMode, UserCommand
  <2>2. End(ActiveDeck(s)) \/ UNCHANGED <<decks, events>>
    BY <1>11 DEF Skip, ToggleMode
  <2> QED BY <1>1, <1>2, <2>1, <2>2 DEF ActiveDeck
<1>12. CASE DeckEnds
  <2>1. UNCHANGED <<lastSession, worker, lastDeck>>
    BY <1>12 DEF DeckEnds
  <2> QED BY <1>2, <1>12, <2>1 DEF DeckEnds
<1>13. CASE ClearSession
  <2>1. UNCHANGED <<lastSession, worker, lastDeck>>
    BY <1>13 DEF ClearSession
  <2> QED BY <1>2, <1>13, <2>1 DEF ClearSession, ActiveDeck
<1>14. CASE LeaveCall
  BY <1>1, <1>14 DEF LeaveCall
<1>15. CASE BeginDisconnect \/ UNCHANGED vars
  BY <1>15 DEF BeginDisconnect, vars
<1> QED BY <1>3, <1>4, <1>5, <1>6, <1>7, <1>8, <1>9, <1>10, <1>11, <1>12, <1>13, <1>14, <1>15
        DEF Next, Play, WorkerStep, Disconnect

\* Two that run play_request in one session are one.
LEMMA PlaysAlone ==
    ASSUME CursorInv, LocksHeld, NEW h \in Holders, NEW k \in Holders,
           play[h].step # "none", play[k].step # "none", SessionOf(h) = SessionOf(k)
    PROVE  h = k
  BY PlayingHolds

\* A play_request in progress is untouched by a step that leaves it, its
\* session's queue and its session's deck alone, and starts no deck.
LEMMA PlayKept ==
    ASSUME CursorInv, EventsFit, TypeOK', NEW h \in Holders, PlayFits(h),
           play'[h] = play[h],
           play[h].step # "none" =>
             LET s == SessionOf(h) IN
             /\ SessionOf(h)' = s
             /\ currentId'[s] \in {currentId[s], NoDeck}
             /\ \/ player'[s].current = player[s].current
                \/ player'[s].current # NoTrack
                \/ s # current' /\ ready'[s] = {}
             /\ s # current => s # current' /\ ready'[s] \subseteq ready[s]
             /\ \A d \in decks' : d.session = s => d \in decks
             /\ \A d \in decks' \cup events' \cup {worker'.event} :
                  d \in decks \cup events \cup {worker.event} \/ d.session # s \/ d.id = 0,
           lastDeck <= lastDeck'
    PROVE  PlayFits(h)'
<1> DEFINE s == SessionOf(h)
<1>1. CASE play[h].step = "none"
  BY <1>1 DEF PlayFits
<1>2. CASE play[h].step # "none"
  <2>1. SessionOf(h)' = s /\ play'[h].id = play[h].id
    BY <1>2
  <2>2. play[h].step \in {"prepare", "play", "refresh", "started", "ok"} =>
          play[h].id \in 1..lastDeck'
    BY DEF CursorInv, TypeOK, PlayFits
  <2>3. play[h].step \in {"prepare", "play", "refresh"} =>
          Deck(play[h].id, s) \notin decks' \cup events' \cup {worker'.event}
    BY <1>2, <2>2, DeckFields DEF PlayFits
  <2>4. player'[s].current # NoTrack \/ (s # current' /\ ready'[s] = {})
    BY <1>2 DEF PlayFits
  <2>5. currentId'[s] = NoDeck
    BY <1>2 DEF PlayFits
  <2>6. \A d \in decks' : d.session = s =>
          play[h].step \in {"started", "ok"} /\ d.id = play[h].id
    BY <1>2 DEF PlayFits
  <2>7. play[h].track \in Tracks
    BY <1>2 DEF PlayFits
  <2> HIDE DEF s
  <2> QED BY <2>1, <2>2, <2>3, <2>4, <2>5, <2>6, <2>7 DEF PlayFits
<1> QED BY <1>1, <1>2

\* A task that plays nothing fits.
LEMMA NoPlayFits ==
    ASSUME NEW h \in Holders, play'[h].step = "none"
    PROVE  PlayFits(h)'
  BY DEF PlayFits

\* What play_request itself does, to the one that runs it and to the others.
LEMMA PlaysFitPlay ==
    ASSUME CursorInv, DeckInv, TypeOK', NEW k \in Holders, Play(k)
    PROVE  PlaysFit'
<1> DEFINE s == SessionOf(k)
<1>0. /\ play \in [Holders -> Plays] /\ lastDeck \in Nat
      /\ decks \subseteq Decks /\ events \subseteq Decks /\ worker.event \in Decks
      /\ play[k].step # "none" /\ PlayFits(k)
  BY DeckTypes, DeckFields DEF CursorInv, DeckInv, PlaysFit, Play, PlayRequest,
     PreparePlayback, PlayTrack,
     RefreshSource, CheckStarted
<1>1. /\ UNCHANGED <<current, currentId, player, ready, worker, session>>
      /\ \A h \in Holders : SessionOf(h)' = SessionOf(h)
      /\ \A h \in Holders \ {k} : play'[h] = play[h]
  BY <1>0 DEF Play, PlayRequest, PreparePlayback, PlayTrack, RefreshSource, CheckStarted, Step,
     SessionOf
<1>2. lastDeck <= lastDeck'
  BY <1>0 DEF Play, PlayRequest, PreparePlayback, PlayTrack, RefreshSource, CheckStarted
<1>3. /\ \A d \in decks' : d \in decks \/ d.session = s
      /\ \A d \in decks' \cup events' : d \in decks \cup events \/ d.session = s
  BY DeckFields DEF Play, PlayRequest, PreparePlayback, PlayTrack, RefreshSource,
     CheckStarted, End
<1>4. ASSUME NEW h \in Holders \ {k}
      PROVE  PlayFits(h)'
  <2>1. play[h].step # "none" => SessionOf(h) # s
    BY <1>0, PlaysAlone DEF DeckInv
  <2> HIDE DEF s
  <2> QED BY <1>1, <1>2, <1>3, <2>1, PlayKept DEF DeckInv, PlaysFit
<1>5. PlayFits(k)'
  <2>1. CASE PlayRequest(k)
    <3>1. CASE play'[k].step = "prepare"
      <4>1. /\ play'[k].id = lastDeck + 1 /\ lastDeck' = lastDeck + 1
            /\ play'[k].track = play[k].track
            /\ play[k].step = "check"
            /\ UNCHANGED <<decks, events>>
        BY <1>0, <2>1, <3>1 DEF PlayRequest, Step, Plays
      <4>2. \A d \in decks \cup events \cup {worker.event} : d.id # lastDeck + 1
        BY <1>0, DeckFields DEF DeckInv, EventsFit
      <4> QED BY <1>0, <1>1, <3>1, <4>1, <4>2, DeckFields DEF PlayFits
    <3>2. CASE play'[k].step # "prepare"
      <4>1. play'[k].step = "expired" /\ play'[k].track = play[k].track /\ play[k].step = "check"
        BY <1>0, <2>1, <3>2 DEF PlayRequest, Step, Plays
      <4>2. UNCHANGED <<decks, events>>
        BY <2>1 DEF PlayRequest
      <4> QED BY <1>0, <1>1, <4>1, <4>2 DEF PlayFits
    <3> QED BY <3>1, <3>2
  <2>2. CASE PreparePlayback(k) \/ RefreshSource(k)
    <3>1. /\ UNCHANGED <<decks, events, lastDeck>>
          /\ play[k].step \in {"prepare", "refresh"}
          /\ play'[k].step \in {"failed", "expired", "play"}
          /\ play'[k].id = play[k].id /\ play'[k].track = play[k].track
      BY <1>0, <2>2 DEF PreparePlayback, RefreshSource, Step, Plays
    <3> QED BY <1>0, <1>1, <3>1 DEF PlayFits
  <2>3. CASE PlayTrack(k)
    <3>1. /\ UNCHANGED <<events, lastDeck>>
          /\ play[k].step = "play"
          /\ play'[k].id = play[k].id /\ play'[k].track = play[k].track
          /\ \/ decks' = decks /\ play'[k].step \in {"failed", "refresh"}
             \/ decks' = decks \cup {Deck(play[k].id, s)} /\ play'[k].step = "started"
      BY <1>0, <2>3 DEF PlayTrack, Step, Plays
    <3> QED BY <1>0, <1>1, <3>1, DeckFields DEF PlayFits
  <2>4. CASE CheckStarted(k)
    <3>1. /\ UNCHANGED lastDeck
          /\ play[k].step = "started"
          /\ play'[k].id = play[k].id /\ play'[k].track = play[k].track
          /\ \/ decks' = decks /\ play'[k].step = "ok"
             \/ decks' = decks \ {Deck(play[k].id, s)} /\ play'[k].step = "expired"
      BY <1>0, <2>4 DEF CheckStarted, End, Step, Plays
    <3>2. \A d \in decks' : d \in decks
      BY <3>1
    <3>3. play'[k].step = "expired" => \A d \in decks' : d.session # s
      BY <1>0, <3>1, DeckFields DEF PlayFits
    <3> HIDE DEF s
    <3> QED BY <1>0, <1>1, <3>1, <3>2, <3>3 DEF PlayFits, s
  <2> QED BY <2>1, <2>2, <2>3, <2>4 DEF Play
<1> QED BY <1>4, <1>5 DEF PlaysFit

\* The tasks of /play: one of them begins or leaves play_request.
LEMMA PlaysFitTask ==
    ASSUME CursorInv, DeckInv, TypeOK', NEW r \in Requests,
           \/ Join(r) \/ GetOrCreateSession(r) \/ Reserve(r) \/ Resolve(r)
           \/ FinishEnqueue(r) \/ Flush(r) \/ Cancel(r)
    PROVE  PlaysFit'
<1> DEFINE s == session[r]
<1>0. /\ play \in [Holders -> Plays] /\ lastDeck \in Nat
      /\ currentId \in [Sessions -> Nat] /\ player \in [Sessions -> Players]
      /\ ready \in [Sessions -> SUBSET Nat] /\ session \in [Requests -> Nat]
      /\ worker \in Workers /\ lastSession \in Nat
      /\ Requests \subseteq Holders /\ Worker \notin Requests
      /\ SessionOf(r) = s
  BY DeckTypes DEF CursorInv, SessionOf
<1>1. UNCHANGED <<decks, events, lastDeck, worker>>
  BY DEF Join, GetOrCreateSession, Reserve, Resolve, FinishEnqueue, Flush, WaitForEarlier,
     FailNext, CommitNext, StartedCurrent, StartFailed, StartExpired, Cancel
<1>2. ASSUME NEW h \in Holders, play'[h] = play[h],
             play[h].step # "none" =>
               LET z == SessionOf(h) IN
               /\ SessionOf(h)' = z
               /\ currentId'[z] = currentId[z]
               /\ player'[z].current = player[z].current \/ player'[z].current # NoTrack
               /\ z # current => z # current' /\ ready'[z] \subseteq ready[z]
      PROVE  PlayFits(h)'
  BY <1>0, <1>1, <1>2, PlayKept DEF DeckInv, PlaysFit
<1>3. CASE Join(r) \/ Reserve(r) \/ Resolve(r) \/ WaitForEarlier(r) \/ FailNext(r)
  <2>1. UNCHANGED <<current, currentId, player, play, session>> /\ \A z \in Sessions : ready'[z] \subseteq ready[z]
    BY <1>0, <1>3 DEF Join, Reserve, Resolve, WaitForEarlier, FailNext, TakeNext
  <2>2. \A h \in Holders : SessionOf(h)' = SessionOf(h)
    BY <1>1, <2>1 DEF SessionOf
  <2> QED BY <1>2, <2>1, <2>2, PlayingHolds DEF PlaysFit, DeckInv
<1>4. CASE GetOrCreateSession(r)
  <2>1. /\ UNCHANGED <<currentId, player, play, ready>>
        /\ current' = current \/ current' = lastSession + 1
        /\ \A q \in Requests \ {r} : session'[q] = session[q]
        /\ play[r].step = "none"
    BY <1>0, <1>4 DEF GetOrCreateSession, CursorInv, Known, TasksHaveSession
  <2>2. ASSUME NEW h \in Holders, play[h].step # "none"
        PROVE  SessionOf(h)' = SessionOf(h) /\ SessionOf(h) <= lastSession /\ SessionOf(h) \in Sessions
    BY <1>1, <2>1, <2>2, PlayingHolds DEF SessionOf, DeckInv, EventsFit, CursorInv, Known,
       SessionsExist, Holders
  <2>3. \A z \in Sessions : z \in Nat
    BY DeckTypes DEF CursorInv
  <2>4. ASSUME NEW h \in Holders, play[h].step # "none"
        PROVE  SessionOf(h) # current => SessionOf(h) # current'
    BY <1>0, <2>1, <2>2, <2>3, <2>4
  <2> QED BY <1>2, <2>1, <2>2, <2>4 DEF PlaysFit
<1>5. CASE FinishEnqueue(r)
  <2>1. UNCHANGED <<current, currentId, player, play, session>>
    BY <1>5 DEF FinishEnqueue
  <2>2. \A z \in Sessions : z # current => ready'[z] \subseteq ready[z]
    BY <1>0, <1>5 DEF FinishEnqueue, SessionIsCurrent
  <2>3. \A h \in Holders : SessionOf(h)' = SessionOf(h)
    BY <1>1, <2>1 DEF SessionOf
  <2> QED BY <1>2, <2>1, <2>2, <2>3, PlayingHolds DEF PlaysFit, DeckInv
<1>6. ASSUME pc[r] \in {"flushing", "starting"}, NEW h \in Holders \ {r}, play[h].step # "none"
      PROVE  SessionOf(h) \in Sessions \ {s}
  BY <1>6, PlayingHolds DEF DeckInv, LocksHeld
<1>7. CASE CommitNext(r)
  <2> DEFINE n == NextSequence(s)
  <2>1. /\ UNCHANGED <<current, currentId, session>> /\ s \in Sessions /\ pc[r] = "flushing"
        /\ n \in ready[s] /\ order[s][n] \in Tracks
    BY <1>7, InSession, CommitsTrack DEF CommitNext
  <2>2. /\ \A h \in Holders : SessionOf(h)' = SessionOf(h)
        /\ \A h \in Holders \ {r} : play'[h] = play[h]
    BY <1>0, <1>1, <1>7, <2>1 DEF SessionOf, CommitNext
  <2>3. \A z \in Sessions \ {s} : player'[z] = player[z] /\ ready'[z] = ready[z]
    BY <1>0, <1>7, <2>1 DEF CommitNext, TakeNext
  <2>4. \A h \in Holders \ {r} : PlayFits(h)'
    <3> HIDE DEF s
    <3> QED BY <1>2, <1>6, <2>1, <2>2, <2>3
  <2>5. play[r].step = "none"
    BY <2>1 DEF CursorInv, Known, TasksHaveSession
  <2>6. CASE player[s].current # NoTrack
    <3>1. play' = play
      BY <1>7, <2>6 DEF CommitNext, BecomesCurrent
    <3> QED BY <1>0, <2>4, <2>5, <3>1, NoPlayFits DEF PlaysFit
  <2>7. CASE player[s].current = NoTrack
    <3>1. play'[r].step = "check" /\ play'[r].track = order[s][n]
      BY <1>0, <1>7, <2>7, DeckFields DEF CommitNext, BecomesCurrent
    <3>2. player'[s].current = order[s][n]
      <4>1. PICK p \in Enqueue(player[s], order[s][n]) : player' = [player EXCEPT ![s] = p]
        BY <1>7 DEF CommitNext
      <4>2. p.current = order[s][n]
        BY <1>0, <2>1, <2>7, <4>1 DEF Enqueue, BecomesCurrent, Players
      <4> QED BY <1>0, <2>1, <4>1, <4>2
    <3>3. Quiet(s)
      BY <2>1, <2>7 DEF DeckInv, IdleIsQuiet
    <3>4. PlayFits(r)'
      <4>1. SessionOf(r)' = s
        BY <1>0, <2>2
      <4> HIDE DEF s, n
      <4> QED BY <1>1, <2>1, <3>1, <3>2, <3>3, <4>1, NoTrackAssumption DEF PlayFits, Quiet
    <3> QED BY <2>4, <3>4 DEF PlaysFit
  <2> QED BY <2>6, <2>7
<1>8. CASE StartedCurrent(r) \/ StartFailed(r) \/ StartExpired(r) \/ Cancel(r)
  <2>1. UNCHANGED <<current, session>>
    BY <1>8 DEF StartedCurrent, StartFailed, StartExpired, Cancel
  <2>2. /\ \A h \in Holders : SessionOf(h)' = SessionOf(h)
        /\ \A h \in Holders \ {r} : play'[h] = play[h]
        /\ play'[r].step = "none"
    <3>1. \A h \in Holders : SessionOf(h)' = SessionOf(h)
      BY <1>1, <2>1 DEF SessionOf
    <3>2. CASE StartedCurrent(r) \/ StartFailed(r) \/ StartExpired(r)
      BY <1>0, <3>1, <3>2, DeckFields DEF StartedCurrent, StartFailed, StartExpired, Install,
         StopPlaying
    <3>3. CASE Cancel(r)
      BY <1>0, <3>1, <3>3, DeckFields DEF Cancel, StopPlaying, CursorInv, Known,
         TasksHaveSession
    <3> QED BY <1>8, <3>2, <3>3
  <2>3. \A z \in Sessions : ready'[z] \subseteq ready[z]
    BY <1>0, <1>8 DEF StartedCurrent, StartFailed, StartExpired, DrainPending, Cancel
  <2>4. \A z \in Sessions \ {s} : player'[z] = player[z] /\ currentId'[z] = currentId[z]
    BY <1>0, <1>8 DEF StartedCurrent, StartFailed, StartExpired, Install, ClearCurrentOf,
       Cancel
  <2>5. pc[r] # "starting" => UNCHANGED <<player, currentId>>
    BY <1>8 DEF StartedCurrent, StartFailed, StartExpired, Cancel
  <2>6. \A h \in Holders \ {r} : PlayFits(h)'
    <3> HIDE DEF s
    <3> QED BY <1>2, <1>6, <2>1, <2>2, <2>3, <2>4, <2>5, PlayingHolds DEF DeckInv
  <2> QED BY <1>0, <2>2, <2>6, NoPlayFits DEF PlaysFit
<1> QED BY <1>3, <1>4, <1>5, <1>7, <1>8 DEF Flush

\* What the worker advances from is over, and nothing else plays there.
LEMMA EndedIsQuiet ==
    ASSUME CursorInv, DeckInv, worker.pc = "advance", EndsCurrent(worker.event.session)
    PROVE  \A d \in decks : d.session # worker.event.session
<1> SUFFICES ASSUME NEW d \in decks, d.session = worker.event.session PROVE FALSE
  OBVIOUS
<1>1. worker.expected # NoDeck /\ worker.expected = worker.event.id
  BY DeckFields DEF DeckInv, IdleIsQuiet, EventsFit, Quiet
<1>2. d.id = worker.event.id
  BY <1>1 DEF EndsCurrent, DeckInv, DecksFit
<1>3. d = worker.event
  BY <1>2, DeckTypes, DeckFields DEF CursorInv
<1> QED BY <1>3 DEF DeckInv, EventsFit

\* What the steps of the worker leave of the running plays.
LEMMA PlaysFitWorker ==
    ASSUME CursorInv, DeckInv, TypeOK', WorkerStep
    PROVE  PlaysFit'
<1> DEFINE s == worker.event.session
<1>0. /\ play \in [Holders -> Plays] /\ lastDeck \in Nat
      /\ currentId \in [Sessions -> Nat] /\ player \in [Sessions -> Players]
      /\ ready \in [Sessions -> SUBSET Nat]
      /\ worker \in Workers /\ Worker \in Holders
      /\ SessionOf(Worker) = s
  BY DeckTypes DEF CursorInv, SessionOf
<1>1. UNCHANGED <<decks, lastDeck, current, ready, session>>
  BY DEF WorkerStep, TakeEvent, AdvanceLocked, Advance, AdvanceStarted, AdvanceFailed,
     AdvanceExpired
<1>2. /\ events' \subseteq events
      /\ worker'.event \in events \cup {worker.event} \/ worker'.event.id = 0
  <2>1. CASE TakeEvent
    <3>1. PICK e \in events :
            /\ events' = events \ {e}
            /\ worker' = IF SessionIsCurrent(e.session)
                         THEN [pc |-> "locking", event |-> e, expected |-> e.id]
                         ELSE IdleWorker
      BY <2>1 DEF TakeEvent
    <3> QED BY <3>1, DeckFields
  <2>2. CASE ~TakeEvent
    <3>1. UNCHANGED events
      BY <2>2 DEF WorkerStep, AdvanceLocked, Advance, AdvanceStarted, AdvanceFailed,
         AdvanceExpired
    <3>2. worker' = IdleWorker \/ worker'.event = worker.event
      BY <1>0, <2>2 DEF WorkerStep, AdvanceLocked, Advance, AdvanceStarted, AdvanceFailed,
         AdvanceExpired, WorkerIdles, Workers
    <3> QED BY <3>1, <3>2, DeckFields
  <2> QED BY <2>1, <2>2
<1>3. \A h \in Holders \ {Worker} : SessionOf(h)' = SessionOf(h)
  BY <1>1 DEF SessionOf
<1>4. ASSUME NEW h \in Holders \ {Worker}, play'[h] = play[h],
             play[h].step # "none" =>
               LET z == SessionOf(h) IN
               currentId'[z] = currentId[z] /\ player'[z] = player[z]
      PROVE  PlayFits(h)'
  BY <1>0, <1>1, <1>2, <1>3, <1>4, PlayKept DEF DeckInv, PlaysFit
<1>5. CASE TakeEvent \/ AdvanceLocked
  <2>1. UNCHANGED <<play, currentId, player>> /\ play[Worker].step = "none"
    BY <1>5 DEF TakeEvent, AdvanceLocked, CursorInv, Known, WorkerHasSession
  <2> QED BY <1>0, <1>4, <2>1, NoPlayFits DEF PlaysFit
<1>6. ASSUME worker.pc \in {"advance", "starting"}, NEW h \in Holders \ {Worker}, play[h].step # "none"
      PROVE  SessionOf(h) \in Sessions \ {s}
  BY <1>6, PlayingHolds DEF DeckInv, LocksHeld
<1>7. CASE Advance
  <2>1. s \in Sessions /\ worker.pc = "advance" /\ play[Worker].step = "none"
    BY <1>7, WorkerSession DEF Advance, CursorInv, Known, WorkerHasSession
  <2>2. /\ \A h \in Holders \ {Worker} : play'[h] = play[h]
        /\ \A z \in Sessions \ {s} : player'[z] = player[z] /\ currentId'[z] = currentId[z]
    BY <1>0, <1>7 DEF Advance
  <2>3. \A h \in Holders \ {Worker} : PlayFits(h)'
    <3> HIDE DEF s
    <3> QED BY <1>4, <1>6, <2>1, <2>2
  <2>4. CASE play' = play
    BY <1>0, <2>1, <2>3, <2>4, NoPlayFits DEF PlaysFit
  <2>5. CASE play' # play
    <3>1. PICK p \in PrepareNextTrack(player[s]) :
            /\ player' = [player EXCEPT ![s] = p]
            /\ p.current # NoTrack
            /\ worker' = [worker EXCEPT !.pc = "starting"]
            /\ play' = [play EXCEPT ![Worker] = Starting(p.current)]
      BY <1>7, <2>5 DEF Advance
    <3>2. /\ EndsCurrent(s)
          /\ currentId' = [currentId EXCEPT ![s] = NoDeck]
      BY <1>7, <2>5 DEF Advance
    <3>3. p.current \in Tracks
      BY <2>1, <3>1, PrepareNextWellFormed DEF CursorInv, TypeOK, PlayerType, Players
    <3>4. play'[Worker].step = "check" /\ play'[Worker].track = p.current
      BY <1>0, <3>1, DeckFields
    <3>5. currentId'[s] = NoDeck /\ player'[s].current = p.current
      BY <1>0, <2>1, <3>1, <3>2
    <3>6. SessionOf(Worker)' = s
      BY <1>0, <3>1 DEF SessionOf, Workers
    <3>7. \A d \in decks : d.session # s
      BY <2>1, <3>2, EndedIsQuiet
    <3>8. PlayFits(Worker)'
      <4> HIDE DEF s
      <4> QED BY <1>1, <3>1, <3>3, <3>4, <3>5, <3>6, <3>7 DEF PlayFits
    <3> QED BY <2>3, <3>8 DEF PlaysFit
  <2> QED BY <2>4, <2>5
<1>8. CASE AdvanceStarted \/ AdvanceFailed \/ AdvanceExpired
  <2>1. worker.pc = "starting" /\ play'[Worker].step = "none"
    BY <1>0, <1>8, DeckFields DEF AdvanceStarted, AdvanceFailed, AdvanceExpired, Install,
       StopPlaying
  <2>2. /\ \A h \in Holders \ {Worker} : play'[h] = play[h]
        /\ \A z \in Sessions \ {s} : player'[z] = player[z] /\ currentId'[z] = currentId[z]
    BY <1>0, <1>8 DEF AdvanceStarted, AdvanceFailed, AdvanceExpired, Install, StopPlaying,
       ClearCurrentOf
  <2>3. \A h \in Holders \ {Worker} : PlayFits(h)'
    <3> HIDE DEF s
    <3> QED BY <1>4, <1>6, <2>1, <2>2
  <2> QED BY <1>0, <2>1, <2>3, NoPlayFits DEF PlaysFit
<1> QED BY <1>5, <1>7, <1>8 DEF WorkerStep

\* No step disturbs a play_request that is running.
LEMMA PlaysFitStep ==
    ASSUME CursorInv, DeckInv, [Next]_vars, TypeOK'
    PROVE  PlaysFit'
<1>0. /\ currentId \in [Sessions -> Nat] /\ player \in [Sessions -> Players]
      /\ ready \in [Sessions -> SUBSET Nat] /\ lastDeck \in Nat
  BY DeckTypes DEF CursorInv
<1>1. ASSUME NEW s \in Sessions, Skip(s) \/ ToggleMode(s)
      PROVE  PlaysFit'
  <2>1. UNCHANGED <<current, session, play, worker, currentId, ready, lastDeck>>
    BY <1>1 DEF Skip, ToggleMode, UserCommand
  <2>2. decks' \subseteq decks /\ decks' \cup events' \subseteq decks \cup events
    BY <1>1 DEF Skip, ToggleMode, End, ActiveDeck
  <2>3. \A z \in Sessions : player'[z].current = player[z].current
    <3>1. PICK p \in {DisableLoop(player[s]), ToggleLoop(player[s])} \cup ToggleShuffle(player[s]) :
             player' = [player EXCEPT ![s] = p]
      BY <1>1 DEF Skip, ToggleMode
    <3>2. p.current = player[s].current
      BY <1>0, <3>1, TogglesKeepCurrent
    <3> QED BY <1>0, <3>1, <3>2
  <2>4. \A h \in Holders : SessionOf(h)' = SessionOf(h)
    BY <2>1 DEF SessionOf
  <2> QED BY <1>0, <2>1, <2>2, <2>3, <2>4, PlayKept, PlayingHolds DEF DeckInv, PlaysFit
<1>2. CASE ClearSession
  <2>1. UNCHANGED <<current, session, play, worker, lastDeck>>
    BY <1>2 DEF ClearSession
  <2>2. decks' \subseteq decks /\ decks' \cup events' \subseteq decks \cup events
    BY <1>2 DEF ClearSession, End, ActiveDeck
  <2>3. \A z \in Sessions : /\ currentId'[z] \in {currentId[z], NoDeck}
                            /\ ready'[z] \subseteq ready[z]
                            /\ \/ player'[z] = player[z]
                               \/ z # current /\ ready'[z] = {}
    BY <1>0, <1>2 DEF ClearSession, DrainPending, CursorInv, Known, ReplacedForGood
  <2>4. \A h \in Holders : SessionOf(h)' = SessionOf(h)
    BY <2>1 DEF SessionOf
  <2> QED BY <1>0, <2>1, <2>2, <2>3, <2>4, PlayKept, PlayingHolds DEF DeckInv, PlaysFit
<1>3. CASE DeckEnds \/ BeginDisconnect \/ LeaveCall \/ UNCHANGED vars
  <2>1. UNCHANGED <<session, play, worker, lastDeck, player, currentId, ready>>
    BY <1>3 DEF DeckEnds, BeginDisconnect, LeaveCall, vars
  <2>2. decks' \subseteq decks /\ decks' \cup events' \subseteq decks \cup events
    BY <1>3 DEF DeckEnds, BeginDisconnect, LeaveCall, End, vars
  <2>3. \A z \in Sessions : z # current => z # current'
    BY <1>3, DeckTypes DEF DeckEnds, BeginDisconnect, LeaveCall, vars, NoSession, CursorInv
  <2>4. \A h \in Holders : SessionOf(h)' = SessionOf(h)
    BY <2>1 DEF SessionOf
  <2> QED BY <1>0, <2>1, <2>2, <2>3, <2>4, PlayKept, PlayingHolds DEF DeckInv, PlaysFit
<1> QED BY <1>1, <1>2, <1>3, PlaysFitPlay, PlaysFitTask, PlaysFitWorker DEF Next, Disconnect

\* Only a play_request in progress, or its end, makes a quiet session play.
LEMMA QuietUnlessPlaying ==
    ASSUME CursorInv, [Next]_vars, NEW s \in Sessions, Quiet(s)
    PROVE  Quiet(s)' \/ \E k \in Holders : play[k].step # "none" /\ SessionOf(k) = s
<1> DEFINE Playing == \E k \in Holders : play[k].step # "none" /\ SessionOf(k) = s
<1>0. /\ currentId \in [Sessions -> Nat] /\ Requests \subseteq Holders /\ Worker \in Holders
      /\ Worker \notin Requests
  BY DeckTypes DEF CursorInv
<1>1. ASSUME decks' \subseteq decks, currentId'[s] \in {currentId[s], NoDeck}
      PROVE  Quiet(s)'
  BY <1>1 DEF Quiet
<1>2. ASSUME NEW r \in Requests, \/ Join(r) \/ GetOrCreateSession(r) \/ Reserve(r) \/ Resolve(r)
                                 \/ FinishEnqueue(r) \/ WaitForEarlier(r) \/ FailNext(r)
                                 \/ CommitNext(r) \/ StartFailed(r) \/ StartExpired(r) \/ Cancel(r)
      PROVE  Quiet(s)'
  BY <1>0, <1>1, <1>2 DEF Join, GetOrCreateSession, Reserve, Resolve, FinishEnqueue,
     WaitForEarlier,
     FailNext, CommitNext, StartFailed, StartExpired, ClearCurrentOf, Cancel
<1>3. ASSUME NEW r \in Requests, StartedCurrent(r), ~Playing
      PROVE  Quiet(s)'
  <2>1. session[r] # s /\ UNCHANGED decks
    BY <1>0, <1>3 DEF StartedCurrent, SessionOf
  <2>2. currentId'[s] = currentId[s]
    BY <1>0, <1>3, <2>1 DEF StartedCurrent, Install
  <2> QED BY <1>1, <2>1, <2>2
<1>4. ASSUME NEW k \in Holders, Play(k), ~Playing
      PROVE  Quiet(s)'
  <2>1. SessionOf(k) # s
    BY <1>4 DEF Play, PlayRequest, PreparePlayback, PlayTrack, RefreshSource, CheckStarted
  <2>2. \A d \in decks' : d \in decks \/ d.session = SessionOf(k)
    BY <1>4, DeckFields DEF Play, PlayRequest, PreparePlayback, PlayTrack, RefreshSource,
       CheckStarted, End
  <2>3. UNCHANGED currentId
    BY <1>4 DEF Play, PlayRequest, PreparePlayback, PlayTrack, RefreshSource, CheckStarted
  <2> QED BY <2>1, <2>2, <2>3 DEF Quiet
<1>5. CASE TakeEvent \/ AdvanceLocked \/ Advance \/ AdvanceFailed \/ AdvanceExpired
  BY <1>0, <1>1, <1>5 DEF TakeEvent, AdvanceLocked, Advance, AdvanceFailed, AdvanceExpired,
     ClearCurrentOf
<1>6. ASSUME AdvanceStarted, ~Playing
      PROVE  Quiet(s)'
  <2>1. worker.event.session # s /\ UNCHANGED decks
    BY <1>0, <1>6 DEF AdvanceStarted, SessionOf
  <2>2. currentId'[s] = currentId[s]
    BY <1>0, <1>6, <2>1 DEF AdvanceStarted, Install
  <2> QED BY <1>1, <2>1, <2>2
<1>7. ASSUME NEW z \in Sessions, Skip(z) \/ ToggleMode(z)
      PROVE  Quiet(s)'
  BY <1>1, <1>7 DEF Skip, ToggleMode, UserCommand, End
<1>8. CASE DeckEnds \/ Disconnect \/ UNCHANGED vars
  BY <1>0, <1>1, <1>8 DEF DeckEnds, Disconnect, BeginDisconnect, ClearSession, LeaveCall, End,
     vars
<1> QED BY <1>2, <1>3, <1>4, <1>5, <1>6, <1>7, <1>8 DEF Next, Flush, WorkerStep

\* Only the worker's own steps change the worker.
LEMMA WorkerFrame ==
    ASSUME [Next]_vars
    PROVE  WorkerStep \/ worker' = worker
<1>1. ASSUME NEW r \in Requests, \/ Join(r) \/ GetOrCreateSession(r) \/ Reserve(r) \/ Resolve(r)
                                 \/ FinishEnqueue(r) \/ Flush(r) \/ Cancel(r)
      PROVE  worker' = worker
  BY <1>1 DEF Join, GetOrCreateSession, Reserve, Resolve, FinishEnqueue, Flush, WaitForEarlier,
     FailNext, CommitNext, StartedCurrent, StartFailed, StartExpired, Cancel
<1>2. ASSUME NEW h \in Holders, Play(h)
      PROVE  worker' = worker
  BY <1>2 DEF Play, PlayRequest, PreparePlayback, PlayTrack, RefreshSource, CheckStarted
<1>3. ASSUME NEW s \in Sessions, Skip(s) \/ ToggleMode(s)
      PROVE  worker' = worker
  BY <1>3 DEF Skip, ToggleMode, UserCommand
<1>4. CASE DeckEnds
  BY <1>4 DEF DeckEnds
<1>5. CASE BeginDisconnect \/ ClearSession \/ LeaveCall
  BY <1>5 DEF BeginDisconnect, ClearSession, LeaveCall
<1>6. CASE UNCHANGED vars
  BY <1>6 DEF vars
<1> QED BY <1>1, <1>2, <1>3, <1>4, <1>5, <1>6 DEF Next, Disconnect

\* When the worker goes on after a failed start, its session plays nothing.
LEMMA WorkerQuietStep ==
    ASSUME CursorInv, DeckInv, [Next]_vars, TypeOK',
           worker'.pc = "advance", worker'.expected = NoDeck
    PROVE  Quiet(worker.event.session)' /\ worker'.event = worker.event
<1>0. worker \in Workers /\ play \in [Holders -> Plays] /\ Worker \in Holders
      /\ Worker \notin Requests /\ currentId \in [Sessions -> Nat]
  BY DeckTypes DEF CursorInv
<1>1. ASSUME worker' = worker
      PROVE  Quiet(worker.event.session)'
  <2>1. worker.event.session \in Sessions /\ Quiet(worker.event.session)
    BY <1>1, WorkerSession DEF DeckInv, IdleIsQuiet
  <2>2. ASSUME NEW k \in Holders, play[k].step # "none", SessionOf(k) = worker.event.session
        PROVE  FALSE
    <3>1. k = Worker
      BY <1>1, <2>2, PlayingHolds DEF DeckInv, LocksHeld
    <3> QED BY <1>1, <2>2, <3>1 DEF CursorInv, Known, WorkerHasSession
  <2>3. PICK s \in Sessions : s = worker.event.session
    BY <2>1
  <2>4. Quiet(s)'
    BY <2>1, <2>2, <2>3, QuietUnlessPlaying
  <2>5. s = worker'.event.session
    BY <1>1, <2>3
  <2> QED BY <2>4, <2>5 DEF Quiet
<1>2. CASE WorkerStep
  <2>1. AdvanceFailed
    <3>1. ~TakeEvent
      BY <1>0, DeckFields DEF TakeEvent
    <3>2. ~AdvanceLocked
      BY <1>0, DeckFields DEF AdvanceLocked, WorkerIdles, Workers, DeckInv, EventsFit
    <3>3. ~Advance
      BY <1>0, DeckFields DEF Advance, WorkerIdles, Workers
    <3>4. ~AdvanceStarted /\ ~AdvanceExpired
      BY <1>0, DeckFields DEF AdvanceStarted, AdvanceExpired, WorkerIdles
    <3> QED BY <1>2, <3>1, <3>2, <3>3, <3>4 DEF WorkerStep
  <2>2. worker'.event = worker.event /\ UNCHANGED decks /\ play[Worker].step = "failed"
    BY <1>0, <2>1 DEF AdvanceFailed, Workers
  <2>3. /\ worker.event.session \in Sessions
        /\ currentId'[worker.event.session] = NoDeck
    BY <1>0, <2>1, WorkerSession DEF AdvanceFailed, ClearCurrentOf
  <2>4. \A d \in decks : d.session # worker.event.session
    BY <1>0, <2>2 DEF DeckInv, PlaysFit, PlayFits, SessionOf
  <2> QED BY <2>2, <2>3, <2>4 DEF Quiet
<1>3. CASE worker' = worker
  BY <1>1, <1>3
<1> QED BY <1>2, <1>3, WorkerFrame

Committing(s) == player[s].current = NoTrack /\ (s = current \/ ready[s] # {})

\* A session comes to wait for a first track only by what leaves it quiet.
LEMMA CommittingStep ==
    ASSUME CursorInv, DeckInv, [Next]_vars, TypeOK', NEW s \in Sessions, Committing(s)'
    PROVE  \/ Committing(s) /\ ~ \E k \in Holders : play[k].step # "none" /\ SessionOf(k) = s
           \/ Quiet(s)'
<1>0. /\ currentId \in [Sessions -> Nat] /\ player \in [Sessions -> Players]
      /\ ready \in [Sessions -> SUBSET Nat] /\ session \in [Requests -> Nat]
      /\ play \in [Holders -> Plays] /\ lastSession \in Nat
      /\ worker \in Workers /\ Worker \in Holders /\ Requests \subseteq Holders
      /\ Worker \notin Requests /\ s \in Nat /\ NoTrack \notin Tracks
  BY DeckTypes, NoTrackAssumption DEF CursorInv
<1>1. ASSUME s = current' => s = current,
             ready'[s] \subseteq ready[s] \/ s = current,
             player'[s].current = player[s].current
      PROVE  Committing(s) /\ ~ \E k \in Holders : play[k].step # "none" /\ SessionOf(k) = s
  <2>1. Committing(s)
    BY <1>1 DEF Committing
  <2>2. ASSUME NEW k \in Holders, play[k].step # "none", SessionOf(k) = s
        PROVE  FALSE
    BY <2>1, <2>2 DEF Committing, DeckInv, PlaysFit, PlayFits
  <2> QED BY <2>1, <2>2
<1>2. ASSUME NEW r \in Requests, \/ Join(r) \/ Reserve(r) \/ Resolve(r) \/ WaitForEarlier(r)
                                 \/ FailNext(r) \/ FinishEnqueue(r) \/ StartedCurrent(r)
                                 \/ Cancel(r)
      PROVE  Committing(s) /\ ~ \E k \in Holders : play[k].step # "none" /\ SessionOf(k) = s
  BY <1>0, <1>1, <1>2 DEF Join, Reserve, Resolve, WaitForEarlier, FailNext, TakeNext,
     FinishEnqueue,
     StartedCurrent, Cancel, SessionIsCurrent
<1>3. ASSUME NEW r \in Requests, GetOrCreateSession(r), ~(s = current' => s = current)
      PROVE  Quiet(s)'
  <2>1. s = lastSession + 1 /\ UNCHANGED <<decks, currentId>>
    BY <1>3 DEF GetOrCreateSession
  <2>2. currentId[s] = NoDeck
    BY <1>0, <2>1 DEF DeckInv, IdleIsQuiet
  <2>3. \A d \in decks : d.session # s
    BY <1>0, <2>1, DeckTypes, DeckFields DEF CursorInv, DeckInv, EventsFit
  <2> QED BY <2>1, <2>2, <2>3 DEF Quiet
<1>4. ASSUME NEW r \in Requests, GetOrCreateSession(r), s = current' => s = current
      PROVE  Committing(s) /\ ~ \E k \in Holders : play[k].step # "none" /\ SessionOf(k) = s
  BY <1>1, <1>4 DEF GetOrCreateSession
<1>5. ASSUME NEW r \in Requests, CommitNext(r)
      PROVE  Committing(s) /\ ~ \E k \in Holders : play[k].step # "none" /\ SessionOf(k) = s
  <2> DEFINE z == session[r]
             n == NextSequence(z)
  <2>1. UNCHANGED current /\ z \in Sessions /\ order[z][n] \in Tracks
    BY <1>5, InSession, CommitsTrack DEF CommitNext
  <2>2. ready'[s] \subseteq ready[s]
    BY <1>0, <1>5 DEF CommitNext, TakeNext
  <2>3. PICK p \in Enqueue(player[z], order[z][n]) : player' = [player EXCEPT ![z] = p]
    BY <1>5 DEF CommitNext
  <2>4. p.current # NoTrack
    <3>1. CASE BecomesCurrent(player[z])
      BY <1>0, <2>1, <2>3, <3>1 DEF Enqueue, Players
    <3>2. CASE ~BecomesCurrent(player[z])
      BY <1>0, <2>1, <2>3, <3>2, EnqueueKeepsCurrent DEF BecomesCurrent
    <3> QED BY <3>1, <3>2
  <2>5. s # z
    BY <1>0, <2>1, <2>3, <2>4 DEF Committing
  <2>6. player'[s] = player[s]
    BY <1>0, <2>3, <2>5
  <2> HIDE DEF z, n
  <2> QED BY <1>1, <2>1, <2>2, <2>6
<1>6. ASSUME NEW r \in Requests, StartFailed(r) \/ StartExpired(r)
      PROVE  \/ Committing(s) /\ ~ \E k \in Holders : play[k].step # "none" /\ SessionOf(k) = s
             \/ Quiet(s)'
  <2>1. UNCHANGED <<current, decks>> /\ ready'[s] \subseteq ready[s]
    BY <1>0, <1>6 DEF StartFailed, StartExpired, DrainPending
  <2>2. CASE s # session[r]
    <3>1. player'[s] = player[s]
      BY <1>0, <1>6, <2>2 DEF StartFailed, StartExpired, ClearCurrentOf
    <3> QED BY <1>1, <2>1, <3>1
  <2>3. CASE s = session[r]
    <3>1. currentId'[s] = NoDeck
      BY <1>0, <1>6, <2>3 DEF StartFailed, StartExpired, ClearCurrentOf
    <3>2. \A d \in decks : d.session # s
      BY <1>0, <1>6, <2>3 DEF StartFailed, StartExpired, SessionOf, DeckInv, PlaysFit, PlayFits
    <3> QED BY <2>1, <3>1, <3>2 DEF Quiet
  <2> QED BY <2>2, <2>3
<1>7. ASSUME NEW k \in Holders, Play(k)
      PROVE  Committing(s) /\ ~ \E h \in Holders : play[h].step # "none" /\ SessionOf(h) = s
  BY <1>1, <1>7 DEF Play, PlayRequest, PreparePlayback, PlayTrack, RefreshSource, CheckStarted
<1>8. CASE TakeEvent \/ AdvanceLocked \/ AdvanceExpired
  BY <1>1, <1>8 DEF TakeEvent, AdvanceLocked, AdvanceExpired
<1>9. CASE Advance \/ AdvanceStarted \/ AdvanceFailed
  <2> DEFINE z == worker.event.session
  <2>1. UNCHANGED <<current, decks, ready>> /\ z \in Sessions
    BY <1>9, WorkerSession DEF Advance, AdvanceStarted, AdvanceFailed
  <2>2. CASE player'[s] = player[s]
    BY <1>1, <2>1, <2>2
  <2>3. CASE player'[s] # player[s]
    <3>1. s = z
      BY <1>0, <1>9, <2>1, <2>3 DEF Advance, AdvanceStarted, AdvanceFailed, ClearCurrentOf
    <3>2. CASE Advance
      <4>1. EndsCurrent(z) /\ worker.pc = "advance" /\ currentId'[z] = NoDeck
        BY <1>0, <2>1, <2>3, <3>2 DEF Advance
      <4> QED BY <2>1, <3>1, <4>1, EndedIsQuiet DEF Quiet
    <3>3. CASE AdvanceStarted
      <4>1. player'[z].current = play[Worker].track
        BY <1>0, <2>1, <3>3 DEF AdvanceStarted, ReplaceCurrent, Players
      <4>2. play[Worker].track \in Tracks
        BY <1>0, <3>3 DEF AdvanceStarted, DeckInv, PlaysFit, PlayFits
      <4> QED BY <1>0, <3>1, <4>1, <4>2 DEF Committing
    <3>4. CASE AdvanceFailed
      <4>1. currentId'[z] = NoDeck /\ play[Worker].step = "failed"
        BY <1>0, <2>1, <3>4 DEF AdvanceFailed, ClearCurrentOf
      <4>2. \A d \in decks : d.session # z
        BY <1>0, <4>1 DEF DeckInv, PlaysFit, PlayFits, SessionOf
      <4> QED BY <2>1, <3>1, <4>1, <4>2 DEF Quiet
    <3> QED BY <1>9, <3>2, <3>3, <3>4
  <2> QED BY <2>2, <2>3
<1>10. ASSUME NEW z \in Sessions, Skip(z) \/ ToggleMode(z)
       PROVE  Committing(s) /\ ~ \E k \in Holders : play[k].step # "none" /\ SessionOf(k) = s
  <2>1. UNCHANGED <<current, ready>>
    BY <1>10 DEF Skip, ToggleMode, UserCommand
  <2>2. PICK p \in {DisableLoop(player[z]), ToggleLoop(player[z])} \cup ToggleShuffle(player[z]) :
           player' = [player EXCEPT ![z] = p]
    BY <1>10 DEF Skip, ToggleMode
  <2>3. p.current = player[z].current
    BY <1>0, <2>2, TogglesKeepCurrent
  <2>4. player'[s].current = player[s].current
    BY <1>0, <2>2, <2>3
  <2> QED BY <1>1, <2>1, <2>4
<1>11. CASE ClearSession
  <2>1. UNCHANGED current /\ ready'[s] \subseteq ready[s]
    BY <1>0, <1>11 DEF ClearSession, DrainPending
  <2>2. CASE s = dsession
    BY <1>0, <1>11, <2>1, <2>2 DEF ClearSession, DrainPending, Committing, CursorInv, Known,
       ReplacedForGood
  <2>3. CASE s # dsession
    <3>1. player'[s] = player[s]
      BY <1>0, <1>11, <2>3 DEF ClearSession
    <3> QED BY <1>1, <2>1, <3>1
  <2> QED BY <2>2, <2>3
<1>12. CASE DeckEnds \/ BeginDisconnect \/ LeaveCall \/ UNCHANGED vars
  <2>1. UNCHANGED <<player, ready>> /\ (current' = current \/ current' = 0)
    BY <1>12 DEF DeckEnds, BeginDisconnect, LeaveCall, vars, NoSession
  <2>2. s # 0
    BY DeckTypes DEF CursorInv
  <2> QED BY <1>1, <2>1, <2>2
<1> QED BY <1>2, <1>3, <1>4, <1>5, <1>6, <1>7, <1>8, <1>9, <1>10, <1>11, <1>12
        DEF Next, Flush, WorkerStep, Disconnect

\* A session loses its current track only when its deck is over or forgotten.
LEMMA IdleIsQuietStep ==
    ASSUME CursorInv, DeckInv, [Next]_vars, TypeOK'
    PROVE  IdleIsQuiet'
<1>1. ASSUME NEW s \in Sessions, Committing(s)'
      PROVE  Quiet(s)'
  <2>1. Committing(s) => Quiet(s)
    BY DEF Committing, DeckInv, IdleIsQuiet
  <2> QED BY <1>1, <2>1, CommittingStep, QuietUnlessPlaying
<1>2. ASSUME NEW s \in Sessions, s > lastSession'
      PROVE  currentId'[s] = NoDeck
  <2>0. /\ lastSession \in Nat /\ s \in Nat
        /\ currentId \in [Sessions -> Nat] /\ lastSession' \in Nat
        /\ Worker \notin Requests
    BY DeckTypes DEF CursorInv, TypeOK, CoordType
  <2>1. lastSession <= lastSession'
    <3>1. CASE \E r \in Requests : GetOrCreateSession(r)
      BY <2>0, <3>1 DEF GetOrCreateSession
    <3>2. CASE \E r \in Requests : Reserve(r)
      BY <2>0, <3>2 DEF Reserve
    <3>3. CASE BeginDisconnect \/ UNCHANGED coordVars
      BY <2>0, <3>3 DEF BeginDisconnect
    <3> QED BY <3>1, <3>2, <3>3, SessionFrame
  <2>2. currentId[s] = NoDeck
    BY <1>2, <2>0, <2>1 DEF DeckInv, IdleIsQuiet
  <2>3. Quiet(s)
    <3>1. \A d \in decks : d.session # s
      BY <1>2, <2>0, <2>1, DeckTypes, DeckFields DEF CursorInv, DeckInv, EventsFit
    <3> QED BY <2>2, <3>1 DEF Quiet
  <2>4. ASSUME NEW k \in Holders, SessionOf(k) = s
        PROVE  FALSE
    <3>1. SessionOf(k) <= lastSession
      BY DEF SessionOf, CursorInv, Known, SessionsExist, DeckInv, EventsFit, Holders
    <3> QED BY <1>2, <2>0, <2>1, <2>4, <3>1
  <2> QED BY <2>3, <2>4, QuietUnlessPlaying DEF Quiet
<1>3. worker'.pc = "advance" /\ worker'.expected = NoDeck => Quiet(worker.event.session)' /\ worker'.event = worker.event
  BY WorkerQuietStep
<1>4. worker'.pc = "advance" /\ worker'.expected = NoDeck =>
        currentId'[worker'.event.session] = NoDeck /\ \A d \in decks' : d.session # worker'.event.session
  BY WorkerQuietStep DEF Quiet
<1> QED BY <1>1, <1>2, <1>4 DEF IdleIsQuiet, Committing, Quiet

\* play_track is the one step that adds a deck, where no other plays.
LEMMA DecksFitStep ==
    ASSUME CursorInv, DeckInv, [Next]_vars, TypeOK'
    PROVE  DecksFit'
<1> USE DEF DecksFit
<1>0. /\ currentId \in [Sessions -> Nat] /\ play \in [Holders -> Plays]
      /\ Requests \subseteq Holders /\ Worker \in Holders /\ Worker \notin Requests
      /\ \A d \in decks : d.session \in Sessions
  BY DeckTypes, BoundsAssumption DEF CursorInv, Known, WorkerHasSession, TypeOK, RuntimeType,
     Decks,
     Sessions, NoSession
<1>1. ASSUME decks' \subseteq decks,
             \A d \in decks' : currentId'[d.session] \in {currentId[d.session], NoDeck}
      PROVE  DecksFit'
  BY <1>1 DEF DeckInv
<1>2. ASSUME NEW r \in Requests, \/ Join(r) \/ GetOrCreateSession(r) \/ Reserve(r) \/ Resolve(r)
                                 \/ FinishEnqueue(r) \/ WaitForEarlier(r) \/ FailNext(r)
                                 \/ CommitNext(r) \/ StartFailed(r) \/ StartExpired(r) \/ Cancel(r)
      PROVE  DecksFit'
  BY <1>0, <1>1, <1>2 DEF Join, GetOrCreateSession, Reserve, Resolve, FinishEnqueue,
     WaitForEarlier,
     FailNext, CommitNext, StartFailed, StartExpired, ClearCurrentOf, Cancel
<1>3. ASSUME NEW h \in Holders, play[h].step = "ok", UNCHANGED decks,
             currentId' = [currentId EXCEPT ![SessionOf(h)] = play[h].id]
      PROVE  DecksFit'
  <2>1. \A d \in decks : d.session = SessionOf(h) => d.id = play[h].id
    BY <1>3 DEF DeckInv, PlaysFit, PlayFits
  <2> QED BY <1>0, <1>3, <2>1 DEF DeckInv
<1>4. ASSUME NEW r \in Requests, StartedCurrent(r)
      PROVE  DecksFit'
  BY <1>0, <1>3, <1>4 DEF StartedCurrent, Install, SessionOf
<1>5. CASE AdvanceStarted
  BY <1>0, <1>3, <1>5 DEF AdvanceStarted, Install, SessionOf
<1>6. ASSUME NEW k \in Holders, Play(k)
      PROVE  DecksFit'
  <2>1. UNCHANGED currentId
    BY <1>6 DEF Play, PlayRequest, PreparePlayback, PlayTrack, RefreshSource, CheckStarted
  <2>2. CASE decks' \subseteq decks
    BY <1>1, <2>1, <2>2
  <2>3. CASE ~(decks' \subseteq decks)
    <3>1. /\ decks' = decks \cup {Deck(play[k].id, SessionOf(k))}
          /\ play[k].step = "play"
      BY <1>6, <2>3 DEF Play, PlayRequest, PreparePlayback, PlayTrack, RefreshSource,
         CheckStarted, End
    <3>2. currentId[SessionOf(k)] = NoDeck /\ \A d \in decks : d.session # SessionOf(k)
      BY <3>1 DEF DeckInv, PlaysFit, PlayFits
    <3> QED BY <2>1, <3>1, <3>2, DeckFields DEF DeckInv
  <2> QED BY <2>2, <2>3
<1>7. CASE TakeEvent \/ AdvanceLocked \/ Advance \/ AdvanceFailed \/ AdvanceExpired
  BY <1>0, <1>1, <1>7 DEF TakeEvent, AdvanceLocked, Advance, AdvanceFailed, AdvanceExpired,
     ClearCurrentOf
<1>8. ASSUME NEW z \in Sessions, Skip(z) \/ ToggleMode(z)
      PROVE  DecksFit'
  BY <1>1, <1>8 DEF Skip, ToggleMode, UserCommand, End
<1>9. CASE DeckEnds \/ Disconnect \/ UNCHANGED vars
  BY <1>0, <1>1, <1>9 DEF DeckEnds, Disconnect, BeginDisconnect, ClearSession, LeaveCall, End,
     vars
<1> QED BY <1>2, <1>4, <1>5, <1>6, <1>7, <1>8, <1>9 DEF Next, Flush, WorkerStep

LEMMA DeckInvInit == Init => DeckInv
<1> SUFFICES ASSUME Init PROVE DeckInv
  OBVIOUS
<1> USE DEF Init
<1>1. LocksHeld
  BY DeckFields DEF LocksHeld
<1>2. EventsFit
  BY DeckFields DEF EventsFit, NoDeck
<1>3. PlaysFit
  BY DeckFields DEF PlaysFit, PlayFits
<1>4. IdleIsQuiet
  BY DeckFields DEF IdleIsQuiet, Quiet
<1>5. DecksFit
  BY DEF DecksFit
<1> QED BY <1>1, <1>2, <1>3, <1>4, <1>5 DEF DeckInv

LEMMA DeckInvStep == CursorInv /\ DeckInv /\ [Next]_vars => DeckInv'
<1> SUFFICES ASSUME CursorInv, DeckInv, [Next]_vars PROVE DeckInv'
  OBVIOUS
<1>1. TypeOK'
  BY TypeStep
<1>2. LocksHeld' /\ EventsFit'
  BY <1>1, LocksHeldStep, EventsFitStep DEF DeckInv
<1> QED BY <1>1, <1>2, PlaysFitStep, IdleIsQuietStep, DecksFitStep DEF DeckInv

\* However /play calls, failures, cancellations, skips, ends and disconnects
\* interleave, a session never has two decks playing.
THEOREM OneDeckPerSession == Spec => []AtMostOneDeck
<1>1. DeckInv => AtMostOneDeck
  <2> SUFFICES ASSUME DeckInv, NEW s \in Sessions
               PROVE  Cardinality({d \in decks : d.session = s}) <= 1
    BY DEF AtMostOneDeck
  <2> DEFINE mine == {d \in decks : d.session = s}
  <2>1. CASE mine = {}
    BY <2>1, FS_EmptySet
  <2>2. CASE mine # {}
    <3>1. PICK d : mine = {d}
      BY <2>2 DEF DeckInv, DecksFit
    <3>2. Cardinality({d}) = 1
      BY FS_Singleton
    <3> QED BY <3>1, <3>2
  <2> QED BY <2>1, <2>2
<1> QED BY <1>1, InitInv, StepInv, DeckInvInit, DeckInvStep, PTL DEF Spec

-----------------------------------------------------------------------------
(* Without cancellation every deck has an owner and no guild falls silent. *)

\* A task that is about to check, or to install, deck d.
Brings(h, d) == /\ SessionOf(h) = d.session
                /\ play[h].id = d.id
                /\ play[h].step \in {"started", "ok"}
Bringing(d) == \E h \in Holders : Brings(h, d)
Unchecked(d) == \E h \in Holders : Brings(h, d) /\ play[h].step = "started"

\* A deck is the active one of its session or on its way to be, and one whose
\* session was replaced is still to be checked or has disconnect_guild to fear.
DecksOwned ==
    \A d \in decks :
        /\ Bringing(d) \/ active[d.session] = d.id
        /\ d.session = current \/ dpc # "idle" \/ Unchecked(d)

\* What is being brought stays so in a step that leaves those tasks alone, and
\* what is active stays active.
LEMMA OwnedStay ==
    ASSUME DecksOwned,
           \A d \in decks' : d \in decks,
           \A h \in Holders : play[h].step \in {"started", "ok"} =>
             play'[h] = play[h] /\ SessionOf(h)' = SessionOf(h),
           \A d \in decks' : active'[d.session] = active[d.session] \/ active[d.session] # d.id,
           dpc' = dpc \/ dpc' # "idle",
           \A d \in decks' : d.session = current => d.session = current' \/ dpc' # "idle"
    PROVE  DecksOwned'
<1> SUFFICES ASSUME NEW d \in decks'
             PROVE  /\ Bringing(d)' \/ active'[d.session] = d.id
                    /\ d.session = current' \/ dpc' # "idle" \/ Unchecked(d)'
  BY DEF DecksOwned
<1>1. ASSUME NEW h \in Holders, Brings(h, d)
      PROVE  Brings(h, d)' /\ play'[h] = play[h]
  BY <1>1 DEF Brings
<1>2. Bringing(d) => Bringing(d)'
  BY <1>1 DEF Bringing
<1>3. Unchecked(d) => Unchecked(d)'
  BY <1>1 DEF Unchecked
<1> QED BY <1>2, <1>3 DEF DecksOwned

\* The deck that was brought becomes the active one.
LEMMA OwnedInstalled ==
    ASSUME CursorInv, DeckInv, DecksOwned, NEW k \in Holders, play[k].step = "ok",
           UNCHANGED <<decks, current, dpc>>,
           active' = [active EXCEPT ![SessionOf(k)] = play[k].id],
           \A h \in Holders \ {k} : play'[h] = play[h] /\
             (play[h].step # "none" => SessionOf(h)' = SessionOf(h))
    PROVE  DecksOwned'
<1> SUFFICES ASSUME NEW d \in decks
             PROVE  /\ Bringing(d)' \/ active'[d.session] = d.id
                    /\ d.session = current \/ dpc # "idle" \/ Unchecked(d)'
  BY DEF DecksOwned
<1>0. active \in [Sessions -> Nat] /\ SessionOf(k) \in Sessions
  BY DeckTypes, PlayingHolds DEF CursorInv, DeckInv
<1>1. ASSUME NEW h \in Holders \ {k}, Brings(h, d)
      PROVE  Brings(h, d)' /\ play'[h] = play[h]
  BY <1>1 DEF Brings
<1>2. Unchecked(d) => Unchecked(d)'
  BY <1>1 DEF Unchecked
<1>3. CASE d.session = SessionOf(k)
  <2>1. d.id = play[k].id
    BY <1>3 DEF DeckInv, PlaysFit, PlayFits
  <2> QED BY <1>0, <1>2, <1>3, <2>1 DEF DecksOwned
<1>4. CASE d.session # SessionOf(k)
  <2>1. Bringing(d) => Bringing(d)'
    BY <1>1, <1>4 DEF Bringing, Brings
  <2> QED BY <1>0, <1>2, <1>4, <2>1 DEF DecksOwned
<1> QED BY <1>3, <1>4

\* A step that drops an owner of a deck ends the deck or names another owner.
LEMMA DecksOwnedStep ==
    ASSUME CursorInv, DeckInv, DecksOwned, [Next]_vars, TypeOK', Cancellable = FALSE
    PROVE  DecksOwned'
<1>0. /\ play \in [Holders -> Plays] /\ active \in [Sessions -> Nat]
      /\ Requests \subseteq Holders /\ Worker \in Holders /\ Worker \notin Requests
      /\ worker \in Workers
  BY DeckTypes DEF CursorInv
<1>1. \A d \in decks : d.session \in Sessions /\ d.session # NoSession
  BY DeckTypes, BoundsAssumption DEF CursorInv, Known, WorkerHasSession, TypeOK, RuntimeType,
     Decks,
     Sessions, NoSession
<1>2. ASSUME NEW r \in Requests, \/ Join(r) \/ Reserve(r) \/ Resolve(r) \/ FinishEnqueue(r)
                                 \/ WaitForEarlier(r) \/ FailNext(r)
      PROVE  DecksOwned'
  <2>1. UNCHANGED <<play, session, worker, decks, active, dpc, current>>
    BY <1>2 DEF Join, Reserve, Resolve, FinishEnqueue, WaitForEarlier, FailNext
  <2> QED BY <2>1, OwnedStay DEF SessionOf
<1>3. ASSUME NEW r \in Requests, GetOrCreateSession(r)
      PROVE  DecksOwned'
  <2>1. /\ UNCHANGED <<play, worker, decks, active, dpc>> /\ play[r].step = "none"
        /\ \A q \in Requests \ {r} : session'[q] = session[q]
        /\ current # NoSession => current' = current
    BY <1>3, DeckTypes DEF GetOrCreateSession, CursorInv, Known, TasksHaveSession
  <2>2. \A h \in Holders : play[h].step # "none" => SessionOf(h)' = SessionOf(h)
    BY <2>1 DEF SessionOf, Holders
  <2> QED BY <1>1, <2>1, <2>2, OwnedStay
<1>4. ASSUME NEW r \in Requests, CommitNext(r) \/ StartFailed(r) \/ StartExpired(r)
      PROVE  DecksOwned'
  <2>1. /\ UNCHANGED <<session, worker, decks, active, dpc, current>>
        /\ play[r].step \notin {"started", "ok"}
        /\ \A h \in Holders \ {r} : play'[h] = play[h]
    BY <1>0, <1>4 DEF CommitNext, StartFailed, StartExpired, ClearCurrentOf, StopPlaying,
       CursorInv, Known,
       TasksHaveSession
  <2> QED BY <2>1, OwnedStay DEF SessionOf
<1>5. ASSUME NEW r \in Requests, StartedCurrent(r)
      PROVE  DecksOwned'
  <2>1. /\ UNCHANGED <<session, worker, decks, dpc, current>>
        /\ play[r].step = "ok" /\ SessionOf(r) = session[r]
        /\ \A h \in Holders \ {r} : play'[h] = play[h]
        /\ active' = [active EXCEPT ![session[r]] = play[r].id]
    BY <1>0, <1>5 DEF StartedCurrent, Install, StopPlaying, SessionOf
  <2> QED BY <1>0, <2>1, OwnedInstalled DEF SessionOf
<1>6. ASSUME NEW r \in Requests, Cancel(r)
      PROVE  FALSE
  BY <1>6 DEF Cancel
<1>7. ASSUME NEW k \in Holders, Play(k)
      PROVE  DecksOwned'
  <2>1. /\ UNCHANGED <<session, worker, active, dpc, current>>
        /\ \A h \in Holders \ {k} : play'[h] = play[h]
        /\ \A h \in Holders : SessionOf(h)' = SessionOf(h)
    BY <1>0, <1>7 DEF Play, PlayRequest, PreparePlayback, PlayTrack, RefreshSource,
       CheckStarted, Step, SessionOf
  <2>2. CASE PlayRequest(k) \/ PreparePlayback(k) \/ RefreshSource(k)
    <3>1. UNCHANGED decks /\ play[k].step \notin {"started", "ok"}
      BY <2>2 DEF PlayRequest, PreparePlayback, RefreshSource
    <3> QED BY <2>1, <3>1, OwnedStay
  <2>3. CASE PlayTrack(k)
    <3>1. play[k].step = "play"
      BY <2>3 DEF PlayTrack
    <3>2. CASE decks' = decks
      BY <2>1, <3>1, <3>2, OwnedStay
    <3>3. CASE decks' # decks
      <4>1. /\ decks' = decks \cup {Deck(play[k].id, SessionOf(k))}
            /\ play'[k].step = "started" /\ play'[k].id = play[k].id
        BY <1>0, <2>3, <3>3 DEF PlayTrack, Step, Plays
      <4>2. ASSUME NEW d \in decks
            PROVE  /\ Bringing(d) => Bringing(d)'
                   /\ Unchecked(d) => Unchecked(d)'
        <5>1. ASSUME NEW h \in Holders, Brings(h, d)
              PROVE  Brings(h, d)' /\ play'[h] = play[h]
          BY <2>1, <3>1, <5>1 DEF Brings
        <5> QED BY <5>1 DEF Bringing, Unchecked
      <4>3. ASSUME NEW d, d = Deck(play[k].id, SessionOf(k))
            PROVE  Bringing(d)' /\ Unchecked(d)'
        <5>1. Brings(k, d)'
          BY <2>1, <4>1, <4>3, DeckFields DEF Brings
        <5> QED BY <4>1, <5>1 DEF Bringing, Unchecked
      <4> QED BY <2>1, <4>1, <4>2, <4>3 DEF DecksOwned
    <3> QED BY <3>2, <3>3
  <2>4. CASE CheckStarted(k)
    <3>1. play[k].step = "started" /\ PlayFits(k)
      BY <2>4 DEF CheckStarted, DeckInv, PlaysFit
    <3>2. \A d \in decks : d.session = SessionOf(k) => d = Deck(play[k].id, SessionOf(k))
      BY <3>1, DeckTypes, DeckFields DEF PlayFits, CursorInv
    <3>3. CASE SessionIsCurrent(SessionOf(k))
      <4>1. /\ UNCHANGED decks /\ SessionOf(k) = current
            /\ play'[k].step = "ok" /\ play'[k].id = play[k].id
        BY <1>0, <2>4, <3>3 DEF CheckStarted, Step, Plays, SessionIsCurrent
      <4>2. ASSUME NEW d \in decks
            PROVE  /\ Bringing(d) => Bringing(d)'
                   /\ Unchecked(d) => Unchecked(d)' \/ d.session = current
        <5>1. ASSUME NEW h \in Holders, Brings(h, d)
              PROVE  Brings(h, d)'
          BY <2>1, <4>1, <5>1 DEF Brings
        <5>2. ASSUME NEW h \in Holders, Brings(h, d), play[h].step = "started", d.session # current
              PROVE  play'[h].step = "started"
          BY <2>1, <4>1, <5>2 DEF Brings
        <5>3. Bringing(d) => Bringing(d)'
          BY <5>1 DEF Bringing
        <5> QED BY <5>1, <5>2, <5>3 DEF Unchecked
      <4> QED BY <2>1, <4>1, <4>2 DEF DecksOwned
    <3>4. CASE ~SessionIsCurrent(SessionOf(k))
      <4>1. \A d \in decks' : d \in decks /\ d.session # SessionOf(k)
        BY <2>4, <3>2, <3>4 DEF CheckStarted, End
      <4>2. ASSUME NEW d \in decks'
            PROVE  /\ Bringing(d) => Bringing(d)'
                   /\ Unchecked(d) => Unchecked(d)'
        <5>1. ASSUME NEW h \in Holders, Brings(h, d)
              PROVE  Brings(h, d)' /\ play'[h] = play[h]
          BY <2>1, <4>1, <5>1 DEF Brings
        <5> QED BY <5>1 DEF Bringing, Unchecked
      <4> QED BY <2>1, <4>1, <4>2 DEF DecksOwned
    <3> QED BY <3>3, <3>4
  <2> QED BY <1>7, <2>2, <2>3, <2>4 DEF Play
<1>8. CASE WorkerStep
  <2>1. UNCHANGED <<session, decks, dpc, current>>
    BY <1>8 DEF WorkerStep, TakeEvent, AdvanceLocked, Advance, AdvanceStarted, AdvanceFailed,
       AdvanceExpired
  <2>2. \A h \in Holders \ {Worker} : SessionOf(h)' = SessionOf(h) /\ play'[h] = play[h]
    BY <1>0, <1>8, <2>1 DEF SessionOf, WorkerStep, TakeEvent, AdvanceLocked, Advance,
       AdvanceStarted, AdvanceFailed,
       AdvanceExpired, Install, StopPlaying
  <2>3. CASE TakeEvent \/ AdvanceLocked \/ AdvanceFailed \/ AdvanceExpired
    <3>1. UNCHANGED active /\ play[Worker].step \notin {"started", "ok"}
      BY <2>3 DEF TakeEvent, AdvanceLocked, AdvanceFailed, AdvanceExpired, ClearCurrentOf,
         CursorInv, Known,
         WorkerHasSession
    <3> QED BY <2>1, <2>2, <3>1, OwnedStay
  <2>4. CASE Advance
    <3>1. play[Worker].step = "none" /\ worker.pc = "advance"
      BY <2>4 DEF Advance, CursorInv, Known, WorkerHasSession
    <3>2. \A d \in decks : active'[d.session] = active[d.session]
      <4>1. CASE EndsCurrent(worker.event.session)
        BY <1>0, <1>1, <2>4, <3>1, <4>1, EndedIsQuiet DEF Advance
      <4>2. CASE ~EndsCurrent(worker.event.session)
        BY <2>4, <4>2 DEF Advance
      <4> QED BY <4>1, <4>2
    <3> QED BY <2>1, <2>2, <3>1, <3>2, OwnedStay
  <2>5. CASE AdvanceStarted
    <3>1. /\ play[Worker].step = "ok"
          /\ active' = [active EXCEPT ![SessionOf(Worker)] = play[Worker].id]
      BY <2>5 DEF AdvanceStarted, Install, SessionOf
    <3> QED BY <1>0, <2>1, <2>2, <3>1, OwnedInstalled
  <2> QED BY <1>8, <2>3, <2>4, <2>5 DEF WorkerStep
<1>9. ASSUME NEW z \in Sessions, Skip(z)
      PROVE  DecksOwned'
  <2>1. UNCHANGED <<play, session, worker, dpc, current>>
    BY <1>9 DEF Skip, UserCommand
  <2>2. decks' = decks \ ActiveDeck(z) /\ active' = [active EXCEPT ![z] = NoDeck]
    BY <1>9 DEF Skip, End
  <2>3. \A d \in decks' : active'[d.session] = active[d.session] \/ active[d.session] # d.id
    BY <1>0, <1>1, <2>2 DEF ActiveDeck
  <2> QED BY <2>1, <2>2, <2>3, OwnedStay DEF SessionOf
<1>10. ASSUME NEW z \in Sessions, ToggleMode(z)
       PROVE  DecksOwned'
  <2>1. UNCHANGED <<play, session, worker, decks, active, dpc, current>>
    BY <1>10 DEF ToggleMode, UserCommand
  <2> QED BY <2>1, OwnedStay DEF SessionOf
<1>11. CASE ClearSession
  <2>1. UNCHANGED <<play, session, worker, current>> /\ dpc' = "leave"
    BY <1>11 DEF ClearSession
  <2>2. decks' = decks \ ActiveDeck(dsession) /\ active' = [active EXCEPT ![dsession] = NoDeck]
    BY <1>11 DEF ClearSession, End
  <2>3. \A d \in decks' : active'[d.session] = active[d.session] \/ active[d.session] # d.id
    BY <1>0, <1>1, <2>2 DEF ActiveDeck
  <2> QED BY <2>1, <2>2, <2>3, OwnedStay DEF SessionOf
<1>12. CASE DeckEnds \/ UNCHANGED vars
  <2>1. UNCHANGED <<play, session, worker, active, dpc, current>> /\ decks' \subseteq decks
    BY <1>12 DEF DeckEnds, End, vars
  <2> QED BY <2>1, OwnedStay DEF SessionOf
<1>13. CASE BeginDisconnect
  <2>1. UNCHANGED <<play, session, worker, decks, active>> /\ dpc' # "idle"
    BY <1>13 DEF BeginDisconnect
  <2> QED BY <2>1, OwnedStay DEF SessionOf
<1>14. CASE LeaveCall
  BY <1>14 DEF LeaveCall, DecksOwned
<1> QED BY <1>2, <1>3, <1>4, <1>5, <1>6, <1>7, <1>8, <1>9, <1>10, <1>11, <1>12, <1>13, <1>14
        DEF Next, Flush, Disconnect

\* Whatever disconnect_guild races with: when it is over, every deck that plays
\* is the active one of the live session or will be checked by who started it.
THEOREM NoDeckStaysBehind ==
    ASSUME Cancellable = FALSE
    PROVE  Spec => []NoOrphanDeck
<1>1. Init => DecksOwned
  BY DEF Init, DecksOwned
<1>2. CursorInv /\ DeckInv /\ DecksOwned /\ [Next]_vars => DecksOwned'
  BY TypeStep, DecksOwnedStep
<1>3. DecksOwned => NoOrphanDeck
  BY DEF DecksOwned, NoOrphanDeck, Bringing, Unchecked, Brings, BeingStarted
<1> QED BY <1>1, <1>2, <1>3, InitInv, StepInv, DeckInvInit, DeckInvStep, PTL DEF Spec

\* As long as nobody disconnected the guild it has had one session at most, and
\* one to come has an empty queue.
OneSession ==
    /\ dpc # "idle" => disconnects # 0
    /\ disconnects = 0 => current = lastSession /\ lastSession <= 1
    /\ \A s \in Sessions : s > lastSession => player[s].current = NoTrack

Remembered(d) == d \in decks \cup events \cup {worker.event}

\* Then a deck that was started is not forgotten before it is installed, and
\* play_request does not find its session replaced.
StartedKnown ==
    /\ \A h \in Holders : disconnects = 0 /\ play[h].step \in {"started", "ok"} =>
         Remembered(Deck(play[h].id, SessionOf(h)))
    /\ play[Worker].step \in {"started", "ok"} => play[Worker].id # worker.event.id
    /\ play[Worker].step = "expired" => worker.event.session # current

Heard(s) == currentId[s] # NoDeck /\ Remembered(Deck(currentId[s], s))
Starts(s) == operation[s] # Free /\ play[operation[s]].step # "none"

SilenceInv == OneSession /\ StartedKnown /\ NeverSilent

\* NeverSilent in terms of what is heard and what is being started.
LEMMA NeverSilentMeans ==
    NeverSilent <=> (disconnects = 0 /\ current # NoSession /\ player[current].current # NoTrack
                        => Heard(current) \/ Starts(current))
  BY DEF NeverSilent, Heard, Starts, Remembered

\* Without a disconnect everybody works for the one session.
LEMMA TheSession ==
    ASSUME CursorInv, EventsFit, OneSession, disconnects = 0
    PROVE  /\ \A s \in Sessions : s <= lastSession => s = current
           /\ \A r \in Requests : session[r] \in Sessions => session[r] = current
           /\ worker.event.session \in Sessions => worker.event.session = current
           /\ \A d \in decks \cup events : d.session = current
           /\ current # NoSession => current \in Sessions
<1>1. /\ current \in Nat /\ lastSession \in Nat /\ Sessions \subseteq Nat \ {0}
      /\ decks \subseteq Decks /\ events \subseteq Decks
  BY DeckTypes DEF CursorInv
<1>2. \A s \in Sessions : s <= lastSession => s = current
  BY <1>1 DEF OneSession
<1>3. current # NoSession => current \in Sessions
  BY BoundsAssumption DEF CursorInv, TypeOK, CoordType, Sessions, NoSession
<1>4. \A d \in decks \cup events : d.session \in Sessions
  BY <1>1, BoundsAssumption DEF CursorInv, Known, WorkerHasSession, Decks, Sessions, NoSession
<1> QED BY <1>2, <1>3, <1>4 DEF CursorInv, Known, SessionsExist, EventsFit

\* A known deck is forgotten only by the worker that handled its event or by
\* the end of the call.
LEMMA KnownStays ==
    ASSUME CursorInv, DeckInv, OneSession, [Next]_vars, NEW d \in Decks, d.id # 0,
           disconnects' = 0, Remembered(d)
    PROVE  Remembered(d)' \/ (d = worker.event /\ worker.pc \in {"advance", "starting"} /\ worker' = IdleWorker)
<1>0. worker \in Workers /\ disconnects \in Nat /\ Worker \notin Requests
  BY DeckTypes DEF CursorInv, TypeOK, OtherType
<1>1. ASSUME decks \cup events \subseteq decks' \cup events', worker' = worker
      PROVE  Remembered(d)'
  BY <1>1 DEF Remembered
<1>2. ASSUME NEW r \in Requests, \/ Join(r) \/ GetOrCreateSession(r) \/ Reserve(r) \/ Resolve(r)
                                 \/ FinishEnqueue(r) \/ Flush(r) \/ Cancel(r)
      PROVE  Remembered(d)'
  <2>1. UNCHANGED <<decks, events, worker>>
    BY <1>2 DEF Join, GetOrCreateSession, Reserve, Resolve, FinishEnqueue, Flush,
       WaitForEarlier,
       FailNext, CommitNext, StartedCurrent, StartFailed, StartExpired, Cancel
  <2> QED BY <1>1, <2>1
<1>3. ASSUME NEW h \in Holders, Play(h)
      PROVE  Remembered(d)'
  <2>1. worker' = worker
    BY <1>3 DEF Play, PlayRequest, PreparePlayback, PlayTrack, RefreshSource, CheckStarted
  <2>2. decks \cup events \subseteq decks' \cup events'
    BY <1>3 DEF Play, PlayRequest, PreparePlayback, PlayTrack, RefreshSource, CheckStarted, End
  <2> QED BY <1>1, <2>1, <2>2
<1>4. CASE TakeEvent
  <2>1. PICK e \in events :
          /\ events' = events \ {e}
          /\ worker' = IF SessionIsCurrent(e.session)
                       THEN [pc |-> "locking", event |-> e, expected |-> e.id]
                       ELSE IdleWorker
    BY <1>4 DEF TakeEvent
  <2>2. UNCHANGED <<decks, disconnects>> /\ worker.pc = "idle"
    BY <1>4 DEF TakeEvent
  <2>3. worker'.event = e
    BY <2>1, <2>2, TheSession DEF DeckInv, SessionIsCurrent
  <2>4. d # worker.event
    BY <2>2 DEF DeckInv, EventsFit, NoDeck
  <2> QED BY <2>1, <2>2, <2>3, <2>4 DEF Remembered
<1>5. CASE AdvanceLocked
  <2>1. UNCHANGED <<decks, events, disconnects>> /\ worker.pc = "locking"
    BY <1>5 DEF AdvanceLocked
  <2>2. worker.event.session = current
    BY <2>1, WorkerSession, TheSession DEF DeckInv
  <2>3. worker'.event = worker.event
    BY <1>0, <1>5, <2>2 DEF AdvanceLocked, SessionIsCurrent, Workers
  <2> QED BY <2>1, <2>3 DEF Remembered
<1>6. CASE Advance \/ AdvanceStarted \/ AdvanceFailed \/ AdvanceExpired
  <2>1. UNCHANGED <<decks, events>> /\ worker.pc \in {"advance", "starting"}
    BY <1>6 DEF Advance, AdvanceStarted, AdvanceFailed, AdvanceExpired
  <2>2. worker' = IdleWorker \/ worker'.event = worker.event
    BY <1>0, <1>6 DEF Advance, AdvanceStarted, AdvanceFailed, AdvanceExpired, WorkerIdles,
       Workers
  <2> QED BY <2>1, <2>2 DEF Remembered
<1>7. ASSUME NEW z \in Sessions, Skip(z) \/ ToggleMode(z)
      PROVE  Remembered(d)'
  <2>1. worker' = worker /\ decks \cup events \subseteq decks' \cup events'
    BY <1>7 DEF Skip, ToggleMode, UserCommand, End
  <2> QED BY <1>1, <2>1
<1>8. CASE DeckEnds \/ UNCHANGED vars
  <2>1. worker' = worker /\ decks \cup events \subseteq decks' \cup events'
    BY <1>8 DEF DeckEnds, End, vars
  <2> QED BY <1>1, <2>1
<1>9. CASE Disconnect
  <2>1. disconnects' # 0
    BY <1>0, <1>9 DEF Disconnect, BeginDisconnect, ClearSession, LeaveCall, OneSession
  <2> QED BY <2>1
<1> QED BY <1>2, <1>3, <1>4, <1>5, <1>6, <1>7, <1>8, <1>9 DEF Next, WorkerStep

\* Disconnects are only counted up.
LEMMA DisconnectsGrow ==
    ASSUME [Next]_vars, disconnects \in Nat, disconnects' = 0
    PROVE  disconnects = 0
<1>1. ASSUME NEW r \in Requests, \/ Join(r) \/ GetOrCreateSession(r) \/ Reserve(r) \/ Resolve(r)
                                 \/ FinishEnqueue(r) \/ Flush(r) \/ Cancel(r)
      PROVE  disconnects' = disconnects
  BY <1>1 DEF Join, GetOrCreateSession, Reserve, Resolve, FinishEnqueue, Flush, WaitForEarlier,
     FailNext, CommitNext, StartedCurrent, StartFailed, StartExpired, Cancel
<1>2. ASSUME NEW h \in Holders, Play(h)
      PROVE  disconnects' = disconnects
  BY <1>2 DEF Play, PlayRequest, PreparePlayback, PlayTrack, RefreshSource, CheckStarted
<1>3. ASSUME WorkerStep
      PROVE  disconnects' = disconnects
  BY <1>3 DEF WorkerStep, TakeEvent, AdvanceLocked, Advance, AdvanceStarted, AdvanceFailed,
     AdvanceExpired
<1>4. ASSUME NEW s \in Sessions, Skip(s) \/ ToggleMode(s)
      PROVE  disconnects' = disconnects
  BY <1>4 DEF Skip, ToggleMode, UserCommand
<1>5. ASSUME DeckEnds \/ ClearSession \/ LeaveCall \/ UNCHANGED vars
      PROVE  disconnects' = disconnects
  BY <1>5 DEF DeckEnds, ClearSession, LeaveCall, vars
<1>6. CASE BeginDisconnect
  BY <1>6 DEF BeginDisconnect
<1> QED BY <1>1, <1>2, <1>3, <1>4, <1>5, <1>6 DEF Next, Disconnect

\* A task that has a started deck got it from play_track, or had it before.
LEMMA PlayFrame ==
    ASSUME CursorInv, [Next]_vars, NEW h \in Holders
    PROVE  \/ Play(h)
           \/ play'[h] = play[h] /\ (play[h].step # "none" => SessionOf(h)' = SessionOf(h)
                                        /\ (h = Worker => worker' = worker))
           \/ play'[h].step \in {"none", "check"}
<1>0. /\ play \in [Holders -> Plays] /\ worker \in Workers
      /\ Requests \subseteq Holders /\ Worker \in Holders /\ Worker \notin Requests
      /\ session \in [Requests -> Nat]
  BY DeckTypes DEF CursorInv
<1> DEFINE Same == play'[h] = play[h] /\ (play[h].step # "none" => SessionOf(h)' = SessionOf(h)
                                            /\ (h = Worker => worker' = worker))
<1>1. ASSUME UNCHANGED <<play, session, worker>>
      PROVE  Same
  BY <1>1 DEF SessionOf
<1>2. ASSUME NEW r \in Requests, \/ Join(r) \/ Reserve(r) \/ Resolve(r) \/ FinishEnqueue(r)
                                 \/ WaitForEarlier(r) \/ FailNext(r)
      PROVE  Same
  BY <1>1, <1>2 DEF Join, Reserve, Resolve, FinishEnqueue, WaitForEarlier, FailNext
<1>3. ASSUME NEW r \in Requests, GetOrCreateSession(r)
      PROVE  Same
  <2>1. /\ UNCHANGED <<play, worker>> /\ play[r].step = "none"
        /\ \A q \in Requests \ {r} : session'[q] = session[q]
    BY <1>3 DEF GetOrCreateSession, CursorInv, Known, TasksHaveSession
  <2> QED BY <2>1 DEF SessionOf, Holders
<1>4. ASSUME NEW r \in Requests, \/ CommitNext(r) \/ StartedCurrent(r) \/ StartFailed(r) \/ StartExpired(r)
                                 \/ Cancel(r)
      PROVE  Same \/ play'[h].step \in {"none", "check"}
  <2>1. UNCHANGED <<session, worker>>
    BY <1>4 DEF CommitNext, StartedCurrent, StartFailed, StartExpired, Cancel
  <2>2. play' = play \/ play' = [play EXCEPT ![r] = NoPlay] \/ \E t : play' = [play EXCEPT ![r] = Starting(t)]
    BY <1>4 DEF CommitNext, StartedCurrent, StartFailed, StartExpired, Cancel, Install,
       StopPlaying
  <2>3. SessionOf(h)' = SessionOf(h)
    BY <2>1 DEF SessionOf
  <2> QED BY <1>0, <2>1, <2>2, <2>3, DeckFields
<1>5. ASSUME NEW k \in Holders \ {h}, Play(k)
      PROVE  Same
  <2>1. UNCHANGED <<session, worker>> /\ play'[h] = play[h]
    BY <1>0, <1>5 DEF Play, PlayRequest, PreparePlayback, PlayTrack, RefreshSource,
       CheckStarted, Step
  <2> QED BY <2>1 DEF SessionOf
<1>6. CASE TakeEvent \/ AdvanceLocked
  <2>1. UNCHANGED <<session, play>> /\ play[Worker].step = "none"
    BY <1>6 DEF TakeEvent, AdvanceLocked, CursorInv, Known, WorkerHasSession
  <2> QED BY <2>1 DEF SessionOf
<1>7. CASE Advance \/ AdvanceStarted \/ AdvanceFailed \/ AdvanceExpired
  <2>1. UNCHANGED session /\ \A k \in Holders \ {Worker} : play'[k] = play[k]
    BY <1>0, <1>7 DEF Advance, AdvanceStarted, AdvanceFailed, AdvanceExpired, Install,
       StopPlaying
  <2>2. CASE h # Worker
    BY <2>1, <2>2 DEF SessionOf
  <2>3. CASE h = Worker
    <3>1. \/ play' = play /\ play[Worker].step = "none"
          \/ play' = [play EXCEPT ![Worker] = NoPlay]
          \/ \E t : play' = [play EXCEPT ![Worker] = Starting(t)]
      BY <1>7 DEF Advance, AdvanceStarted, AdvanceFailed, AdvanceExpired, Install,
         StopPlaying, CursorInv, Known,
         WorkerHasSession
    <3> QED BY <1>0, <2>3, <3>1, DeckFields
  <2> QED BY <2>2, <2>3
<1>8. ASSUME NEW s \in Sessions, Skip(s) \/ ToggleMode(s)
      PROVE  Same
  BY <1>1, <1>8 DEF Skip, ToggleMode, UserCommand
<1>9. CASE DeckEnds \/ Disconnect \/ UNCHANGED vars
  <2>1. UNCHANGED <<play, session, worker>>
    BY <1>9 DEF DeckEnds, Disconnect, BeginDisconnect, ClearSession, LeaveCall, vars
  <2> QED BY <1>1, <2>1
<1> QED BY <1>2, <1>3, <1>4, <1>5, <1>6, <1>7, <1>8, <1>9 DEF Next, Flush, WorkerStep

\* Only play_track makes a deck started.
LEMMA StartedBefore ==
    ASSUME CursorInv, [Next]_vars, NEW h \in Holders, play'[h].step \in {"started", "ok"}, ~PlayTrack(h)
    PROVE  /\ play[h].step \in {"started", "ok"} /\ play'[h].id = play[h].id
           /\ SessionOf(h)' = SessionOf(h)
<1>1. CASE Play(h)
  <2>1. play \in [Holders -> Plays]
    BY DeckTypes DEF CursorInv
  <2> QED BY <1>1, <2>1 DEF Play, PlayRequest, PreparePlayback, RefreshSource, CheckStarted,
     Step, Plays, SessionOf
<1> QED BY <1>1, PlayFrame

\* Only play_request itself finds the session replaced.
LEMMA ExpiredBefore ==
    ASSUME CursorInv, [Next]_vars, play'[Worker].step = "expired", ~Play(Worker)
    PROVE  play[Worker].step = "expired"
  BY PlayFrame DEF Holders

\* The worker keeps its event while it starts a track.
LEMMA WorkerStaysStarting ==
    ASSUME CursorInv, [Next]_vars, play[Worker].step # "none", play'[Worker].step \notin {"none", "check"}
    PROVE  worker' = worker
<1>1. CASE Play(Worker)
  BY <1>1 DEF Play, PlayRequest, PreparePlayback, PlayTrack, RefreshSource, CheckStarted
<1> QED BY <1>1, PlayFrame DEF Holders

\* Only a disconnect makes room for a second session.
LEMMA OneSessionStep ==
    ASSUME CursorInv, DeckInv, OneSession, [Next]_vars, TypeOK'
    PROVE  OneSession'
<1> USE DEF OneSession
<1>0. /\ current \in Nat /\ lastSession \in Nat /\ disconnects \in Nat
      /\ player \in [Sessions -> Players] /\ session \in [Requests -> Nat]
      /\ Sessions \subseteq Nat \ {0}
  BY DeckTypes DEF CursorInv, TypeOK, OtherType
<1>1. ASSUME UNCHANGED <<dpc, disconnects, coordVars, player>>
      PROVE  OneSession'
  BY <1>1
<1>2. ASSUME UNCHANGED <<dpc, disconnects, coordVars>>, NEW z \in Sessions, z <= lastSession,
             \A s \in Sessions \ {z} : player'[s] = player[s]
      PROVE  OneSession'
  BY <1>0, <1>2
<1>3. ASSUME NEW r \in Requests, \/ Join(r) \/ Reserve(r) \/ Resolve(r) \/ FinishEnqueue(r)
                                 \/ WaitForEarlier(r) \/ FailNext(r) \/ StartedCurrent(r) \/ Cancel(r)
      PROVE  OneSession'
  BY <1>1, <1>3 DEF Join, Reserve, Resolve, FinishEnqueue, WaitForEarlier, FailNext,
     StartedCurrent, Cancel
<1>4. ASSUME NEW r \in Requests, GetOrCreateSession(r)
      PROVE  OneSession'
  <2>1. UNCHANGED <<dpc, disconnects, player>>
    BY <1>4 DEF GetOrCreateSession
  <2>2. \/ UNCHANGED coordVars
        \/ current = 0 /\ lastSession' = lastSession + 1 /\ current' = lastSession + 1
    BY <1>4 DEF GetOrCreateSession, NoSession
  <2> QED BY <1>0, <2>1, <2>2
<1>5. ASSUME NEW r \in Requests, CommitNext(r) \/ StartFailed(r) \/ StartExpired(r)
      PROVE  OneSession'
  <2>1. UNCHANGED <<dpc, disconnects, coordVars>>
    BY <1>5 DEF CommitNext, StartFailed, StartExpired
  <2>2. session[r] \in Sessions /\ session[r] <= lastSession
    BY <1>5, InSession DEF CommitNext, StartFailed, StartExpired, CursorInv, Known,
       SessionsExist
  <2>3. \A s \in Sessions \ {session[r]} : player'[s] = player[s]
    BY <1>0, <1>5 DEF CommitNext, StartFailed, StartExpired, ClearCurrentOf
  <2> QED BY <1>2, <2>1, <2>2, <2>3
<1>6. ASSUME NEW h \in Holders, Play(h)
      PROVE  OneSession'
  BY <1>1, <1>6 DEF Play, PlayRequest, PreparePlayback, PlayTrack, RefreshSource, CheckStarted
<1>7. CASE TakeEvent \/ AdvanceLocked \/ AdvanceExpired
  BY <1>1, <1>7 DEF TakeEvent, AdvanceLocked, AdvanceExpired
<1>8. CASE Advance \/ AdvanceStarted \/ AdvanceFailed
  <2>1. UNCHANGED <<dpc, disconnects, coordVars>>
    BY <1>8 DEF Advance, AdvanceStarted, AdvanceFailed
  <2>2. worker.event.session \in Sessions /\ worker.event.session <= lastSession
    BY <1>8, WorkerSession DEF Advance, AdvanceStarted, AdvanceFailed, DeckInv, EventsFit
  <2>3. \A s \in Sessions \ {worker.event.session} : player'[s] = player[s]
    BY <1>0, <1>8 DEF Advance, AdvanceStarted, AdvanceFailed, ClearCurrentOf
  <2>4. PICK z \in Sessions : z = worker.event.session
    BY <2>2
  <2> QED BY <1>2, <2>1, <2>2, <2>3, <2>4
<1>9. ASSUME NEW z \in Sessions, Skip(z) \/ ToggleMode(z)
      PROVE  OneSession'
  <2>1. UNCHANGED <<dpc, disconnects, coordVars>> /\ z <= lastSession
    BY <1>0, <1>9 DEF Skip, ToggleMode, UserCommand
  <2>2. \A s \in Sessions \ {z} : player'[s] = player[s]
    BY <1>0, <1>9 DEF Skip, ToggleMode
  <2> QED BY <1>2, <2>1, <2>2
<1>10. CASE DeckEnds \/ UNCHANGED vars
  BY <1>1, <1>10 DEF DeckEnds, vars
<1>11. CASE BeginDisconnect
  BY <1>0, <1>11 DEF BeginDisconnect
<1>12. CASE LeaveCall
  BY <1>0, <1>12 DEF LeaveCall
<1>13. CASE ClearSession
  <2>1. UNCHANGED <<disconnects, coordVars>> /\ disconnects # 0
    BY <1>13 DEF ClearSession
  <2>2. \A s \in Sessions : player'[s] = player[s] \/ player'[s].current = NoTrack
    BY <1>0, <1>13 DEF ClearSession, ClearPlayer, EmptyPlayer
  <2> QED BY <2>1, <2>2
<1> QED BY <1>3, <1>4, <1>5, <1>6, <1>7, <1>8, <1>9, <1>10, <1>11, <1>12, <1>13
        DEF Next, Flush, WorkerStep, Disconnect

\* Who brings a deck, and that he is not the worker's event.
LEMMA StartedKnownStep ==
    ASSUME CursorInv, DeckInv, OneSession, StartedKnown, [Next]_vars, TypeOK'
    PROVE  StartedKnown'
<1>0. /\ play \in [Holders -> Plays] /\ worker \in Workers /\ disconnects \in Nat
      /\ Requests \subseteq Holders /\ Worker \in Holders /\ Worker \notin Requests
      /\ decks \subseteq Decks /\ events \subseteq Decks /\ lastDeck \in Nat
      /\ session \in [Requests -> Nat]
  BY DeckTypes DEF CursorInv, TypeOK, OtherType
<1>1. disconnects' = 0 => disconnects = 0
  BY <1>0, DisconnectsGrow
<1>2. ASSUME NEW h \in Holders, disconnects' = 0, play'[h].step \in {"started", "ok"}
      PROVE  Deck(play'[h].id, SessionOf(h)') \in decks' \cup events' \cup {worker'.event}
  <2>1. CASE PlayTrack(h)
    <3>1. play'[h].id = play[h].id /\ play'[h].step = "started" /\ SessionOf(h)' = SessionOf(h)
      BY <1>0, <1>2, <2>1 DEF PlayTrack, Step, Plays, SessionOf
    <3>2. Deck(play[h].id, SessionOf(h)) \in decks'
      BY <1>0, <2>1, <3>1 DEF PlayTrack, Step, Plays
    <3> QED BY <3>1, <3>2
  <2>2. CASE ~PlayTrack(h)
    <3>1. /\ play[h].step \in {"started", "ok"} /\ play'[h].id = play[h].id
          /\ SessionOf(h)' = SessionOf(h)
      BY <1>2, <2>2, StartedBefore
    <3> DEFINE d == Deck(play[h].id, SessionOf(h))
    <3>2. Remembered(d) /\ d \in Decks /\ d.id # 0
      BY <1>0, <1>1, <1>2, <3>1, DeckFields DEF StartedKnown, Remembered, DeckInv, PlaysFit,
         PlayFits
    <3>3. PICK e \in Decks : e = d
      BY <3>2
    <3>4. ASSUME d = worker.event, worker.pc \in {"advance", "starting"}, worker' = IdleWorker
          PROVE  FALSE
      <4>1. SessionOf(h) = worker.event.session
        BY <3>4, DeckFields
      <4>2. h = Worker
        BY <3>1, <3>4, <4>1, PlayingHolds DEF DeckInv, LocksHeld
      <4>3. play[h].id = worker.event.id
        BY <3>4, DeckFields
      <4> QED BY <3>1, <4>2, <4>3 DEF StartedKnown
    <3>5. Remembered(e)'
      BY <1>2, <3>2, <3>3, <3>4, KnownStays
    <3> QED BY <3>1, <3>3, <3>5 DEF Remembered
  <2> QED BY <2>1, <2>2
<1>3. ASSUME play'[Worker].step \in {"started", "ok"}
      PROVE  play'[Worker].id # worker'.event.id
  <2>1. CASE PlayTrack(Worker)
    <3>1. play'[Worker].id = play[Worker].id /\ worker' = worker /\ play[Worker].step = "play"
      BY <1>0, <2>1 DEF PlayTrack, Step, Plays
    <3>2. Deck(play[Worker].id, worker.event.session) # worker.event
      BY <1>0, <3>1 DEF DeckInv, PlaysFit, PlayFits, SessionOf
    <3> QED BY <1>0, <3>1, <3>2, DeckFields
  <2>2. CASE ~PlayTrack(Worker)
    <3>1. play[Worker].step \in {"started", "ok"} /\ play'[Worker].id = play[Worker].id
      BY <1>0, <1>3, <2>2, StartedBefore
    <3>2. worker.pc = "starting"
      BY <3>1 DEF CursorInv, Known, WorkerHasSession
    <3>3. worker' = worker
      BY <1>0, <1>3, <3>1, <3>2, WorkerStaysStarting
    <3> QED BY <3>1, <3>3 DEF StartedKnown
  <2> QED BY <2>1, <2>2
<1>4. ASSUME play'[Worker].step = "expired"
      PROVE  worker'.event.session # current'
  <2>1. CASE Play(Worker)
    <3>1. UNCHANGED <<worker, current>>
      BY <2>1 DEF Play, PlayRequest, PreparePlayback, PlayTrack, RefreshSource, CheckStarted
    <3>2. SessionOf(Worker) = worker.event.session
      BY DEF SessionOf
    <3>3. SessionOf(Worker) # current
      BY <1>0, <1>4, <2>1 DEF Play, PlayRequest, PreparePlayback, PlayTrack, RefreshSource,
         CheckStarted,
         Step, Plays, SessionIsCurrent
    <3> QED BY <3>1, <3>2, <3>3
  <2>2. CASE ~Play(Worker)
    <3>1. play[Worker].step = "expired"
      BY <1>0, <1>4, <2>2, ExpiredBefore
    <3>2. worker.pc = "starting" /\ worker.event.session # current /\ worker.event.session \in Sessions
      BY <3>1, WorkerSession DEF CursorInv, Known, WorkerHasSession, StartedKnown
    <3>3. worker' = worker
      BY <1>0, <1>4, <3>1, <3>2, WorkerStaysStarting
    <3>4. worker.event.session <= lastSession /\ lastSession \in Nat /\ Sessions \subseteq Nat \ {0}
      BY DeckTypes DEF CursorInv, DeckInv, EventsFit
    <3>5. current' = current \/ current' = 0 \/ current' = lastSession + 1
      BY SessionFrame DEF GetOrCreateSession, Reserve, BeginDisconnect, NoSession
    <3> QED BY <3>2, <3>3, <3>4, <3>5
  <2> QED BY <2>1, <2>2
<1> QED BY <1>2, <1>3, <1>4 DEF StartedKnown, Remembered

\* The session goes on being heard, or being started, in a step that ends
\* neither.
LEMMA SoundStays ==
    ASSUME CursorInv, NeverSilent, UNCHANGED <<current, disconnects>>,
           current # NoSession =>
             /\ currentId'[current] = currentId[current]
             /\ Heard(current) => Remembered(Deck(currentId[current], current))'
             /\ player'[current].current # NoTrack => player[current].current # NoTrack
             /\ Starts(current) => /\ operation'[current] = operation[current]
                                   /\ play'[operation[current]].step # "none"
    PROVE  NeverSilent'
<1>1. PICK c : c = current
  OBVIOUS
<1>2. ASSUME disconnects = 0, c # NoSession, player'[c].current # NoTrack
      PROVE  Heard(c)' \/ Starts(c)'
  <2>1. Heard(c) \/ Starts(c)
    BY <1>1, <1>2, NeverSilentMeans
  <2> QED BY <1>1, <1>2, <2>1 DEF Heard, Starts, Remembered
<1> QED BY <1>1, <1>2 DEF NeverSilent, Heard, Starts, Remembered

\* The step that ends what is heard starts the next track or empties the queue.
LEMMA NeverSilentStep ==
    ASSUME CursorInv, DeckInv, SilenceInv, [Next]_vars, TypeOK', StartedKnown', OneSession',
           Cancellable = FALSE
    PROVE  NeverSilent'
<1> USE DEF SilenceInv
<1>0. /\ play \in [Holders -> Plays] /\ worker \in Workers /\ disconnects \in Nat
      /\ operation \in [Sessions -> Holders \cup {Free}]
      /\ currentId \in [Sessions -> Nat] /\ player \in [Sessions -> Players]
      /\ Requests \subseteq Holders /\ Worker \in Holders /\ Worker \notin Requests
      /\ Free \notin Holders
  BY DeckTypes DEF CursorInv, TypeOK, OtherType
<1>1. disconnects' = 0 => disconnects = 0
  BY <1>0, DisconnectsGrow
<1> SUFFICES ASSUME disconnects' = 0 PROVE NeverSilent'
  BY DEF NeverSilent
<1>2. /\ disconnects = 0
      /\ \A r \in Requests : session[r] \in Sessions => session[r] = current
      /\ worker.event.session \in Sessions => worker.event.session = current
      /\ current # NoSession => current \in Sessions
  BY <1>1, TheSession DEF DeckInv
<1>3. ASSUME NEW r \in Requests, GetOrCreateSession(r)
      PROVE  NeverSilent'
  <2>1. UNCHANGED <<operation, player, currentId, play, decks, events, worker, disconnects>>
    BY <1>3 DEF GetOrCreateSession
  <2>2. CASE current' = current
    BY <2>1, <2>2, SoundStays DEF Heard, Starts, Remembered
  <2>3. CASE current' # current
    <3>1. current' = lastSession + 1
      BY <1>3, <2>3 DEF GetOrCreateSession
    <3>2. current' \in Sessions /\ lastSession \in Nat
      BY <3>1, DeckTypes, BoundsAssumption DEF CursorInv, TypeOK, CoordType, Sessions
    <3>3. player[current'].current = NoTrack
      BY <3>1, <3>2 DEF OneSession
    <3> QED BY <2>1, <3>3 DEF NeverSilent
  <2> QED BY <2>2, <2>3
<1>4. ASSUME NEW r \in Requests, \/ Join(r) \/ Reserve(r) \/ Resolve(r) \/ FailNext(r)
      PROVE  NeverSilent'
  <2>1. UNCHANGED <<current, operation, player, currentId, play, decks, events, worker, disconnects>>
    BY <1>4 DEF Join, Reserve, Resolve, FailNext
  <2> QED BY <2>1, SoundStays DEF Heard, Starts, Remembered
<1>5. ASSUME NEW r \in Requests, FinishEnqueue(r) \/ WaitForEarlier(r)
      PROVE  NeverSilent'
  <2>1. UNCHANGED <<current, player, currentId, play, decks, events, worker, disconnects>>
    BY <1>5 DEF FinishEnqueue, WaitForEarlier
  <2>2. Starts(current) => operation' = operation
    <3>1. CASE FinishEnqueue(r)
      <4>1. session[r] = current
        BY <1>2, <3>1, InSession DEF FinishEnqueue
      <4> QED BY <3>1, <4>1 DEF FinishEnqueue, Starts
    <3>2. CASE WaitForEarlier(r)
      <4>1. session[r] = current /\ operation[session[r]] = r /\ play[r].step = "none"
        BY <1>2, <3>2, InSession DEF WaitForEarlier, DeckInv, LocksHeld, CursorInv, Known,
           TasksHaveSession
      <4> QED BY <4>1 DEF Starts
    <3> QED BY <1>5, <3>1, <3>2
  <2> QED BY <2>1, <2>2, SoundStays DEF Heard, Remembered, Starts
<1>6. ASSUME NEW r \in Requests, CommitNext(r)
      PROVE  NeverSilent'
  <2>1. UNCHANGED <<current, operation, currentId, decks, events, worker, disconnects>>
    BY <1>6 DEF CommitNext
  <2>2. /\ session[r] = current /\ current \in Sessions
        /\ operation[current] = r /\ play[r].step = "none"
    BY <1>2, <1>6, InSession DEF CommitNext, DeckInv, LocksHeld, CursorInv, Known,
       TasksHaveSession
  <2>3. CASE BecomesCurrent(player[current])
    <3>1. play'[r].step = "check"
      BY <1>0, <1>6, <2>2, <2>3, DeckFields DEF CommitNext
    <3>2. operation'[current'] # Free /\ play'[operation'[current']].step # "none"
      BY <1>0, <2>1, <2>2, <3>1
    <3> QED BY <3>2 DEF NeverSilent
  <2>4. CASE ~BecomesCurrent(player[current])
    <3>1. play' = play
      BY <1>6, <2>2, <2>4 DEF CommitNext
    <3>2. player[current].current # NoTrack
      BY <2>4 DEF BecomesCurrent
    <3> QED BY <2>1, <3>1, <3>2, SoundStays DEF Heard, Starts, Remembered
  <2> QED BY <2>3, <2>4
<1>7. ASSUME NEW k \in Holders, play[k].step = "ok", UNCHANGED <<current, decks, events>>,
             SessionOf(k) = current, current \in Sessions,
             worker' = worker \/ k = Worker,
             currentId' = [currentId EXCEPT ![current] = play[k].id]
      PROVE  NeverSilent'
  <2>1. Remembered(Deck(play[k].id, current)) /\ play[k].id # 0
    BY <1>2, <1>7 DEF StartedKnown, DeckInv, PlaysFit, PlayFits
  <2>2. Deck(play[k].id, current) \in decks \cup events \cup {worker'.event}
    <3>1. CASE worker' = worker
      BY <2>1, <3>1 DEF Remembered
    <3>2. CASE k = Worker
      <4>1. Deck(play[k].id, current) # worker.event
        BY <1>7, <3>2, DeckFields DEF StartedKnown
      <4> QED BY <2>1, <4>1 DEF Remembered
    <3> QED BY <1>7, <3>1, <3>2
  <2>3. currentId'[current'] = play[k].id
    BY <1>0, <1>7
  <2> QED BY <1>7, <2>1, <2>2, <2>3 DEF NeverSilent, NoDeck
<1>8. ASSUME NEW r \in Requests, StartedCurrent(r)
      PROVE  NeverSilent'
  <2>1. session[r] \in Sessions /\ SessionOf(r) = session[r]
    BY <1>0, <1>8, InSession DEF StartedCurrent, SessionOf
  <2> QED BY <1>0, <1>2, <1>7, <1>8, <2>1 DEF StartedCurrent, Install
<1>9. ASSUME NEW r \in Requests, StartFailed(r)
      PROVE  NeverSilent'
  <2>1. session[r] \in Sessions /\ session[r] = current /\ UNCHANGED current
    BY <1>2, <1>9, InSession DEF StartFailed
  <2>2. player'[current'].current = NoTrack
    BY <1>0, <1>9, <2>1 DEF StartFailed, ClearCurrentOf, ClearCurrent, Players
  <2> QED BY <2>2 DEF NeverSilent
<1>10. ASSUME NEW r \in Requests, StartExpired(r)
       PROVE  FALSE
  BY <1>2, <1>10, InSession DEF StartExpired, CursorInv, Known, ReplacedForGood
<1>11. ASSUME NEW r \in Requests, Cancel(r)
       PROVE  FALSE
  BY <1>11 DEF Cancel
<1>12. ASSUME NEW h \in Holders, Play(h)
       PROVE  NeverSilent'
  <2>1. UNCHANGED <<current, operation, player, currentId, worker, disconnects>>
    BY <1>12 DEF Play, PlayRequest, PreparePlayback, PlayTrack, RefreshSource, CheckStarted
  <2>2. decks \cup events \subseteq decks' \cup events'
    BY <1>12 DEF Play, PlayRequest, PreparePlayback, PlayTrack, RefreshSource, CheckStarted,
       End
  <2>3. play'[h].step # "none" /\ \A k \in Holders \ {h} : play'[k] = play[k]
    BY <1>0, <1>12 DEF Play, PlayRequest, PreparePlayback, PlayTrack, RefreshSource,
       CheckStarted, Step, Plays
  <2>4. current # NoSession => operation[current] \in Holders \cup {Free}
    BY <1>0, <1>2
  <2>5. Heard(current) => Deck(currentId[current], current) \in decks' \cup events' \cup {worker'.event}
    BY <2>1, <2>2 DEF Heard, Remembered
  <2>6. current # NoSession /\ Starts(current) => play'[operation[current]].step # "none"
    BY <2>3, <2>4 DEF Starts
  <2> QED BY <2>1, <2>5, <2>6, SoundStays DEF Remembered
<1>13. ASSUME current # NoSession, Heard(current), UNCHANGED <<current, currentId>>,
              ~(worker.pc \in {"advance", "starting"} /\ worker' = IdleWorker)
       PROVE  Remembered(Deck(currentId[current], current))'
  <2>1. Deck(currentId[current], current) \in Decks /\ Deck(currentId[current], current).id # 0
    BY <1>0, <1>2, <1>13, DeckFields, DeckTypes DEF Heard, Remembered, CursorInv, NoDeck
  <2>2. PICK d \in Decks : d = Deck(currentId[current], current)
    BY <2>1
  <2>3. Remembered(d)'
    BY <1>13, <2>1, <2>2, KnownStays DEF Heard, Remembered
  <2> QED BY <1>13, <2>2, <2>3
<1>14. CASE TakeEvent \/ AdvanceLocked
  <2>1. UNCHANGED <<current, currentId, player, play, disconnects>> /\ worker.pc \in {"idle", "locking"}
    BY <1>14 DEF TakeEvent, AdvanceLocked
  <2>2. Starts(current) => operation' = operation
    <3>1. CASE TakeEvent
      BY <3>1 DEF TakeEvent
    <3>2. CASE AdvanceLocked
      <4>1. worker.event.session = current
        BY <1>2, <3>2, WorkerSession DEF AdvanceLocked
      <4> QED BY <3>2, <4>1 DEF AdvanceLocked, Starts
    <3> QED BY <1>14, <3>1, <3>2
  <2>3. current # NoSession /\ Heard(current) => Remembered(Deck(currentId[current], current))'
    BY <1>13, <2>1
  <2> QED BY <2>1, <2>2, <2>3, SoundStays DEF Starts
<1>15. CASE Advance
  <2>1. /\ UNCHANGED <<current, decks, events, disconnects>>
        /\ worker.pc = "advance" /\ play[Worker].step = "none"
        /\ worker.event.session = current /\ current \in Sessions
        /\ operation[current] = Worker
    BY <1>2, <1>15, WorkerSession DEF Advance, CursorInv, Known, WorkerHasSession, DeckInv,
       LocksHeld
  <2>2. ~Starts(current)
    BY <2>1 DEF Starts
  <2>3. CASE EndsCurrent(current)
    <3>1. PICK p \in PrepareNextTrack(player[current]) :
            /\ player' = [player EXCEPT ![current] = p]
            /\ \/ p.current = NoTrack
               \/ play' = [play EXCEPT ![Worker] = Starting(p.current)] /\ operation' = operation
      BY <1>15, <2>1, <2>3 DEF Advance
    <3>2. CASE p.current = NoTrack
      BY <1>0, <2>1, <3>1, <3>2 DEF NeverSilent
    <3>3. CASE p.current # NoTrack
      <4>1. play'[Worker].step = "check" /\ operation'[current'] = Worker
        BY <1>0, <2>1, <3>1, <3>3, DeckFields
      <4> QED BY <1>0, <4>1 DEF NeverSilent
    <3> QED BY <3>2, <3>3
  <2>4. CASE ~EndsCurrent(current)
    <3>1. UNCHANGED <<currentId, player, play>> /\ worker' = IdleWorker
      BY <1>15, <2>1, <2>4 DEF Advance, WorkerIdles
    <3>2. Heard(current) => Remembered(Deck(currentId[current], current))'
      <4> SUFFICES ASSUME Heard(current), Deck(currentId[current], current) = worker.event
                   PROVE  FALSE
        BY <2>1, <3>1 DEF Remembered, Heard
      <4>1. currentId[current] = worker.event.id /\ currentId[current] # NoDeck
        BY DeckFields DEF Heard
      <4>2. worker.expected = NoDeck
        BY <2>1, <2>4, <4>1 DEF EndsCurrent, DeckInv, EventsFit
      <4> QED BY <2>1, <4>1, <4>2 DEF DeckInv, IdleIsQuiet, Quiet
    <3> QED BY <2>1, <2>2, <3>1, <3>2, SoundStays
  <2> QED BY <2>3, <2>4
<1>16. CASE AdvanceStarted
  <2>1. worker.event.session \in Sessions /\ SessionOf(Worker) = worker.event.session
    BY <1>16, WorkerSession DEF AdvanceStarted, SessionOf
  <2> QED BY <1>0, <1>2, <1>7, <1>16, <2>1 DEF AdvanceStarted, Install
<1>17. CASE AdvanceFailed
  <2>1. worker.event.session \in Sessions /\ worker.event.session = current /\ UNCHANGED current
    BY <1>2, <1>17, WorkerSession DEF AdvanceFailed
  <2>2. DisableLoop(player[current]) \in Players
    <3>1. PICK p \in Players : p = player[current]
      BY <1>0, <2>1
    <3>2. DisableLoop(p) \in Players
      BY DEF DisableLoop, Players
    <3> QED BY <3>1, <3>2
  <2>3. player'[current'].current = NoTrack
    BY <1>0, <1>17, <2>1, <2>2 DEF AdvanceFailed, ClearCurrentOf, ClearCurrent, Players
  <2> QED BY <2>3 DEF NeverSilent
<1>18. CASE AdvanceExpired
  BY <1>2, <1>18, WorkerSession DEF AdvanceExpired, StartedKnown
<1>19. ASSUME NEW z \in Sessions, Skip(z) \/ ToggleMode(z)
       PROVE  NeverSilent'
  <2>1. UNCHANGED <<current, operation, currentId, play, worker, disconnects>>
    BY <1>19 DEF Skip, ToggleMode, UserCommand
  <2>2. decks \cup events \subseteq decks' \cup events'
    BY <1>19 DEF Skip, ToggleMode, End
  <2>3. PICK p \in {DisableLoop(player[z]), ToggleLoop(player[z])} \cup ToggleShuffle(player[z]) :
           player' = [player EXCEPT ![z] = p]
    BY <1>19 DEF Skip, ToggleMode
  <2>4. \A s \in Sessions : player'[s].current = player[s].current
    BY <1>0, <2>3, TogglesKeepCurrent
  <2>5. Heard(current) => Deck(currentId[current], current) \in decks' \cup events' \cup {worker'.event}
    BY <2>1, <2>2 DEF Heard, Remembered
  <2> QED BY <1>2, <2>1, <2>4, <2>5, SoundStays DEF Remembered, Starts
<1>20. CASE DeckEnds \/ UNCHANGED vars
  <2>1. UNCHANGED <<current, operation, currentId, play, worker, disconnects, player>>
    BY <1>20 DEF DeckEnds, vars
  <2>2. decks \cup events \subseteq decks' \cup events'
    BY <1>20 DEF DeckEnds, End, vars
  <2>3. Heard(current) => Deck(currentId[current], current) \in decks' \cup events' \cup {worker'.event}
    BY <2>1, <2>2 DEF Heard, Remembered
  <2> QED BY <2>1, <2>3, SoundStays DEF Remembered, Starts
<1>21. CASE Disconnect
  BY <1>0, <1>2, <1>21 DEF Disconnect, BeginDisconnect, ClearSession, LeaveCall, OneSession
<1> QED BY <1>3, <1>4, <1>5, <1>6, <1>8, <1>9, <1>10, <1>11, <1>12, <1>14, <1>15, <1>16, <1>17,
           <1>18, <1>19, <1>20, <1>21 DEF Next, Flush, WorkerStep

\* As long as the guild is not disconnected, a session with a current track
\* plays it, has its end to handle or is starting it, for any interleaving of
\* /play calls, ends, skips and failed starts.
THEOREM GuildNeverSilent ==
    ASSUME Cancellable = FALSE
    PROVE  Spec => []NeverSilent
<1>1. Init => SilenceInv
  <2> SUFFICES ASSUME Init PROVE SilenceInv
    OBVIOUS
  <2>1. OneSession
    BY DEF Init, OneSession, EmptyPlayer, NoSession
  <2>2. StartedKnown
    BY DeckFields DEF Init, StartedKnown, Holders
  <2> QED BY <2>1, <2>2 DEF Init, SilenceInv, NeverSilent
<1>2. CursorInv /\ DeckInv /\ SilenceInv /\ [Next]_vars => SilenceInv'
  BY TypeStep, OneSessionStep, StartedKnownStep, NeverSilentStep DEF SilenceInv
<1>3. SilenceInv => NeverSilent
  BY DEF SilenceInv
<1> QED BY <1>1, <1>2, <1>3, InitInv, StepInv, DeckInvInit, DeckInvStep, PTL DEF Spec

-----------------------------------------------------------------------------
(* Ticket order: the pipeline implements OrderedCommit.                    *)

Unplaced == {"idle", "joined", "reserving"}
Published == {"flushing", "starting", "waiting"}
Settled == Published \cup {"dropped"}

\* A line holds requests of its session that have reserved, each once.
LineFits ==
    \A s \in Sessions : \A n \in 1..Len(order[s]) :
        /\ session[order[s][n]] = s
        /\ pc[order[s][n]] \notin Unplaced
        /\ \A m \in 1..Len(order[s]) : order[s][m] = order[s][n] => m = n

\* A pending sequence is one not answered, and a ready one was published: the task
\* that resolves a track has one of these or an answer.
RepliesFit ==
    /\ \A r \in Requests : pc[r] \in Unplaced => reply[r] = "none"
    /\ \A r \in Requests : pc[r] \in {"resolving", "resolved"} =>
         Mine(r) # {} \/ reply[r] # "none"
    /\ \A s \in Sessions : \A n \in pending[s] :
         /\ reply[order[s][n]] = "none"
         /\ n \in ready[s] => pc[order[s][n]] \in Published

\* A flush starts the track of a sequence it has passed, for a task not answered yet.
StartFits(h) ==
    /\ play[h].step = "none" => play[h].track = NoTrack
    /\ play[h].step # "none" =>
         \E n \in 1..Len(order[session[h]]) :
             /\ n < nextCommit[session[h]]
             /\ play[h].track = order[session[h]][n]
             /\ reply[order[session[h]][n]] = "none"
             /\ pc[order[session[h]][n]] \in Settled

\* disconnect_guild clears a session.
ClearsSession == dpc = "clear" => dsession # NoSession

LineInv == LineFits /\ RepliesFit /\ (\A h \in Requests : StartFits(h)) /\ ClearsSession
OrderInv == CursorInv /\ LocksHeld /\ LineInv

LEMMA LineTypes ==
    ASSUME CursorInv
    PROVE  /\ pc \in [Requests -> TaskStates] /\ reply \in [Requests -> Replies]
           /\ session \in [Requests -> 0..MaxSessions]
           /\ pending \in [Sessions -> SUBSET Nat] /\ ready \in [Sessions -> SUBSET Nat]
           /\ nextCommit \in [Sessions -> Nat \ {0}]
           /\ order \in [Sessions -> Seq(Requests)]
           /\ play \in [Holders -> Plays] /\ Requests \subseteq Holders
           /\ Worker \notin Requests /\ Worker \in Holders
           /\ Sessions = 1..MaxSessions /\ MaxSessions \in Nat \ {0} /\ NoSession \notin Sessions
           /\ current \in 0..MaxSessions /\ lastSession \in 0..MaxSessions
           /\ NoTrack \notin Requests /\ Requests = Tracks
           /\ \A r \in Requests : Worker # r
  BY BoundsAssumption, WorkerAssumption, NoTrackAssumption
     DEF CursorInv, TypeOK, CoordType, TaskType, PendingType, Holders, Sessions, NoSession,
         Requests

LEMMA LinePlaces ==
    ASSUME CursorInv, NEW s \in Sessions
    PROVE  /\ Len(order[s]) \in Nat
           /\ \A n \in 1..Len(order[s]) : order[s][n] \in Requests
           /\ \A n \in pending[s] : n \in 1..Len(order[s]) /\ n >= nextCommit[s]
           /\ ready[s] \subseteq pending[s]
<1>1. order[s] \in Seq(Requests) /\ nextCommit[s] \in Nat \ {0} /\ pending[s] \in SUBSET Nat
  BY LineTypes
<1>2. Len(order[s]) \in Nat /\ \A n \in 1..Len(order[s]) : order[s][n] \in Requests
  BY <1>1, ElementOfSeq, LenProperties
<1>3. pending[s] \subseteq nextCommit[s]..Len(order[s]) /\ ready[s] \subseteq pending[s]
  BY DEF CursorInv, CommitCursor, Known, CursorInRange
<1> QED BY <1>1, <1>2, <1>3

\* What is left of a reservation is its own sequence.
LEMMA MineIs ==
    ASSUME CursorInv, LineFits, NEW s \in Sessions, NEW n \in 1..Len(order[s])
    PROVE  LET r == order[s][n]
           IN  r \in Requests /\ session[r] = s /\ Mine(r) = {n} \cap pending[s]
<1>1. order[s][n] \in Requests /\ session[order[s][n]] = s
  BY LinePlaces DEF LineFits
<1>2. \A m \in pending[s] : order[s][m] = order[s][n] => m = n
  BY LinePlaces DEF LineFits
<1> QED BY <1>1, <1>2 DEF Mine

\* A task that starts a track holds the lock of the session whose line it is in.
LEMMA Starter ==
    ASSUME OrderInv, NEW h \in Requests, play[h].step # "none"
    PROVE  /\ session[h] \in Sessions /\ operation[session[h]] = h /\ pc[h] = "starting"
           /\ play[h].track \in Requests /\ session[play[h].track] = session[h]
           /\ reply[play[h].track] = "none" /\ Mine(play[h].track) = {}
           /\ \E n \in 1..Len(order[session[h]]) :
                n < nextCommit[session[h]] /\ play[h].track = order[session[h]][n]
<1>1. h \in Holders /\ Worker # h
  BY LineTypes DEF OrderInv
<1>2. session[h] \in Sessions /\ operation[session[h]] = h
  BY <1>1, PlayingHolds DEF OrderInv, SessionOf
<1>3. PICK n \in 1..Len(order[session[h]]) :
        /\ n < nextCommit[session[h]]
        /\ play[h].track = order[session[h]][n]
        /\ reply[order[session[h]][n]] = "none"
  BY DEF OrderInv, LineInv, StartFits
<1>4. n \notin pending[session[h]]
  BY <1>2, <1>3, LinePlaces, LineTypes DEF OrderInv
<1>5. pc[h] = "starting"
  BY DEF OrderInv, CursorInv, Known, TasksHaveSession
<1>6. LET r == order[session[h]][n]
      IN  r \in Requests /\ session[r] = session[h] /\ Mine(r) = {n} \cap pending[session[h]]
  BY <1>2, MineIs DEF OrderInv, LineInv
<1> QED BY <1>2, <1>3, <1>4, <1>5, <1>6

LEMMA Started ==
    ASSUME OrderInv, NEW h \in Requests, play[h].track \in Requests
    PROVE  play[h].step # "none"
  BY LineTypes DEF OrderInv, LineInv, StartFits

\* Two tasks start two tracks, and none that is still pending.
LEMMA OneStarter ==
    ASSUME OrderInv, NEW h \in Requests, NEW g \in Requests, play[h].step # "none",
           play[g].track = play[h].track
    PROVE  g = h
<1>1. play[g].step # "none"
  BY Starter, Started
<1> QED BY <1>1, Starter

\* A line is a list of requests in a session.
LEMMA InTheLine ==
    ASSUME CursorInv, LineFits, NEW s \in Sessions, NEW r \in Requests
    PROVE  r \in ToSet(order[s]) <=> \E n \in 1..Len(order[s]) : order[s][n] = r
<1>1. DOMAIN order[s] = 1..Len(order[s])
  BY LineTypes, LenProperties
<1> QED BY <1>1 DEF ToSet

LEMMA UnplacedFate ==
    ASSUME OrderInv, NEW r \in Requests, pc[r] \in Unplaced
    PROVE  /\ Fate(r) = "none" /\ \A s \in Sessions : r \notin ToSet(order[s])
           /\ \A h \in Requests : play[h].track # r
<1>1. \A s \in Sessions : r \notin ToSet(order[s])
  BY InTheLine DEF OrderInv, LineInv, LineFits
<1>2. session[r] = NoSession \/ session[r] \in Sessions
  BY LineTypes DEF OrderInv, NoSession
<1>3. ASSUME NEW h \in Requests, play[h].track = r
      PROVE  FALSE
  <2>1. play[h].step # "none" /\ session[h] \in Sessions
    BY <1>3, Started, Starter
  <2>2. r \in ToSet(order[session[h]])
    BY <1>3, <2>1, Starter, InTheLine DEF OrderInv, LineInv
  <2> QED BY <1>1, <2>1, <2>2
<1> QED BY <1>1, <1>2, <1>3 DEF Fate

LEMMA PlacedFate ==
    ASSUME OrderInv, NEW s \in Sessions, NEW n \in 1..Len(order[s])
    PROVE  LET r == order[s][n]
           IN  Fate(r) = IF reply[r] \in {"queued", "now_playing"} THEN "accepted"
                         ELSE IF reply[r] \in Errors THEN "rejected"
                         ELSE IF \E h \in Requests : play[h].track = r THEN "starting"
                         ELSE IF n \in pending[s] THEN "open"
                         ELSE "withdrawn"
<1> DEFINE r == order[s][n]
<1>1. r \in Requests /\ session[r] = s /\ Mine(r) = {n} \cap pending[s] /\ NoSession # s
  BY MineIs, LineTypes DEF OrderInv, LineInv
<1>2. r \in ToSet(order[s])
  BY <1>1, InTheLine DEF OrderInv, LineInv
<1> HIDE DEF r
<1>3. Mine(r) # {} <=> n \in pending[s]
  BY <1>1
<1>4. Fate(r) = IF reply[r] \in {"queued", "now_playing"} THEN "accepted"
                ELSE IF reply[r] \in Errors THEN "rejected"
                ELSE IF \E h \in Requests : play[h].track = r THEN "starting"
                ELSE IF n \in pending[s] THEN "open"
                ELSE "withdrawn"
  BY <1>1, <1>2, <1>3 DEF Fate
<1> QED BY <1>4 DEF r

\* Most steps leave the line alone.
LEMMA LineKept ==
    ASSUME LineFits, UNCHANGED <<order, session>>, CursorInv,
           \A r \in Requests : pc[r] \notin Unplaced => pc'[r] \notin Unplaced
    PROVE  LineFits'
<1>1. \A s \in Sessions : \A n \in 1..Len(order[s]) : order[s][n] \in Requests
  BY LinePlaces
<1> QED BY <1>1 DEF LineFits

\* A start goes on while nobody answers its task.
LEMMA StartKept ==
    ASSUME OrderInv, NEW h \in Requests, UNCHANGED order, session'[h] = session[h],
           play'[h].track = play[h].track, play'[h].step = "none" <=> play[h].step = "none",
           nextCommit'[session[h]] >= nextCommit[session[h]], nextCommit' \in [Sessions -> Nat \ {0}],
           play[h].step # "none" => reply'[play[h].track] = "none",
           \A r \in Requests : pc[r] \in Settled => pc'[r] \in Settled
    PROVE  StartFits(h)'
<1>1. CASE play[h].step = "none"
  BY <1>1 DEF OrderInv, LineInv, StartFits
<1>2. CASE play[h].step # "none"
  <2>1. PICK n \in 1..Len(order[session[h]]) :
          /\ n < nextCommit[session[h]]
          /\ play[h].track = order[session[h]][n]
          /\ pc[order[session[h]][n]] \in Settled
    BY <1>2 DEF OrderInv, LineInv, StartFits
  <2>2. session[h] \in Sessions /\ order[session[h]][n] \in Requests
    BY <1>2, <2>1, Starter
  <2>3. n < nextCommit'[session[h]]
    <3>1. n \in Int /\ nextCommit[session[h]] \in Int /\ nextCommit'[session[h]] \in Int
      BY <2>2, LineTypes DEF OrderInv
    <3> QED BY <2>1, <3>1
  <2> QED BY <1>2, <2>1, <2>2, <2>3 DEF StartFits
<1> QED BY <1>1, <1>2

LEMMA NoStart ==
    ASSUME NEW h, play'[h] = NoPlay
    PROVE  StartFits(h)'
  BY DEF StartFits, NoPlay

\* Steps that answer nobody and leave what is pending alone.
LEMMA LineSteady ==
    ASSUME OrderInv, CursorInv', UNCHANGED <<order, session, pending, ready, reply>>,
           \A s \in Sessions : nextCommit'[s] >= nextCommit[s],
           \A r \in Requests : /\ pc[r] \notin Unplaced => pc'[r] \notin Unplaced
                               /\ pc'[r] \in Unplaced => pc[r] \in Unplaced
                               /\ pc[r] \in Settled => pc'[r] \in Settled
                               /\ pc[r] \in Published => pc'[r] \in Published
                               /\ pc'[r] \in {"resolving", "resolved"}
                                    => pc[r] \in {"resolving", "resolved"},
           \A h \in Requests : /\ play'[h].track = play[h].track
                               /\ play'[h].step = "none" <=> play[h].step = "none",
           dpc' = "clear" => dpc = "clear" /\ dsession' = dsession
    PROVE  LineInv'
<1>1. LineFits'
  BY LineKept DEF OrderInv, LineInv
<1>2. RepliesFit'
  <2>1. \A r \in Requests : Mine(r)' = Mine(r)
    BY DEF Mine
  <2>2. \A s \in Sessions : \A n \in pending[s] : order[s][n] \in Requests
    BY LinePlaces DEF OrderInv
  <2> QED BY <2>1, <2>2 DEF OrderInv, LineInv, RepliesFit
<1>3. ASSUME NEW h \in Requests
      PROVE  StartFits(h)'
  <2>1. session'[h] = session[h] /\ nextCommit' \in [Sessions -> Nat \ {0}]
    BY DEF CursorInv, TypeOK, PendingType
  <2>2. play[h].step # "none" => session[h] \in Sessions /\ reply'[play[h].track] = "none"
    BY Starter
  <2>3. CASE play[h].step # "none"
    <3>1. nextCommit'[session[h]] >= nextCommit[session[h]]
      BY <2>2, <2>3
    <3> QED BY <2>1, <2>2, <3>1, StartKept
  <2>4. CASE play[h].step = "none"
    BY <2>4 DEF OrderInv, LineInv, StartFits
  <2> QED BY <2>3, <2>4
<1>4. ClearsSession'
  BY DEF OrderInv, LineInv, ClearsSession
<1> QED BY <1>1, <1>2, <1>3, <1>4 DEF LineInv

LEMMA CursorSame ==
    ASSUME CursorInv, UNCHANGED nextCommit
    PROVE  \A s \in Sessions : nextCommit'[s] >= nextCommit[s]
  BY LineTypes

\* play_request goes on with the track it was asked to start.
LEMMA PlayKeepsTrack ==
    ASSUME OrderInv, NEW h \in Holders, Play(h)
    PROVE  \A g \in Requests : /\ play'[g].track = play[g].track
                               /\ play'[g].step = "none" <=> play[g].step = "none"
<1>1. play[h] \in Plays /\ play \in [Holders -> Plays] /\ Requests \subseteq Holders
  BY LineTypes DEF OrderInv
<1>2. ASSUME NEW step, step # "none", Step(h, step), play[h].step # "none"
      PROVE  \A g \in Requests : /\ play'[g].track = play[g].track
                                 /\ play'[g].step = "none" <=> play[g].step = "none"
  BY <1>1, <1>2 DEF Step, Plays
<1>3. CASE PlayRequest(h)
  <2>1. play[h].step # "none"
    BY <1>3 DEF PlayRequest
  <2>2. CASE \E id : play' = [play EXCEPT ![h].step = "prepare", ![h].id = id]
    BY <1>1, <2>1, <2>2 DEF Plays
  <2> QED BY <1>2, <1>3, <2>1, <2>2 DEF PlayRequest
<1>4. CASE PreparePlayback(h)
  BY <1>2, <1>4 DEF PreparePlayback
<1>5. CASE PlayTrack(h)
  BY <1>2, <1>5 DEF PlayTrack
<1>6. CASE RefreshSource(h)
  <2>1. play[h].step # "none"
    BY <1>6 DEF RefreshSource
  <2>2. CASE play' = [play EXCEPT ![h].step = "play", ![h].retried = TRUE]
    BY <1>1, <2>1, <2>2 DEF Plays
  <2> QED BY <1>2, <1>6, <2>1, <2>2 DEF RefreshSource
<1>7. CASE CheckStarted(h)
  BY <1>2, <1>7 DEF CheckStarted
<1> QED BY <1>3, <1>4, <1>5, <1>6, <1>7 DEF Play

LEMMA WorkerKeepsStarts ==
    ASSUME OrderInv, WorkerStep
    PROVE  \A g \in Requests : play'[g] = play[g]
<1>1. play \in [Holders -> Plays] /\ \A g \in Requests : g \in Holders /\ Worker # g
  BY LineTypes DEF OrderInv
<1>2. play' = play \/ \E record : play' = [play EXCEPT ![Worker] = record]
  <2>1. CASE TakeEvent \/ AdvanceLocked
    BY <2>1 DEF TakeEvent, AdvanceLocked
  <2>2. CASE Advance
    BY <2>2 DEF Advance
  <2>3. CASE AdvanceStarted \/ AdvanceFailed \/ AdvanceExpired
    BY <2>3 DEF AdvanceStarted, AdvanceFailed, AdvanceExpired, Install, StopPlaying
  <2> QED BY <2>1, <2>2, <2>3 DEF WorkerStep
<1> QED BY <1>1, <1>2

\* The steps that have nothing to do with the line.
LEMMA OtherSteps ==
    ASSUME OrderInv, CursorInv',
           \/ \E h \in Holders : Play(h)
           \/ WorkerStep
           \/ \E s \in Sessions : Skip(s) \/ ToggleMode(s)
           \/ DeckEnds \/ BeginDisconnect \/ LeaveCall \/ UNCHANGED vars
    PROVE  /\ UNCHANGED <<pendingVars, taskVars>>
           /\ \A g \in Requests : /\ play'[g].track = play[g].track
                                  /\ play'[g].step = "none" <=> play[g].step = "none"
           /\ UNCHANGED coordVars \/ BeginDisconnect
           /\ LineInv'
<1> DEFINE Same == UNCHANGED <<pendingVars, taskVars>>
           Plain == \A g \in Requests : /\ play'[g].track = play[g].track
                                        /\ play'[g].step = "none" <=> play[g].step = "none"
           Clear == dpc' = "clear" => (dpc = "clear" /\ dsession' = dsession) \/ BeginDisconnect
           Coord == UNCHANGED coordVars \/ BeginDisconnect
<1>1. ASSUME NEW h \in Holders, Play(h)
      PROVE  Same /\ Plain /\ Clear /\ Coord
  <2>1. Plain
    BY <1>1, PlayKeepsTrack
  <2> HIDE DEF Plain
  <2> QED BY <1>1, <2>1 DEF Play, PlayRequest, PreparePlayback, PlayTrack, RefreshSource,
             CheckStarted
<1>2. ASSUME WorkerStep
      PROVE  Same /\ Plain /\ Clear /\ Coord
  <2>1. Plain
    BY <1>2, WorkerKeepsStarts
  <2> HIDE DEF Plain
  <2> QED BY <1>2, <2>1 DEF WorkerStep, TakeEvent, AdvanceLocked, Advance, AdvanceStarted,
             AdvanceFailed, AdvanceExpired
<1>3. ASSUME NEW s \in Sessions, Skip(s) \/ ToggleMode(s)
      PROVE  Same /\ Plain /\ Clear /\ Coord
  BY <1>3 DEF Skip, ToggleMode, UserCommand
<1>4. ASSUME DeckEnds \/ BeginDisconnect \/ LeaveCall \/ UNCHANGED vars
      PROVE  Same /\ Plain /\ Clear /\ Coord
  BY <1>4 DEF DeckEnds, BeginDisconnect, LeaveCall, vars
<1>5. Same /\ Plain /\ Clear /\ Coord
  BY <1>1, <1>2, <1>3, <1>4
<1>6. LineInv'
  <2>1. LineFits' /\ RepliesFit' /\ \A h \in Requests : StartFits(h)'
    <3>1. \A s \in Sessions : nextCommit'[s] >= nextCommit[s]
      BY <1>5, CursorSame DEF OrderInv
    <3>2. LineFits'
      BY <1>5, LineKept DEF OrderInv, LineInv
    <3>3. RepliesFit'
      <4>1. \A r \in Requests : Mine(r)' = Mine(r)
        BY <1>5 DEF Mine
      <4> QED BY <1>5, <4>1 DEF OrderInv, LineInv, RepliesFit
    <3>4. ASSUME NEW h \in Requests
          PROVE  StartFits(h)'
      BY <1>5 DEF OrderInv, LineInv, StartFits
    <3> QED BY <3>2, <3>3, <3>4
  <2>2. ClearsSession'
    BY <1>5 DEF BeginDisconnect, OrderInv, LineInv, ClearsSession
  <2> QED BY <2>1, <2>2 DEF LineInv
<1> QED BY <1>5, <1>6

LEMMA JoinLine ==
    ASSUME OrderInv, CursorInv', NEW r \in Requests, Join(r)
    PROVE  LineInv'
<1>1. pc \in [Requests -> TaskStates]
  BY LineTypes DEF OrderInv
<1>2. \A q \in Requests : pc'[q] = pc[q] \/ (pc[q] \in Unplaced /\ pc'[q] \in Unplaced)
  BY <1>1 DEF Join, Unplaced
<1>3. UNCHANGED <<pendingVars, session, reply, play, dpc, dsession>>
  BY DEF Join
<1> QED BY <1>2, <1>3, CursorSame, LineSteady DEF OrderInv, Unplaced, Published, Settled

LEMMA ResolveLine ==
    ASSUME OrderInv, CursorInv', NEW r \in Requests, Resolve(r)
    PROVE  LineInv'
<1>1. pc \in [Requests -> TaskStates]
  BY LineTypes DEF OrderInv
<1>2. \A q \in Requests : pc'[q] = pc[q] \/ (pc[q] = "resolving" /\ pc'[q] = "resolved")
  BY <1>1 DEF Resolve
<1>3. UNCHANGED <<pendingVars, session, reply, play, dpc, dsession>>
  BY DEF Resolve
<1> QED BY <1>2, <1>3, CursorSame, LineSteady DEF OrderInv, Unplaced, Published, Settled

LEMMA WaitLine ==
    ASSUME OrderInv, CursorInv', NEW r \in Requests, WaitForEarlier(r)
    PROVE  LineInv'
<1>1. /\ pc \in [Requests -> TaskStates] /\ nextCommit \in [Sessions -> Nat \ {0}]
      /\ session[r] \in Sessions
  BY LineTypes, InSession DEF OrderInv, WaitForEarlier
<1>2. \A q \in Requests : pc'[q] = pc[q] \/ (pc[q] = "flushing" /\ pc'[q] = "waiting")
  BY <1>1 DEF WaitForEarlier
<1>3. UNCHANGED <<order, pending, ready, session, reply, play, dpc, dsession>>
  BY DEF WaitForEarlier
<1>4. \A s \in Sessions : nextCommit'[s] >= nextCommit[s]
  <2>1. NextSequence(session[r]) >= nextCommit[session[r]]
    BY <1>1, NextSequenceStops DEF OrderInv
  <2>2. nextCommit' = [nextCommit EXCEPT ![session[r]] = NextSequence(session[r])]
    BY DEF WaitForEarlier
  <2> QED BY <1>1, <2>1, <2>2
<1> QED BY <1>2, <1>3, <1>4, LineSteady DEF OrderInv, Unplaced, Published, Settled

\* A caller that has no place yet may be given a session.
LEMMA GetLine ==
    ASSUME OrderInv, CursorInv', NEW r \in Requests, GetOrCreateSession(r)
    PROVE  LineInv'
<1>1. /\ pc \in [Requests -> TaskStates] /\ session \in [Requests -> 0..MaxSessions]
      /\ pc[r] = "joined" /\ \A h \in Requests : play'[h] = play[h]
      /\ UNCHANGED <<pendingVars, reply, dpc, dsession>>
  BY LineTypes DEF OrderInv, GetOrCreateSession
<1>2. \A q \in Requests : q # r => pc'[q] = pc[q] /\ session'[q] = session[q]
  BY <1>1 DEF GetOrCreateSession
<1>3. pc'[r] = "reserving"
  BY <1>1 DEF GetOrCreateSession
<1>4. \A s \in Sessions : \A n \in 1..Len(order[s]) : order[s][n] \in Requests \ {r}
  BY <1>1, LinePlaces DEF OrderInv, LineInv, LineFits, Unplaced
<1>5. LineFits'
  BY <1>1, <1>2, <1>4 DEF OrderInv, LineInv, LineFits
<1>6. RepliesFit'
  <2>1. \A q \in Requests : q # r => Mine(q)' = Mine(q)
    BY <1>1, <1>2 DEF Mine
  <2>2. \A s \in Sessions : \A n \in pending[s] : order[s][n] \in Requests \ {r}
    BY <1>4, LinePlaces DEF OrderInv
  <2>3. \A q \in Requests : pc'[q] \in Unplaced => pc[q] \in Unplaced
    BY <1>1, <1>2 DEF Unplaced
  <2> QED BY <1>1, <1>2, <1>3, <2>1, <2>2, <2>3 DEF OrderInv, LineInv, RepliesFit
<1>7. ASSUME NEW h \in Requests
      PROVE  StartFits(h)'
  <2>1. CASE play[h].step = "none"
    BY <1>1, <2>1 DEF OrderInv, LineInv, StartFits
  <2>2. CASE play[h].step # "none"
    <3>1. h # r /\ session[h] \in Sessions
      BY <1>1, <2>2, Starter
    <3>2. session'[h] = session[h] /\ play'[h] = play[h]
      BY <1>1, <1>2, <3>1
    <3>3. PICK n \in 1..Len(order[session[h]]) :
            /\ n < nextCommit[session[h]] /\ play[h].track = order[session[h]][n]
            /\ reply[order[session[h]][n]] = "none" /\ pc[order[session[h]][n]] \in Settled
      BY <2>2 DEF OrderInv, LineInv, StartFits
    <3>4. order[session[h]][n] \in Requests \ {r}
      BY <1>4, <3>1
    <3>5. pc'[order[session[h]][n]] \in Settled
      BY <1>2, <3>3, <3>4
    <3> QED BY <1>1, <2>2, <3>2, <3>3, <3>5 DEF StartFits
  <2> QED BY <2>1, <2>2
<1>8. ClearsSession'
  BY <1>1 DEF OrderInv, LineInv, ClearsSession
<1> QED BY <1>5, <1>6, <1>7, <1>8 DEF LineInv

LEMMA Completed ==
    ASSUME NEW R, NEW result \in Replies \ {"none"}, Complete(R, result)
    PROVE  \A q \in Requests : /\ q \notin R => reply'[q] = reply[q]
                               /\ q \in R /\ reply[q] = "none" => reply'[q] = result
                               /\ reply[q] # "none" => reply'[q] = reply[q]
                               /\ q \in R => reply'[q] # "none"
  BY DEF Complete

\* A sequence stays pending until its request is answered, dropped or taken by a flush.
LEMMA RepliesKept ==
    ASSUME OrderInv, UNCHANGED <<order, session>>,
           \A q \in Requests :
               /\ pc'[q] \in Unplaced => pc[q] \in Unplaced /\ reply'[q] = reply[q]
               /\ pc'[q] \in {"resolving", "resolved"} => pc[q] \in {"resolving", "resolved"}
               /\ reply[q] # "none" => reply'[q] = reply[q],
           \A s \in Sessions :
               /\ \A n \in pending'[s] :
                     /\ n \in pending[s] /\ reply'[order[s][n]] = "none"
                     /\ n \in ready'[s] => pc'[order[s][n]] \in Published
               /\ \A n \in pending[s] : \/ n \in pending'[s]
                                        \/ reply'[order[s][n]] # "none"
                                        \/ pc'[order[s][n]] \notin {"resolving", "resolved"}
    PROVE  RepliesFit'
<1>1. ASSUME NEW q \in Requests, pc'[q] \in {"resolving", "resolved"}
      PROVE  Mine(q)' # {} \/ reply'[q] # "none"
  <2>1. Mine(q) # {} \/ reply[q] # "none"
    BY <1>1 DEF OrderInv, LineInv, RepliesFit
  <2>2. ASSUME NEW n \in Mine(q)
        PROVE  Mine(q)' # {} \/ reply'[q] # "none"
    <3>1. session[q] \in Sessions
      <4>1. pc[q] \notin {"idle", "joined"}
        BY <1>1
      <4> QED BY <4>1, InSession DEF OrderInv
    <3>2. n \in pending[session[q]] /\ order[session[q]][n] = q
      BY DEF Mine
    <3>3. n \in pending'[session[q]] \/ reply'[q] # "none"
      BY <1>1, <3>1, <3>2
    <3> QED BY <3>2, <3>3 DEF Mine
  <2> QED BY <1>1, <2>1, <2>2
<1>2. \A q \in Requests : pc'[q] \in Unplaced => reply'[q] = "none"
  BY DEF OrderInv, LineInv, RepliesFit
<1> QED BY <1>1, <1>2 DEF RepliesFit

\* A start goes on unless its own task ends it: R are the requests answered.
LEMMA StartsKept ==
    ASSUME OrderInv, CursorInv', UNCHANGED <<order, session>>,
           \A s \in Sessions : nextCommit'[s] >= nextCommit[s],
           \A q \in Requests : pc[q] \in Settled => pc'[q] \in Settled,
           NEW R, \A q \in Requests \ R : reply'[q] = reply[q],
           NEW h \in Requests,
           play'[h] = NoPlay \/ (play'[h] = play[h] /\ play[h].track \notin R)
    PROVE  StartFits(h)'
<1>1. CASE play'[h] = NoPlay
  BY <1>1, NoStart
<1>2. CASE play'[h] = play[h] /\ play[h].track \notin R
  <2>1. nextCommit' \in [Sessions -> Nat \ {0}] /\ session'[h] = session[h]
    BY DEF CursorInv, TypeOK, PendingType
  <2>2. CASE play[h].step = "none"
    BY <1>2, <2>2 DEF OrderInv, LineInv, StartFits
  <2>3. CASE play[h].step # "none"
    <3>1. session[h] \in Sessions /\ play[h].track \in Requests \ R
          /\ reply[play[h].track] = "none"
      BY <1>2, <2>3, Starter
    <3>2. nextCommit'[session[h]] >= nextCommit[session[h]]
          /\ reply'[play[h].track] = "none"
      BY <3>1
    <3> QED BY <1>2, <2>1, <3>2, StartKept
  <2> QED BY <2>2, <2>3
<1> QED BY <1>1, <1>2

\* The place of a request tells it from every other.
LEMMA OnePlace ==
    ASSUME OrderInv, NEW s \in Sessions, NEW n \in 1..Len(order[s]),
           NEW z \in Sessions, NEW m \in 1..Len(order[z]), order[s][n] = order[z][m]
    PROVE  s = z /\ n = m
<1>1. session[order[s][n]] = s /\ session[order[z][m]] = z
  BY DEF OrderInv, LineInv, LineFits
<1> QED BY <1>1 DEF OrderInv, LineInv, LineFits

\* What a task starts is not pending.
LEMMA StartTaken ==
    ASSUME OrderInv, NEW h \in Requests, NEW s \in Sessions, NEW n \in pending[s]
    PROVE  play[h].track # order[s][n]
<1>1. n \in 1..Len(order[s]) /\ order[s][n] \in Requests
  BY LinePlaces DEF OrderInv
<1>2. Mine(order[s][n]) = {n} \cap pending[s]
  BY <1>1, MineIs DEF OrderInv, LineInv
<1>3. ASSUME play[h].track = order[s][n]
      PROVE  FALSE
  <2>1. Mine(order[s][n]) = {}
    BY <1>1, <1>3, Started, Starter
  <2> QED BY <1>2, <2>1
<1> QED BY <1>3

\* A task that flushes starts nothing yet.
LEMMA FlushStartsNone ==
    ASSUME OrderInv, NEW r \in Requests, pc[r] # "starting"
    PROVE  play[r].step = "none" /\ play[r].track = NoTrack
  BY DEF OrderInv, CursorInv, Known, TasksHaveSession, LineInv, StartFits

LEMMA ReserveLine ==
    ASSUME OrderInv, CursorInv', NEW r \in Requests, Reserve(r)
    PROVE  LineInv'
<1> DEFINE s == session[r]
           last == Len(order[s]) + 1
<1>1. /\ pc \in [Requests -> TaskStates] /\ pc[r] = "reserving" /\ s \in Sessions
      /\ order \in [Sessions -> Seq(Requests)] /\ pending \in [Sessions -> SUBSET Nat]
      /\ Len(order[s]) \in Nat
  BY LineTypes, InSession, LinePlaces DEF OrderInv, Reserve
<1>2. /\ UNCHANGED <<session, play, ready, nextCommit, dpc, dsession>>
      /\ \A q \in Requests : q # r => pc'[q] = pc[q] /\ reply'[q] = reply[q]
  BY <1>1 DEF Reserve, Complete
<1>3. \A z \in Sessions : \A n \in 1..Len(order[z]) : order[z][n] \in Requests \ {r}
  BY <1>1, LinePlaces DEF OrderInv, LineInv, LineFits, Unplaced
<1>4. \A z \in Sessions : \A n \in pending[z] : n \in 1..Len(order[z])
  BY LinePlaces DEF OrderInv
<1>5. ClearsSession'
  BY <1>2 DEF OrderInv, LineInv, ClearsSession
<1>6. CASE Full(s)
  <2>1. UNCHANGED <<order, pending>> /\ pc'[r] = "waiting"
    BY <1>1, <1>6 DEF Reserve
  <2>2. \A q \in Requests : q # r => Mine(q)' = Mine(q)
    BY <1>2, <2>1 DEF Mine
  <2>3. LineFits'
    BY <1>2, <1>3, <2>1 DEF OrderInv, LineInv, LineFits
  <2>4. RepliesFit'
    BY <1>2, <1>3, <1>4, <2>1, <2>2 DEF OrderInv, LineInv, RepliesFit, Unplaced
  <2>5. ASSUME NEW h \in Requests
        PROVE  StartFits(h)'
    <3>1. \A q \in Requests : pc[q] \in Settled => pc'[q] \in Settled
      BY <1>1, <1>2, <2>1 DEF Settled, Published
    <3>2. play[h].track \notin {r}
      BY <1>1, UnplacedFate DEF Unplaced
    <3>3. \A z \in Sessions : nextCommit'[z] >= nextCommit[z]
      BY <1>2, CursorSame DEF OrderInv
    <3>4. \A q \in Requests \ {r} : reply'[q] = reply[q]
      BY <1>2
    <3> QED BY <1>2, <2>1, <3>1, <3>2, <3>3, <3>4, StartsKept
  <2> QED BY <1>5, <2>3, <2>4, <2>5 DEF LineInv
<1>7. CASE ~Full(s)
  <2> HIDE DEF s
  <2>1. /\ order' = [order EXCEPT ![s] = Append(@, r)] /\ reply' = reply
        /\ pending' = [pending EXCEPT ![s] = @ \cup {last}] /\ pc'[r] = "resolving"
    BY <1>1, <1>7 DEF Reserve, s
  <2>2. /\ Len(order'[s]) = last /\ order'[s][last] = r
        /\ \A n \in 1..Len(order[s]) : order'[s][n] = order[s][n]
    BY <1>1, <2>1
  <2> HIDE DEF last
  <2>3. \A z \in Sessions : z # s => order'[z] = order[z] /\ pending'[z] = pending[z]
    BY <1>1, <2>1
  <2>4. /\ 1..Len(order'[s]) = 1..Len(order[s]) \cup {last} /\ last \notin 1..Len(order[s])
        /\ pending'[s] = pending[s] \cup {last}
    BY <1>1, <2>1, <2>2 DEF last
  <2>5. LineFits'
    <3>1. ASSUME NEW z \in Sessions, NEW n \in 1..Len(order'[z])
          PROVE  /\ session[order'[z][n]] = z /\ pc'[order'[z][n]] \notin Unplaced
                 /\ \A m \in 1..Len(order'[z]) : order'[z][m] = order'[z][n] => m = n
      <4>1. CASE z # s
        BY <1>2, <1>3, <2>3, <4>1 DEF OrderInv, LineInv, LineFits
      <4>2. CASE z = s /\ n \in 1..Len(order[s])
        <5>1. order'[s][n] = order[s][n] /\ order[s][n] \in Requests \ {r}
          BY <1>1, <1>3, <2>2, <4>2
        <5>2. /\ session[order[s][n]] = s /\ pc[order[s][n]] \notin Unplaced
              /\ \A m \in 1..Len(order[s]) : order[s][m] = order[s][n] => m = n
          BY <1>1, <4>2 DEF OrderInv, LineInv, LineFits
        <5>3. pc'[order[s][n]] = pc[order[s][n]]
          BY <1>2, <5>1
        <5>4. ASSUME NEW m \in 1..Len(order'[s]), order'[s][m] = order'[s][n]
              PROVE  m = n
          <6>1. m \in 1..Len(order[s]) \/ m = last
            BY <2>4
          <6> QED BY <2>2, <5>1, <5>2, <5>4, <6>1
        <5> QED BY <4>2, <5>1, <5>2, <5>3, <5>4
      <4>3. CASE z = s /\ n = last
        BY <1>1, <1>3, <2>1, <2>2, <2>4, <4>3 DEF s, Unplaced
      <4> QED BY <2>4, <4>1, <4>2, <4>3
    <3> QED BY <1>2, <3>1 DEF LineFits
  <2>6. RepliesFit'
    <3>1. \A q \in Requests : pc'[q] \in Unplaced => reply'[q] = "none"
      BY <1>2, <2>1 DEF OrderInv, LineInv, RepliesFit, Unplaced
    <3>2. reply[r] = "none"
      BY <1>1 DEF OrderInv, LineInv, RepliesFit, Unplaced
    <3>3. ASSUME NEW q \in Requests, pc'[q] \in {"resolving", "resolved"}
          PROVE  Mine(q)' # {} \/ reply'[q] # "none"
      <4>1. CASE q = r
        <5>1. last \in Mine(r)'
          BY <1>2, <2>2, <2>4 DEF Mine, s
        <5> QED BY <4>1, <5>1
      <4>2. CASE q # r
        <5>1. session[q] \in Sessions
          <6>1. pc[q] \notin {"idle", "joined"}
            BY <1>2, <1>1, <3>3, <4>2
          <6> QED BY <6>1, InSession DEF OrderInv
        <5>2. \A n \in Mine(q) : n \in Mine(q)'
          BY <1>1, <1>2, <1>4, <2>2, <2>3, <2>4, <5>1 DEF Mine
        <5>3. Mine(q) # {} \/ reply[q] # "none"
          BY <1>2, <3>3, <4>2 DEF OrderInv, LineInv, RepliesFit
        <5> QED BY <2>1, <5>2, <5>3
      <4> QED BY <4>1, <4>2
    <3>4. ASSUME NEW z \in Sessions, NEW n \in pending'[z]
          PROVE  /\ reply'[order'[z][n]] = "none"
                 /\ n \in ready'[z] => pc'[order'[z][n]] \in Published
      <4>1. CASE n \in pending[z]
        <5>1. n \in 1..Len(order[z]) /\ order'[z][n] = order[z][n]
          BY <1>4, <2>2, <2>3, <4>1
        <5> QED BY <1>2, <1>3, <2>1, <4>1, <5>1 DEF OrderInv, LineInv, RepliesFit
      <4>2. CASE z = s /\ n = last
        <5>1. last \notin ready[s]
          BY <2>4, LinePlaces, <1>1 DEF OrderInv
        <5> QED BY <1>2, <2>1, <2>2, <3>2, <4>2, <5>1
      <4> QED BY <2>3, <2>4, <4>1, <4>2
    <3> QED BY <3>1, <3>3, <3>4 DEF RepliesFit
  <2>7. ASSUME NEW h \in Requests
        PROVE  StartFits(h)'
    <3>1. CASE play[h].step = "none"
      BY <1>2, <3>1 DEF OrderInv, LineInv, StartFits
    <3>2. CASE play[h].step # "none"
      <4>1. session[h] \in Sessions
        BY <3>2, Starter
      <4>2. PICK n \in 1..Len(order[session[h]]) :
              /\ n < nextCommit[session[h]] /\ play[h].track = order[session[h]][n]
              /\ reply[order[session[h]][n]] = "none" /\ pc[order[session[h]][n]] \in Settled
        BY <3>2 DEF OrderInv, LineInv, StartFits
      <4>3. n \in 1..Len(order'[session[h]]) /\ order'[session[h]][n] = order[session[h]][n]
        BY <2>2, <2>3, <2>4, <4>1
      <4>4. order[session[h]][n] \in Requests \ {r}
        BY <1>3, <4>1
      <4>5. pc'[order[session[h]][n]] \in Settled
        BY <1>2, <4>2, <4>4
      <4> QED BY <1>2, <2>1, <3>2, <4>2, <4>3, <4>5 DEF StartFits
    <3> QED BY <3>1, <3>2
  <2> QED BY <1>5, <2>5, <2>6, <2>7 DEF LineInv
<1> QED BY <1>6, <1>7

\* The steps that answer requests or take them from a line leave the lines themselves.
LEMMA AnswerLine ==
    ASSUME OrderInv, CursorInv', UNCHANGED <<order, session>>,
           \A q \in Requests : /\ pc[q] \notin Unplaced => pc'[q] \notin Unplaced
                               /\ pc[q] \in Settled => pc'[q] \in Settled,
           \A s \in Sessions : nextCommit'[s] >= nextCommit[s],
           dpc' = "clear" => dpc = "clear" /\ dsession' = dsession,
           RepliesFit',
           NEW R, \A q \in Requests \ R : reply'[q] = reply[q],
           \A h \in Requests : \/ play'[h] = NoPlay
                               \/ play'[h] = play[h] /\ play[h].track \notin R
                               \/ StartFits(h)'
    PROVE  LineInv'
<1>1. LineFits'
  BY LineKept DEF OrderInv, LineInv
<1>2. \A h \in Requests : StartFits(h)'
  BY StartsKept
<1>3. ClearsSession'
  BY DEF OrderInv, LineInv, ClearsSession
<1> QED BY <1>1, <1>2, <1>3 DEF LineInv

LEMMA FinishLine ==
    ASSUME OrderInv, CursorInv', NEW r \in Requests, FinishEnqueue(r)
    PROVE  LineInv'
<1> DEFINE s == session[r]
<1>1. /\ pc \in [Requests -> TaskStates] /\ pc[r] = "resolved" /\ s \in Sessions
      /\ pending \in [Sessions -> SUBSET Nat] /\ ready \in [Sessions -> SUBSET Nat]
  BY LineTypes, InSession DEF OrderInv, FinishEnqueue
<1>2. /\ UNCHANGED <<order, session, play, nextCommit, dpc, dsession>>
      /\ \A q \in Requests : q # r => pc'[q] = pc[q]
      /\ pc'[r] \in Published /\ \A q \in Requests \ {r} : reply'[q] = reply[q]
      /\ reply[r] # "none" => reply'[r] = reply[r]
  BY <1>1, Completed DEF FinishEnqueue, Published, Complete
<1>3. /\ \A h \in Requests : play[h].track # r \/ reply'[r] = reply[r]
      /\ \A z \in Sessions : \A n \in pending[z] :
            n \in 1..Len(order[z]) /\ order[z][n] \in Requests
  <2>1. \A z \in Sessions : \A n \in pending[z] :
            n \in 1..Len(order[z]) /\ order[z][n] \in Requests
    BY LinePlaces DEF OrderInv
  <2>2. ASSUME NEW h \in Requests, play[h].track = r
        PROVE  reply'[r] = reply[r]
    <3>1. Mine(r) = {} /\ reply[r] = "none"
      BY <2>2, Started, Starter
    <3> QED BY <1>1, <3>1 DEF OrderInv, LineInv, RepliesFit
  <2> QED BY <2>1, <2>2
<1>4. RepliesFit'
  <2>1. CASE SessionIsCurrent(s) /\ Mine(r) # {}
    <3>1. /\ ready' = [ready EXCEPT ![s] = @ \cup Mine(r)] /\ UNCHANGED <<pending, reply>>
      BY <2>1 DEF FinishEnqueue
    <3>2. \A z \in Sessions : \A n \in ready'[z] : n \in ready[z] \/ order[z][n] = r
      BY <1>1, <3>1 DEF Mine
    <3>3. \A z \in Sessions : \A n \in pending[z] :
            /\ reply[order[z][n]] = "none"
            /\ n \in ready'[z] => pc'[order[z][n]] \in Published
      BY <1>2, <1>3, <3>2 DEF OrderInv, LineInv, RepliesFit
    <3>4. \A q \in Requests : /\ pc'[q] \in Unplaced => pc[q] \in Unplaced
                              /\ pc'[q] \in {"resolving", "resolved"}
                                   => pc[q] \in {"resolving", "resolved"}
      BY <1>2 DEF Published, Unplaced
    <3> HIDE DEF s
    <3> QED BY <1>2, <3>1, <3>3, <3>4, RepliesKept
  <2>2. CASE ~(SessionIsCurrent(s) /\ Mine(r) # {})
    <3>1. /\ pending' = [pending EXCEPT ![s] = @ \ Mine(r)]
          /\ ready' = [ready EXCEPT ![s] = @ \ Mine(r)]
          /\ reply'[r] # "none"
      BY <2>2, Completed DEF FinishEnqueue, Replies, Errors
    <3>2. \A z \in Sessions : \A n \in pending'[z] :
            n \in pending[z] /\ order[z][n] # r /\ (n \in ready'[z] => n \in ready[z])
      <4>1. ASSUME NEW z \in Sessions, NEW n \in pending[z], order[z][n] = r
            PROVE  n \notin pending'[z]
        <5>1. z = s
          BY <1>3, <4>1 DEF OrderInv, LineInv, LineFits
        <5> QED BY <1>1, <3>1, <4>1, <5>1 DEF Mine
      <4> QED BY <1>1, <3>1, <4>1
    <3>3. \A z \in Sessions : \A n \in pending[z] : n \in pending'[z] \/ order[z][n] = r
      BY <1>1, <3>1 DEF Mine
    <3>4. \A q \in Requests : /\ pc'[q] \in Unplaced => pc[q] \in Unplaced /\ q # r
                              /\ pc'[q] \in {"resolving", "resolved"}
                                   => pc[q] \in {"resolving", "resolved"}
      BY <1>2 DEF Published, Unplaced
    <3>5. \A z \in Sessions : \A n \in pending'[z] :
            /\ reply'[order[z][n]] = "none"
            /\ n \in ready'[z] => pc'[order[z][n]] \in Published
      BY <1>2, <1>3, <3>2 DEF OrderInv, LineInv, RepliesFit
    <3> HIDE DEF s
    <3> QED BY <1>2, <3>1, <3>2, <3>3, <3>4, <3>5, RepliesKept
  <2> QED BY <2>1, <2>2
<1>5. \A q \in Requests : /\ pc[q] \notin Unplaced => pc'[q] \notin Unplaced
                          /\ pc[q] \in Settled => pc'[q] \in Settled
  BY <1>1, <1>2 DEF Published, Unplaced, Settled
<1>6. \A z \in Sessions : nextCommit'[z] >= nextCommit[z]
  BY <1>2, CursorSame DEF OrderInv
<1> DEFINE R == {q \in Requests : reply'[q] # reply[q]}
<1>7. \A h \in Requests : play'[h] = play[h] /\ play[h].track \notin R
  BY <1>2, <1>3
<1>8. \A q \in Requests \ R : reply'[q] = reply[q]
  OBVIOUS
<1> HIDE DEF R, s
<1> QED BY <1>2, <1>4, <1>5, <1>6, <1>7, <1>8, AnswerLine

LEMMA TakeLine ==
    ASSUME OrderInv, CursorInv', NEW r \in Requests, FailNext(r) \/ CommitNext(r)
    PROVE  LineInv'
<1> DEFINE s == session[r]
           n == NextSequence(s)
           t == order[s][n]
<1>1. /\ pc \in [Requests -> TaskStates] /\ pc[r] = "flushing" /\ s \in Sessions
      /\ pending \in [Sessions -> SUBSET Nat] /\ ready \in [Sessions -> SUBSET Nat]
      /\ nextCommit \in [Sessions -> Nat \ {0}] /\ play \in [Holders -> Plays]
      /\ Requests \subseteq Holders /\ n \in ready[s] /\ TakeNext(s, n)
  BY LineTypes, InSession DEF OrderInv, FailNext, CommitNext
<1>2. /\ n \in pending[s] /\ n \in 1..Len(order[s]) /\ t \in Requests
      /\ n >= nextCommit[s] /\ pc[t] \in Published /\ reply[t] = "none"
  BY <1>1, LinePlaces DEF OrderInv, LineInv, RepliesFit
<1>3. /\ UNCHANGED <<order, session, dpc, dsession>>
      /\ \A q \in Requests : q # r => pc'[q] = pc[q] /\ play'[q] = play[q]
      /\ \A q \in Requests \ {t} : reply'[q] = reply[q]
      /\ pc'[r] \in {"flushing", "starting"}
      /\ play'[r] = play[r] \/ (play'[r] = Starting(t) /\ reply' = reply)
  BY <1>1, Completed DEF FailNext, CommitNext, TakeNext, Complete
<1> HIDE DEF n
<1>4. \A z \in Sessions : nextCommit'[z] >= nextCommit[z]
  <2>1. nextCommit' = [nextCommit EXCEPT ![s] = n + 1]
    BY <1>1 DEF TakeNext
  <2>2. n \in Nat /\ n + 1 >= nextCommit[s]
    BY <1>1, <1>2
  <2> HIDE DEF s
  <2> QED BY <1>1, <2>1, <2>2
<1>5. RepliesFit'
  <2>1. \A z \in Sessions : \A m \in pending'[z] :
          m \in pending[z] /\ order[z][m] # t /\ (m \in ready'[z] => m \in ready[z])
    <3>1. ASSUME NEW z \in Sessions, NEW m \in pending[z], order[z][m] = t
          PROVE  z = s /\ m = n
      BY <1>1, <1>2, <3>1, OnePlace, LinePlaces DEF OrderInv
    <3> QED BY <1>1, <3>1 DEF TakeNext
  <2>2. \A z \in Sessions : \A m \in pending[z] : m \in pending'[z] \/ order[z][m] = t
    BY <1>1 DEF TakeNext
  <2>3. \A z \in Sessions : \A m \in pending[z] : order[z][m] \in Requests
    BY LinePlaces DEF OrderInv
  <2>4. \A q \in Requests : /\ pc'[q] \in Unplaced => pc[q] \in Unplaced /\ q # t
                            /\ pc'[q] \in {"resolving", "resolved"}
                                 => pc[q] \in {"resolving", "resolved"} /\ q # t
                            /\ pc[q] \in Published => pc'[q] \in Published
    BY <1>1, <1>2, <1>3 DEF Published, Unplaced
  <2>5. \A z \in Sessions : \A m \in pending'[z] :
          /\ reply'[order[z][m]] = "none"
          /\ m \in ready'[z] => pc'[order[z][m]] \in Published
    BY <1>3, <2>1, <2>3, <2>4 DEF OrderInv, LineInv, RepliesFit
  <2>6. \A q \in Requests : reply[q] # "none" => reply'[q] = reply[q]
    BY <1>2, <1>3
  <2>7. \A z \in Sessions : \A m \in pending[z] :
          m \in pending'[z] \/ pc'[order[z][m]] \notin {"resolving", "resolved"}
    BY <1>2, <2>2, <2>4
  <2>8. \A q \in Requests : pc'[q] \in Unplaced => reply'[q] = reply[q]
    BY <1>3, <2>4
  <2> HIDE DEF s, t
  <2> QED BY <1>3, <2>1, <2>4, <2>5, <2>6, <2>7, <2>8, RepliesKept
<1>6. \A q \in Requests : /\ pc[q] \notin Unplaced => pc'[q] \notin Unplaced
                          /\ pc[q] \in Settled => pc'[q] \in Settled
  BY <1>1, <1>3 DEF Published, Unplaced, Settled
<1>7. \A h \in Requests : play[h].track # t
  BY <1>1, <1>2, StartTaken
<1>8. play'[r] = play[r] \/ StartFits(r)'
  <2>1. CASE play'[r] = Starting(t) /\ reply' = reply
    <3>1. n < nextCommit'[s]
      <4>1. nextCommit'[s] = n + 1
        BY <1>1 DEF TakeNext
      <4> QED BY <1>1, <1>2, <4>1
    <3>2. pc'[t] \in Settled
      BY <1>2, <1>3 DEF Published, Settled
    <3>3. play'[r].track = t /\ play'[r].step = "check"
      BY <2>1 DEF Starting, NoPlay
    <3>4. reply'[t] = "none" /\ session'[r] = s /\ order' = order
      BY <1>2, <1>3, <2>1
    <3> QED BY <1>2, <3>1, <3>2, <3>3, <3>4 DEF StartFits
  <2> QED BY <1>3, <2>1
<1> DEFINE R == {t}
<1>9. /\ \A q \in Requests \ R : reply'[q] = reply[q]
      /\ \A h \in Requests : (play'[h] = play[h] /\ play[h].track \notin R) \/ StartFits(h)'
  BY <1>3, <1>7, <1>8
<1> HIDE DEF R, s, t
<1> QED BY <1>3, <1>4, <1>5, <1>6, <1>9, AnswerLine

\* Where a request waits, nothing but its own place is pending for it.
LEMMA OwnersFit ==
    ASSUME OrderInv, NEW s \in Sessions, NEW z \in Sessions, NEW n \in pending[z]
    PROVE  order[z][n] \in Requests /\ (order[z][n] \in Owners(s, pending[s]) => z = s)
<1>1. n \in 1..Len(order[z]) /\ order[z][n] \in Requests
  BY LinePlaces DEF OrderInv
<1>2. ASSUME NEW m \in pending[s], order[z][n] = order[s][m]
      PROVE  z = s
  <2>1. m \in 1..Len(order[s])
    BY LinePlaces DEF OrderInv
  <2> QED BY <1>1, <1>2, <2>1, OnePlace
<1> QED BY <1>1, <1>2 DEF Owners

\* What a task starts is not among the owners of what is pending.
LEMMA StartNotOwned ==
    ASSUME OrderInv, NEW s \in Sessions, NEW h \in Requests
    PROVE  play[h].track \notin Owners(s, pending[s])
  BY StartTaken DEF Owners

\* The end of a start, good or bad, answers the request whose track it was; a session
\* that is gone is drained with it.
LEMMA EndStartLine ==
    ASSUME OrderInv, CursorInv', NEW r \in Requests,
           StartedCurrent(r) \/ StartFailed(r) \/ StartExpired(r)
    PROVE  LineInv'
<1> DEFINE s == session[r]
           t == play[r].track
           R == IF StartExpired(r) THEN {t} \cup Owners(s, pending[s]) ELSE {t}
<1>1. /\ pc \in [Requests -> TaskStates] /\ pc[r] = "starting" /\ s \in Sessions
      /\ pending \in [Sessions -> SUBSET Nat] /\ ready \in [Sessions -> SUBSET Nat]
      /\ play \in [Holders -> Plays] /\ Requests \subseteq Holders /\ play[r].step # "none"
  BY LineTypes, InSession DEF OrderInv, StartedCurrent, StartFailed, StartExpired
<1>2. /\ UNCHANGED <<order, session, dpc, dsession, nextCommit>>
      /\ \A q \in Requests : q # r => pc'[q] = pc[q] /\ play'[q] = play[q]
      /\ pc'[r] \in {"flushing", "waiting"} /\ play'[r] = NoPlay
  BY <1>1 DEF StartedCurrent, StartFailed, StartExpired, StopPlaying, Install, DrainPending
<1>3. /\ \A q \in Requests \ R : reply'[q] = reply[q]
      /\ \A q \in Requests : q \in R => reply'[q] # "none"
      /\ \A q \in Requests : reply[q] # "none" => reply'[q] = reply[q]
  <2>1. \E result \in Replies \ {"none"} : Complete(R, result)
    <3>1. CASE StartExpired(r)
      BY <3>1 DEF StartExpired, Replies, Errors
    <3>2. CASE ~StartExpired(r)
      BY <3>2 DEF StartedCurrent, StartFailed, Replies, Errors
    <3> QED BY <3>1, <3>2
  <2> HIDE DEF R
  <2> QED BY <2>1, Completed
<1>4. \A h \in Requests : h # r => play[h].track \notin R
  <2>1. \A h \in Requests : h # r => play[h].track # t
    BY <1>1, OneStarter
  <2> QED BY <1>1, <2>1, StartNotOwned
<1>5. \A z \in Sessions : \A m \in pending'[z] :
        m \in pending[z] /\ order[z][m] \notin R /\ (m \in ready'[z] => m \in ready[z])
  <2>1. \A z \in Sessions : \A m \in pending[z] : order[z][m] # t
    BY StartTaken
  <2>2. CASE StartExpired(r)
    <3>1. pending' = [pending EXCEPT ![s] = {}] /\ ready' = [ready EXCEPT ![s] = {}]
      BY <2>2 DEF StartExpired, DrainPending
    <3> QED BY <1>1, <2>1, <3>1, OwnersFit
  <2>3. CASE ~StartExpired(r)
    <3>1. UNCHANGED <<pending, ready>>
      BY <2>3 DEF StartedCurrent, StartFailed
    <3> QED BY <2>1, <2>3, <3>1
  <2> QED BY <2>2, <2>3
<1>6. \A z \in Sessions : \A m \in pending[z] : m \in pending'[z] \/ order[z][m] \in R
  <2>1. CASE StartExpired(r)
    <3>1. pending' = [pending EXCEPT ![s] = {}]
      BY <2>1 DEF StartExpired, DrainPending
    <3> QED BY <1>1, <2>1, <3>1 DEF Owners
  <2>2. CASE ~StartExpired(r)
    BY <2>2 DEF StartedCurrent, StartFailed
  <2> QED BY <2>1, <2>2
<1>7. \A z \in Sessions : \A m \in pending[z] : order[z][m] \in Requests
  BY LinePlaces DEF OrderInv
<1>8. \A q \in Requests : /\ pc[q] \notin Unplaced => pc'[q] \notin Unplaced
                          /\ pc'[q] \in Unplaced => pc[q] \in Unplaced
                          /\ pc[q] \in Settled => pc'[q] \in Settled
                          /\ pc[q] \in Published => pc'[q] \in Published
                          /\ pc'[q] \in {"resolving", "resolved"}
                               => pc[q] \in {"resolving", "resolved"}
  BY <1>1, <1>2 DEF Published, Unplaced, Settled
<1>9. \A z \in Sessions : nextCommit'[z] >= nextCommit[z]
  BY <1>2, CursorSame DEF OrderInv
<1>10. \A q \in R : q \in Requests /\ pc[q] \notin Unplaced
  <2>1. t \in Requests /\ pc[t] \in Settled
    BY <1>1, Starter DEF OrderInv, LineInv, StartFits
  <2>2. ASSUME NEW m \in pending[s]
        PROVE  order[s][m] \in Requests /\ pc[order[s][m]] \notin Unplaced
    BY <1>1, LinePlaces DEF OrderInv, LineInv, LineFits
  <2> QED BY <2>1, <2>2 DEF Owners, Settled, Published, Unplaced
<1> HIDE DEF R, s, t
<1>11. RepliesFit'
  <2>1. \A z \in Sessions : \A m \in pending'[z] :
          /\ m \in pending[z] /\ reply'[order[z][m]] = "none"
          /\ m \in ready'[z] => pc'[order[z][m]] \in Published
    BY <1>3, <1>5, <1>7, <1>8 DEF OrderInv, LineInv, RepliesFit
  <2>2. \A z \in Sessions : \A m \in pending[z] :
          m \in pending'[z] \/ reply'[order[z][m]] # "none"
    BY <1>3, <1>6, <1>7
  <2>3. \A q \in Requests : pc'[q] \in Unplaced => reply'[q] = reply[q]
    BY <1>3, <1>8, <1>10
  <2> QED BY <1>2, <1>3, <1>8, <2>1, <2>2, <2>3, RepliesKept
<1>12. \A h \in Requests : play'[h] = NoPlay \/ (play'[h] = play[h] /\ play[h].track \notin R)
  BY <1>2, <1>4
<1> QED BY <1>2, <1>3, <1>8, <1>9, <1>11, <1>12, AnswerLine

LEMMA ClearLine ==
    ASSUME OrderInv, CursorInv', ClearSession
    PROVE  LineInv'
<1> DEFINE s == dsession
           R == Owners(s, pending[s])
<1>1. /\ s \in Sessions /\ dpc' = "leave"
      /\ pending \in [Sessions -> SUBSET Nat] /\ ready \in [Sessions -> SUBSET Nat]
      /\ pending' = [pending EXCEPT ![s] = {}] /\ ready' = [ready EXCEPT ![s] = {}]
      /\ UNCHANGED <<order, session, nextCommit, play, pc>>
  BY LineTypes DEF OrderInv, LineInv, ClearsSession, ClearSession, DrainPending, CursorInv,
     TypeOK, OtherType, NoSession, Sessions
<1>2. /\ \A q \in Requests \ R : reply'[q] = reply[q]
      /\ \A q \in Requests : q \in R => reply'[q] # "none"
      /\ \A q \in Requests : reply[q] # "none" => reply'[q] = reply[q]
  BY Completed DEF ClearSession, Replies, Errors
<1>3. \A z \in Sessions : \A m \in pending'[z] :
        m \in pending[z] /\ order[z][m] \notin R /\ (m \in ready'[z] => m \in ready[z])
  BY <1>1, OwnersFit
<1>4. \A z \in Sessions : \A m \in pending[z] : m \in pending'[z] \/ order[z][m] \in R
  BY <1>1 DEF Owners
<1>5. \A z \in Sessions : \A m \in pending[z] :
        order[z][m] \in Requests /\ pc[order[z][m]] \notin Unplaced
  BY LinePlaces DEF OrderInv, LineInv, LineFits
<1>6. \A z \in Sessions : nextCommit'[z] >= nextCommit[z]
  BY <1>1, CursorSame DEF OrderInv
<1>7. \A q \in R : pc[q] \notin Unplaced
  BY <1>1, <1>5 DEF Owners
<1>8. \A h \in Requests : play[h].track \notin R
  BY <1>1, StartNotOwned
<1> HIDE DEF R, s
<1>9. RepliesFit'
  <2>1. \A z \in Sessions : \A m \in pending'[z] :
          /\ m \in pending[z] /\ reply'[order[z][m]] = "none"
          /\ m \in ready'[z] => pc'[order[z][m]] \in Published
    BY <1>1, <1>2, <1>3, <1>5 DEF OrderInv, LineInv, RepliesFit
  <2>2. \A z \in Sessions : \A m \in pending[z] :
          m \in pending'[z] \/ reply'[order[z][m]] # "none"
    BY <1>2, <1>4, <1>5
  <2>3. \A q \in Requests : pc'[q] \in Unplaced => reply'[q] = reply[q]
    BY <1>1, <1>2, <1>7
  <2> QED BY <1>1, <1>2, <2>1, <2>2, <2>3, RepliesKept
<1> QED BY <1>1, <1>2, <1>6, <1>8, <1>9, AnswerLine

\* What a cancelled call leaves: its sequence is withdrawn, and a start it ran is over.
LEMMA CancelMeans ==
    ASSUME OrderInv, NEW r \in Requests, Cancel(r)
    PROVE  LET s == session[r]
               t == play[r].track
               R == IF pc[r] = "starting" THEN {t} \ {r} ELSE {}
           IN  /\ s \in Sessions /\ pc[r] \notin Unplaced /\ pc'[r] = "dropped"
               /\ UNCHANGED <<order, session, dpc, dsession, coordVars>>
               /\ \A q \in Requests : q # r => pc'[q] = pc[q] /\ play'[q] = play[q]
               /\ IF pc[r] = "starting" THEN play[r].step # "none" /\ play'[r] = NoPlay
                  ELSE play'[r] = play[r]
               /\ \A q \in Requests \ R : reply'[q] = reply[q]
               /\ \A q \in Requests : q \in R /\ reply[q] = "none"
                                        => reply'[q] = "SessionExpired"
               /\ \A q \in Requests : reply[q] # "none" => reply'[q] = reply[q]
               /\ pending' = [pending EXCEPT ![s] = @ \ Mine(r)]
               /\ ready' = [ready EXCEPT ![s] = @ \ Mine(r)]
<1> DEFINE s == session[r]
           t == play[r].track
           R == IF pc[r] = "starting" THEN {t} \ {r} ELSE {}
<1>1. pc[r] \in {"resolving", "resolved", "waiting", "starting"}
  BY DEF Cancel
<1>2. /\ s \in Sessions /\ pc \in [Requests -> TaskStates] /\ play \in [Holders -> Plays]
      /\ Requests \subseteq Holders
  BY <1>1, InSession, LineTypes DEF OrderInv
<1>3. /\ pc'[r] = "dropped" /\ \A q \in Requests : q # r => pc'[q] = pc[q]
      /\ UNCHANGED <<order, session, dpc, dsession, coordVars>>
      /\ pending' = [pending EXCEPT ![s] = @ \ Mine(r)]
      /\ ready' = [ready EXCEPT ![s] = @ \ Mine(r)]
  BY <1>2 DEF Cancel
<1>4. CASE pc[r] = "starting"
  <2>1. play' = [play EXCEPT ![r] = NoPlay] /\ Complete(R, "SessionExpired")
        /\ play[r].step # "none"
    BY <1>4 DEF Cancel, StopPlaying
  <2>2. /\ \A q \in Requests : q # r => play'[q] = play[q]
        /\ play'[r] = NoPlay
    BY <1>2, <2>1
  <2>3. /\ \A q \in Requests \ R : reply'[q] = reply[q]
        /\ \A q \in Requests : q \in R /\ reply[q] = "none" => reply'[q] = "SessionExpired"
        /\ \A q \in Requests : reply[q] # "none" => reply'[q] = reply[q]
    BY <2>1, Completed DEF Replies, Errors
  <2> QED BY <1>1, <1>2, <1>3, <1>4, <2>1, <2>2, <2>3 DEF Unplaced
<1>5. CASE pc[r] # "starting"
  <2>1. UNCHANGED <<play, reply>>
    BY <1>5 DEF Cancel
  <2> QED BY <1>1, <1>2, <1>3, <1>5, <2>1 DEF Unplaced
<1> QED BY <1>4, <1>5

LEMMA CancelLine ==
    ASSUME OrderInv, CursorInv', NEW r \in Requests, Cancel(r)
    PROVE  LineInv'
<1> DEFINE s == session[r]
           t == play[r].track
           R == IF pc[r] = "starting" THEN {t} \ {r} ELSE {}
<1>1. /\ s \in Sessions /\ pc[r] \notin Unplaced /\ pc'[r] = "dropped"
      /\ UNCHANGED <<order, session, dpc, dsession>>
      /\ \A q \in Requests : q # r => pc'[q] = pc[q] /\ play'[q] = play[q]
      /\ IF pc[r] = "starting" THEN play[r].step # "none" /\ play'[r] = NoPlay
         ELSE play'[r] = play[r]
      /\ \A q \in Requests \ R : reply'[q] = reply[q]
      /\ \A q \in Requests : reply[q] # "none" => reply'[q] = reply[q]
      /\ pending' = [pending EXCEPT ![s] = @ \ Mine(r)]
      /\ ready' = [ready EXCEPT ![s] = @ \ Mine(r)]
  BY CancelMeans
<1>2. pending \in [Sessions -> SUBSET Nat] /\ ready \in [Sessions -> SUBSET Nat]
      /\ nextCommit \in [Sessions -> Nat \ {0}]
  BY LineTypes DEF OrderInv
<1>3. \A z \in Sessions : nextCommit'[z] >= nextCommit[z]
  <2> DEFINE next == SkipCancelled(nextCommit[s], cancelled[s] \cup Mine(r))
  <2>1. Mine(r) \in SUBSET pending[s]
    BY DEF Mine
  <2>2. next >= nextCommit[s]
    BY <1>1, <2>1, SkipAhead DEF OrderInv
  <2>3. nextCommit' = nextCommit \/ nextCommit' = [nextCommit EXCEPT ![s] = next]
    BY DEF Cancel
  <2> HIDE DEF next, s
  <2> QED BY <1>1, <1>2, <2>2, <2>3
<1>4. \A z \in Sessions : \A m \in pending[z] :
        m \in 1..Len(order[z]) /\ order[z][m] \in Requests
  BY LinePlaces DEF OrderInv
<1>5. \A z \in Sessions : \A m \in pending'[z] :
        /\ m \in pending[z] /\ order[z][m] # r /\ order[z][m] \notin R
        /\ m \in ready'[z] => m \in ready[z]
  <2>1. ASSUME NEW z \in Sessions, NEW m \in pending[z], order[z][m] = r
        PROVE  m \notin pending'[z]
    <3>1. z = s
      BY <1>4, <2>1 DEF OrderInv, LineInv, LineFits
    <3> QED BY <1>1, <1>2, <2>1, <3>1 DEF Mine
  <2>2. \A z \in Sessions : \A m \in pending[z] : order[z][m] # t
    BY StartTaken
  <2> QED BY <1>1, <1>2, <2>1, <2>2
<1>6. \A z \in Sessions : \A m \in pending[z] : m \in pending'[z] \/ order[z][m] = r
  BY <1>1, <1>2 DEF Mine
<1>7. \A q \in Requests : /\ pc[q] \notin Unplaced => pc'[q] \notin Unplaced
                          /\ pc'[q] \in Unplaced => pc[q] \in Unplaced
                          /\ pc[q] \in Settled => pc'[q] \in Settled
                          /\ pc'[q] \in {"resolving", "resolved"}
                               => pc[q] \in {"resolving", "resolved"} /\ q # r
  BY <1>1 DEF Published, Unplaced, Settled
<1>8. \A q \in R : q \in Requests /\ pc[q] \notin Unplaced
  <2>1. CASE pc[r] = "starting"
    <3>1. t \in Requests /\ pc[t] \in Settled
      BY <1>1, <2>1, Starter DEF OrderInv, LineInv, StartFits
    <3> QED BY <3>1 DEF Settled, Published, Unplaced
  <2> QED BY <2>1
<1>9. \A h \in Requests : play'[h] = NoPlay \/ (play'[h] = play[h] /\ play[h].track \notin R)
  <2>1. ASSUME NEW h \in Requests, h # r, pc[r] = "starting", play[h].track = t
        PROVE  FALSE
    BY <1>1, <2>1, OneStarter
  <2> QED BY <1>1, <2>1
<1> HIDE DEF R, s, t
<1>10. RepliesFit'
  <2>1. \A z \in Sessions : \A m \in pending'[z] :
          /\ m \in pending[z] /\ reply'[order[z][m]] = "none"
          /\ m \in ready'[z] => pc'[order[z][m]] \in Published
    BY <1>1, <1>4, <1>5 DEF OrderInv, LineInv, RepliesFit
  <2>2. \A z \in Sessions : \A m \in pending[z] :
          m \in pending'[z] \/ pc'[order[z][m]] \notin {"resolving", "resolved"}
    BY <1>6, <1>7
  <2>3. \A q \in Requests : pc'[q] \in Unplaced => reply'[q] = reply[q]
    BY <1>1, <1>7, <1>8
  <2> QED BY <1>1, <1>7, <2>1, <2>2, <2>3, RepliesKept
<1> QED BY <1>1, <1>3, <1>7, <1>9, <1>10, AnswerLine

-----------------------------------------------------------------------------
LEMMA LineInit ==
    ASSUME Init
    PROVE  OrderInv
<1>1. CursorInv /\ LocksHeld
  BY InitInv, WorkerAssumption DEF Init, LocksHeld, IdleWorker
<1>2. \A s \in Sessions : Len(order[s]) = 0
  BY DEF Init
<1>3. LineFits /\ RepliesFit /\ ClearsSession
  BY <1>2 DEF Init, LineFits, RepliesFit, ClearsSession
<1>4. ASSUME NEW h \in Requests
      PROVE  StartFits(h)
  BY DEF Init, StartFits, NoPlay, Holders
<1> QED BY <1>1, <1>3, <1>4 DEF OrderInv, LineInv

LEMMA LineStep ==
    ASSUME OrderInv, [Next]_vars
    PROVE  OrderInv'
<1>1. CursorInv'
  BY StepInv DEF OrderInv
<1>2. LocksHeld'
  BY <1>1, LocksHeldStep DEF OrderInv, CursorInv
<1>3. ASSUME NEW r \in Requests,
             \/ Join(r) \/ GetOrCreateSession(r) \/ Reserve(r) \/ Resolve(r)
             \/ FinishEnqueue(r) \/ Flush(r) \/ Cancel(r)
      PROVE  LineInv'
  BY <1>1, <1>3, JoinLine, GetLine, ReserveLine, ResolveLine, FinishLine, WaitLine, TakeLine,
     EndStartLine, CancelLine DEF Flush
<1>4. ASSUME ClearSession
      PROVE  LineInv'
  BY <1>1, <1>4, ClearLine
<1>5. ASSUME \/ \E h \in Holders : Play(h)
             \/ WorkerStep
             \/ \E s \in Sessions : Skip(s) \/ ToggleMode(s)
             \/ DeckEnds \/ BeginDisconnect \/ LeaveCall \/ UNCHANGED vars
      PROVE  LineInv'
  BY <1>1, <1>5, OtherSteps
<1>6. LineInv'
  BY <1>3, <1>4, <1>5 DEF Next, Disconnect
<1> QED BY <1>1, <1>2, <1>6 DEF OrderInv

-----------------------------------------------------------------------------
(* The steps of the line, in terms of what the callers are told.           *)

Verdicts == {"queued", "now_playing"} \cup Errors
StartedBy(q) == \E h \in Requests : play[h].track = q

\* What becomes of a request is told by its place, its answer, its start and what is
\* pending of it.
LEMMA SameFate ==
    ASSUME NEW q \in Requests, UNCHANGED order, session'[q] = session[q],
           reply'[q] = reply[q], StartedBy(q)' <=> StartedBy(q), Mine(q)' = {} <=> Mine(q) = {}
    PROVE  Fate(q)' = Fate(q)
  BY DEF Fate, StartedBy

LEMMA AnsweredFate ==
    ASSUME NEW q \in Requests, UNCHANGED order, session'[q] = session[q],
           reply'[q] = reply[q], reply[q] \in Verdicts
    PROVE  Fate(q)' = Fate(q)
  BY DEF Fate, Verdicts

\* A request with a place, before and after a step that leaves the lines.
LEMMA NextFate ==
    ASSUME OrderInv, UNCHANGED <<order, session>>, NEW q \in Requests, NEW s \in Sessions,
           NEW n \in 1..Len(order[s]), order[s][n] = q
    PROVE  /\ reply'[q] \in {"queued", "now_playing"} => Fate(q)' = "accepted"
           /\ reply'[q] \in Errors => Fate(q)' = "rejected"
           /\ reply'[q] = "none" /\ StartedBy(q)' => Fate(q)' = "starting"
           /\ reply'[q] = "none" /\ ~StartedBy(q)' /\ Mine(q)' = {} => Fate(q)' = "withdrawn"
<1>1. session[q] = s /\ NoSession # s
  BY MineIs, LineTypes DEF OrderInv, LineInv
<1>2. q \in ToSet(order[s])
  BY <1>1, InTheLine DEF OrderInv, LineInv
<1>3. /\ session'[q] # NoSession /\ q \in ToSet(order'[session'[q]])
  BY <1>1, <1>2
<1>4. {"queued", "now_playing"} \cap Errors = {} /\ "none" \notin Errors
  BY DEF Errors
<1>5. Fate(q)' = IF reply'[q] \in {"queued", "now_playing"} THEN "accepted"
                 ELSE IF reply'[q] \in Errors THEN "rejected"
                 ELSE IF StartedBy(q)' THEN "starting"
                 ELSE IF Mine(q)' # {} THEN "open" ELSE "withdrawn"
  BY <1>3 DEF Fate, StartedBy
<1> QED BY <1>4, <1>5

\* Whose sequence is pending is open, and whose track is started is starting.
LEMMA UndecidedFate ==
    ASSUME OrderInv, NEW s \in Sessions, NEW n \in 1..Len(order[s])
    PROVE  LET q == order[s][n]
           IN  /\ n \in pending[s] => Fate(q) = "open" /\ ~StartedBy(q)
               /\ StartedBy(q) => Fate(q) = "starting"
               /\ n \notin pending[s] /\ ~StartedBy(q) => Fate(q) \notin {"open", "starting"}
<1> DEFINE q == order[s][n]
<1>1. Fate(q) = IF reply[q] \in {"queued", "now_playing"} THEN "accepted"
                ELSE IF reply[q] \in Errors THEN "rejected"
                ELSE IF StartedBy(q) THEN "starting"
                ELSE IF n \in pending[s] THEN "open"
                ELSE "withdrawn"
  BY PlacedFate DEF StartedBy
<1>2. q \in Requests /\ "none" \notin {"queued", "now_playing"} \cup Errors
  BY LinePlaces DEF OrderInv, Errors
<1>3. ASSUME n \in pending[s]
      PROVE  reply[q] = "none" /\ ~StartedBy(q)
  BY <1>3, StartTaken DEF OrderInv, LineInv, RepliesFit, StartedBy
<1>4. ASSUME StartedBy(q)
      PROVE  reply[q] = "none"
  BY <1>2, <1>4, Started, Starter DEF StartedBy
<1> HIDE DEF q
<1>5. /\ n \in pending[s] => Fate(q) = "open" /\ ~StartedBy(q)
      /\ StartedBy(q) => Fate(q) = "starting"
      /\ n \notin pending[s] /\ ~StartedBy(q) => Fate(q) \notin {"open", "starting"}
  BY <1>1, <1>2, <1>3, <1>4
<1> QED BY <1>5 DEF q

\* It is the turn of a request when nothing before it is pending or starting.
LEMMA TurnIs ==
    ASSUME OrderInv, NEW s \in Sessions, NEW n \in 1..Len(order[s]),
           \A m \in 1..(n - 1) : m \notin pending[s] /\ ~StartedBy(order[s][m])
    PROVE  TicketOrder!Turn(order[s][n], s)
<1>1. ASSUME NEW m \in 1..(n - 1)
      PROVE  Fate(order[s][m]) \notin {"open", "starting"} /\ order[s][m] \in Requests
  <2>1. m \in 1..Len(order[s])
    BY LinePlaces DEF OrderInv
  <2> QED BY <2>1, UndecidedFate, LinePlaces DEF OrderInv
<1> QED BY <1>1 DEF TicketOrder!Turn, TicketOrder!Undecided

\* While a task holds the lock of a session, no other starts a track of its line.
LEMMA HolderStarts ==
    ASSUME OrderInv, NEW r \in Requests, pc[r] \in {"flushing", "starting"},
           NEW n \in 1..Len(order[session[r]]), StartedBy(order[session[r]][n])
    PROVE  session[r] \in Sessions /\ pc[r] = "starting"
           /\ play[r].track = order[session[r]][n]
<1>1. session[r] \in Sessions /\ operation[session[r]] = r
  BY InSession DEF OrderInv, LocksHeld
<1>2. PICK h \in Requests : play[h].track = order[session[r]][n]
  BY DEF StartedBy
<1>3. order[session[r]][n] \in Requests /\ session[order[session[r]][n]] = session[r]
  BY <1>1, MineIs DEF OrderInv, LineInv
<1>4. play[h].step # "none"
  BY <1>2, <1>3, Started
<1>5. session[h] = session[r] /\ operation[session[h]] = h /\ pc[h] = "starting"
  BY <1>2, <1>3, <1>4, Starter
<1> QED BY <1>1, <1>2, <1>5

\* The sequences the cursor has passed or skips are not pending.
LEMMA Passed ==
    ASSUME OrderInv, NEW s \in Sessions, NEW m \in Nat,
           m < nextCommit[s] \/ m \in nextCommit[s]..(NextSequence(s) - 1)
    PROVE  m \notin pending[s]
<1>1. ASSUME m \in nextCommit[s]..(NextSequence(s) - 1)
      PROVE  m \in cancelled[s]
  BY <1>1, NextSequenceStops DEF OrderInv
<1>2. ASSUME m \in pending[s]
      PROVE  m >= nextCommit[s] /\ m \notin cancelled[s] /\ nextCommit[s] \in Nat
  BY <1>2, LinePlaces, LineTypes DEF OrderInv, CursorInv, CommitCursor
<1> QED BY <1>1, <1>2

LEMMA TurnNext ==
    ASSUME OrderInv, NEW r \in Requests, pc[r] = "flushing",
           NextSequence(session[r]) \in ready[session[r]]
    PROVE  LET s == session[r] n == NextSequence(s)
           IN  /\ s \in Sessions /\ n \in 1..Len(order[s]) /\ n \in pending[s]
               /\ TicketOrder!Turn(order[s][n], s)
<1> DEFINE s == session[r]
           n == NextSequence(s)
<1>1. /\ s \in Sessions /\ n \in 1..Len(order[s]) /\ n \in pending[s]
  BY InSession, LinePlaces DEF OrderInv
<1>2. n \in Nat /\ nextCommit[s] \in Nat
  BY <1>1, LineTypes DEF OrderInv
<1>3. ASSUME NEW m \in 1..(n - 1)
      PROVE  m \notin pending[s] /\ ~StartedBy(order[s][m])
  <2>1. m \in Nat /\ m \in 1..Len(order[s])
    BY <1>1, <1>2, LinePlaces DEF OrderInv
  <2>2. m < nextCommit[s] \/ m \in nextCommit[s]..(n - 1)
    BY <1>2, <2>1
  <2>3. m \notin pending[s]
    BY <1>1, <2>1, <2>2, Passed
  <2> QED BY <2>1, <2>3, HolderStarts
<1> QED BY <1>1, <1>3, TurnIs

LEMMA TurnStart ==
    ASSUME OrderInv, NEW r \in Requests, pc[r] = "starting"
    PROVE  LET s == session[r]
           IN  /\ s \in Sessions /\ play[r].step # "none"
               /\ \E n \in 1..Len(order[s]) :
                     play[r].track = order[s][n] /\ TicketOrder!Turn(order[s][n], s)
<1> DEFINE s == session[r]
<1>1. play[r].step # "none"
  BY DEF OrderInv, LocksHeld
<1>2. s \in Sessions
  BY <1>1, Starter
<1>3. PICK n \in 1..Len(order[s]) : n < nextCommit[s] /\ play[r].track = order[s][n]
  BY <1>1, Starter
<1>4. nextCommit[s] \in Nat
  BY <1>2, LineTypes DEF OrderInv
<1>5. ASSUME NEW m \in 1..(n - 1)
      PROVE  m \notin pending[s] /\ ~StartedBy(order[s][m])
  <2>1. m \in Nat /\ m \in 1..Len(order[s]) /\ m # n /\ m < nextCommit[s]
    BY <1>2, <1>3, <1>4, LinePlaces DEF OrderInv
  <2>2. m \notin pending[s]
    BY <1>2, <2>1, Passed
  <2>3. order[s][m] # order[s][n]
    BY <1>2, <2>1, OnePlace
  <2> QED BY <1>3, <2>1, <2>2, <2>3, HolderStarts
<1>6. TicketOrder!Turn(order[s][n], s)
  BY <1>2, <1>5, TurnIs
<1> QED BY <1>1, <1>2, <1>3, <1>6

-----------------------------------------------------------------------------
\* The fates of all other requests stay when their answers, starts and places do.
OthersKeep(R) ==
    \A q \in Requests \ R : /\ reply'[q] = reply[q]
                            /\ StartedBy(q)' <=> StartedBy(q)
                            /\ Mine(q)' = {} <=> Mine(q) = {}

LEMMA OthersFate ==
    ASSUME UNCHANGED <<order, session>>, NEW R, OthersKeep(R), NEW q \in Requests \ R
    PROVE  Fate(q)' = Fate(q)
<1>1. session'[q] = session[q] /\ reply'[q] = reply[q]
  BY DEF OthersKeep
<1>2. (StartedBy(q)' <=> StartedBy(q)) /\ (Mine(q)' = {} <=> Mine(q) = {})
  BY DEF OthersKeep
<1> QED BY <1>1, <1>2, SameFate

LEMMA StutterOrder ==
    ASSUME OrderInv, UNCHANGED order, \A q \in Requests : Fate(q)' = Fate(q),
           UNCHANGED coordVars \/ (current = NoSession /\ UNCHANGED lastSession
                                                      /\ current' = NoSession)
    PROVE  UNCHANGED TicketOrder!vars
  BY DEF TicketOrder!vars

LEMMA DecideOrder ==
    ASSUME OrderInv, UNCHANGED <<order, coordVars>>, NEW t \in Requests, NEW s \in Sessions,
           TicketOrder!Turn(t, s), Fate(t) \in {"open", "starting"},
           NEW verdict \in {"accepted", "rejected"}, Fate(t)' = verdict,
           \A q \in Requests \ {t} : Fate(q)' = Fate(q)
    PROVE  TicketOrder!Next
<1>1. TicketOrder!Decide(t, s, verdict)
  BY DEF TicketOrder!Decide, TicketOrder!Undecided
<1> QED BY <1>1 DEF TicketOrder!Next

LEMMA StartOrder ==
    ASSUME OrderInv, UNCHANGED <<order, coordVars>>, NEW t \in Requests, NEW s \in Sessions,
           TicketOrder!Turn(t, s), Fate(t) = "open", Fate(t)' = "starting",
           \A q \in Requests \ {t} : Fate(q)' = Fate(q)
    PROVE  TicketOrder!Next
<1>1. TicketOrder!StartFirst(t, s)
  BY DEF TicketOrder!StartFirst
<1> QED BY <1>1 DEF TicketOrder!Next

LEMMA WithdrawOrder ==
    ASSUME OrderInv, UNCHANGED <<order, coordVars>>, NEW r \in Requests,
           Fate(r) \in {"open", "starting"}, Fate(r)' = "withdrawn",
           NEW R \in SUBSET (Requests \ {r}),
           \A q \in R : Fate(q) = "starting" /\ Fate(q)' = "rejected",
           \A q \in Requests \ (R \cup {r}) : Fate(q)' = Fate(q)
    PROVE  TicketOrder!Next
<1>1. TicketOrder!Withdraw(r)
  <2>1. R \in SUBSET {q \in Requests \ {r} : [z \in Requests |-> Fate(z)][q] = "starting"}
    OBVIOUS
  <2>2. [q \in Requests |-> Fate(q)]'
          = [q \in Requests |-> IF q = r THEN "withdrawn"
                                ELSE IF q \in R THEN "rejected"
                                ELSE [z \in Requests |-> Fate(z)][q]]
    OBVIOUS
  <2> QED BY <2>1, <2>2 DEF TicketOrder!Withdraw, TicketOrder!Undecided
<1> QED BY <1>1 DEF TicketOrder!Next

LEMMA RefuseOrder ==
    ASSUME OrderInv, UNCHANGED <<order, coordVars>>, NEW s \in Sessions,
           s \in 1..lastSession, s # current, NEW R \in SUBSET Requests,
           \A q \in R : /\ \E n \in 1..Len(order[s]) : order[s][n] = q
                        /\ Fate(q) \in {"open", "starting"} /\ Fate(q)' = "rejected",
           \A q \in Requests \ R : Fate(q)' = Fate(q)
    PROVE  TicketOrder!Next
<1>1. TicketOrder!Refuse(s)
  <2>1. R \in SUBSET {q \in Requests : /\ TicketOrder!InLine(q, s)
                                       /\ [z \in Requests |-> Fate(z)][q]
                                            \in TicketOrder!Undecided}
    BY DEF TicketOrder!InLine, TicketOrder!Undecided
  <2>2. [q \in Requests |-> Fate(q)]'
          = [q \in Requests |-> IF q \in R THEN "rejected"
                                ELSE [z \in Requests |-> Fate(z)][q]]
    OBVIOUS
  <2> QED BY <2>1, <2>2 DEF TicketOrder!Refuse
<1> QED BY <1>1 DEF TicketOrder!Next

OrderStep == [TicketOrder!Next]_TicketOrder!vars

\* A task that is not starting anything is neither started nor ended by a start.
LEMMA StartsSame ==
    ASSUME \A h \in Requests : play'[h].track = play[h].track
    PROVE  \A q \in Requests : StartedBy(q)' <=> StartedBy(q)
  BY DEF StartedBy

LEMMA MineSame ==
    ASSUME UNCHANGED <<order, pending, session>>
    PROVE  \A q \in Requests : Mine(q)' = Mine(q)
  BY DEF Mine

\* Steps that answer nobody change no fate.
LEMMA QuietOrder ==
    ASSUME OrderInv, UNCHANGED <<order, pending, session, reply>>,
           \A h \in Requests : play'[h].track = play[h].track,
           \/ UNCHANGED coordVars
           \/ current = NoSession /\ UNCHANGED lastSession /\ current' = NoSession
    PROVE  UNCHANGED TicketOrder!vars
<1>1. \A q \in Requests : Fate(q)' = Fate(q)
  BY StartsSame, MineSame, SameFate
<1> QED BY <1>1, StutterOrder

LEMMA OtherOrder ==
    ASSUME OrderInv, CursorInv',
           \/ \E h \in Holders : Play(h)
           \/ WorkerStep
           \/ \E s \in Sessions : Skip(s) \/ ToggleMode(s)
           \/ DeckEnds \/ BeginDisconnect \/ LeaveCall \/ UNCHANGED vars
    PROVE  OrderStep
<1>1. /\ UNCHANGED <<order, pending, session, reply>>
      /\ \A h \in Requests : play'[h].track = play[h].track
      /\ UNCHANGED coordVars \/ BeginDisconnect
  BY OtherSteps
<1>2. CASE UNCHANGED coordVars
  BY <1>1, <1>2, QuietOrder DEF OrderStep
<1>3. CASE BeginDisconnect
  <2>1. current' = NoSession /\ UNCHANGED lastSession
    BY <1>3 DEF BeginDisconnect
  <2>2. CASE current = NoSession
    BY <1>1, <2>1, <2>2, QuietOrder DEF OrderStep
  <2>3. CASE current # NoSession
    <3>1. \A q \in Requests : Fate(q)' = Fate(q)
      BY <1>1, StartsSame, MineSame, SameFate
    <3>2. PICK s \in Sessions : s = current /\ s \in 1..lastSession
      BY <2>3, LineTypes DEF OrderInv, CursorInv, Known, SessionsExist, NoSession, Sessions
    <3>3. {z \in 1..lastSession' : z # current'}
            = {z \in 1..lastSession : z # current} \cup {s}
      BY <2>1, <3>2, LineTypes DEF OrderInv, Sessions
    <3>4. TicketOrder!Close(s)
      BY <1>1, <3>1, <3>3 DEF TicketOrder!Close
    <3> QED BY <3>4 DEF OrderStep, TicketOrder!Next
  <2> QED BY <2>2, <2>3
<1> QED BY <1>1, <1>2, <1>3

LEMMA QuietTaskOrder ==
    ASSUME OrderInv, NEW r \in Requests, Join(r) \/ Resolve(r) \/ WaitForEarlier(r)
    PROVE  OrderStep
<1>1. /\ UNCHANGED <<order, pending, session, reply, play, coordVars>>
  BY DEF Join, Resolve, WaitForEarlier
<1> QED BY <1>1, QuietOrder DEF OrderStep

LEMMA GetOrder ==
    ASSUME OrderInv, NEW r \in Requests, GetOrCreateSession(r)
    PROVE  OrderStep
<1>1. /\ pc[r] = "joined" /\ session \in [Requests -> 0..MaxSessions]
      /\ current \in 0..MaxSessions /\ lastSession \in 0..MaxSessions
      /\ MaxSessions \in Nat /\ UNCHANGED <<order, pending, reply, play>>
  BY LineTypes DEF OrderInv, GetOrCreateSession
<1>2. \A q \in Requests : q # r => session'[q] = session[q]
  BY <1>1 DEF GetOrCreateSession
<1>3. session'[r] \in Sessions
  BY <1>1 DEF GetOrCreateSession, NoSession, Sessions
<1>4. Fate(r) = "none" /\ \A s \in Sessions : r \notin ToSet(order[s])
  BY <1>1, UnplacedFate DEF Unplaced
<1>5. r \notin ToSet(order'[session'[r]])
  BY <1>1, <1>3, <1>4
<1>6. Fate(r)' = Fate(r)
  BY <1>4, <1>5 DEF Fate
<1>7. \A q \in Requests : q # r => Fate(q)' = Fate(q)
  <2>1. \A q \in Requests : q # r => Mine(q)' = Mine(q)
    BY <1>1, <1>2 DEF Mine
  <2>2. \A q \in Requests : StartedBy(q)' <=> StartedBy(q)
    BY <1>1, StartsSame
  <2> QED BY <1>1, <1>2, <2>1, <2>2, SameFate
<1>8. {z \in 1..lastSession' : z # current'} = {z \in 1..lastSession : z # current}
  BY <1>1 DEF GetOrCreateSession, NoSession
<1>9. UNCHANGED TicketOrder!vars
  <2>1. [q \in Requests |-> Fate(q)]' = [q \in Requests |-> Fate(q)]
    BY <1>6, <1>7
  <2> QED BY <1>1, <1>8, <2>1 DEF TicketOrder!vars
<1> QED BY <1>9 DEF OrderStep

\* A place in the line is a ticket; a caller turned away has none.
LEMMA ReserveOrder ==
    ASSUME OrderInv, NEW r \in Requests, Reserve(r)
    PROVE  OrderStep
<1>1. PICK s \in Sessions : s = session[r]
  BY InSession DEF OrderInv, Reserve
<1>2. /\ pc[r] = "reserving" /\ order \in [Sessions -> Seq(Requests)]
      /\ pending \in [Sessions -> SUBSET Nat] /\ Len(order[s]) \in Nat
      /\ UNCHANGED <<session, play, coordVars>> /\ NoSession # s
  BY <1>1, LineTypes, LinePlaces DEF OrderInv, Reserve
<1>3. /\ Fate(r) = "none" /\ \A z \in Sessions : r \notin ToSet(order[z])
      /\ ~StartedBy(r) /\ reply[r] = "none"
  BY <1>2, UnplacedFate DEF Unplaced, OrderInv, LineInv, RepliesFit, StartedBy
<1>4. \A q \in Requests : q # r => reply'[q] = reply[q]
  BY DEF Reserve, Complete
<1>5. \A q \in Requests : StartedBy(q)' <=> StartedBy(q)
  BY <1>2, StartsSame
<1>6. CASE Full(s)
  <2>1. UNCHANGED <<order, pending>>
    BY <1>1, <1>6 DEF Reserve
  <2>2. \A q \in Requests \ {r} : Fate(q)' = Fate(q)
    BY <1>2, <1>4, <1>5, <2>1, MineSame, SameFate
  <2>3. Fate(r)' = Fate(r)
    <3>1. r \notin ToSet(order'[session'[r]])
      BY <1>1, <1>2, <1>3, <2>1
    <3> QED BY <1>3, <3>1 DEF Fate
  <2> QED BY <1>2, <2>1, <2>2, <2>3, StutterOrder DEF OrderStep
<1>7. CASE ~Full(s)
  <2> DEFINE last == Len(order[s]) + 1
  <2>1. /\ order' = [order EXCEPT ![s] = Append(@, r)] /\ UNCHANGED reply
        /\ pending' = [pending EXCEPT ![s] = @ \cup {last}]
    BY <1>1, <1>7 DEF Reserve
  <2>2. /\ order'[s] = Append(order[s], r) /\ pending'[s] = pending[s] \cup {last}
        /\ \A z \in Sessions : z # s => order'[z] = order[z] /\ pending'[z] = pending[z]
    BY <1>2, <2>1
  <2>3. /\ Len(order'[s]) = last /\ order'[s][last] = r
        /\ \A n \in 1..Len(order[s]) : order'[s][n] = order[s][n]
    BY <1>2, <2>2
  <2>4. ToSet(order'[s]) = ToSet(order[s]) \cup {r}
    <3>1. DOMAIN order[s] = 1..Len(order[s]) /\ DOMAIN order'[s] = 1..last
      BY <1>2, <2>2
    <3>2. 1..last = 1..Len(order[s]) \cup {last}
      BY <1>2
    <3> HIDE DEF last
    <3> QED BY <2>3, <3>1, <3>2 DEF ToSet
  <2>5. Fate(r)' = "open"
    <3>1. r \in ToSet(order'[session'[r]]) /\ session'[r] # NoSession /\ reply'[r] = "none"
      BY <1>1, <1>2, <1>3, <2>1, <2>4
    <3>2. last \in Mine(r)'
      BY <1>1, <1>2, <2>2, <2>3 DEF Mine
    <3>3. Mine(r)' # {} /\ ~StartedBy(r)'
      BY <1>3, <1>5, <3>2
    <3> QED BY <3>1, <3>3 DEF Fate, StartedBy, Errors
  <2>6. ASSUME NEW q \in Requests \ {r}
        PROVE  Fate(q)' = Fate(q)
    <3>1. session[q] = NoSession \/ session[q] \in Sessions
      BY LineTypes DEF OrderInv, NoSession
    <3>2. CASE session[q] = NoSession
      BY <1>2, <3>2 DEF Fate
    <3>3. CASE session[q] \in Sessions
      <4>1. q \in ToSet(order'[session'[q]]) <=> q \in ToSet(order[session[q]])
        BY <1>2, <2>2, <2>4, <3>3
      <4>2. Mine(q)' = Mine(q)
        <5>1. CASE session[q] # s
          BY <1>2, <2>2, <3>3, <5>1 DEF Mine
        <5>2. CASE session[q] = s
          <6>1. \A n \in pending[s] : n \in 1..Len(order[s]) /\ n # last
            BY <1>2, LinePlaces DEF OrderInv
          <6>2. \A n \in pending[s] : order'[s][n] = order[s][n]
            BY <2>3, <6>1
          <6>3. Mine(q)' = {n \in pending[s] \cup {last} : order'[s][n] = q}
            BY <1>2, <2>2, <5>2 DEF Mine
          <6>4. Mine(q) = {n \in pending[s] : order[s][n] = q}
            BY <5>2 DEF Mine
          <6> QED BY <2>3, <6>2, <6>3, <6>4
        <5> QED BY <5>1, <5>2
      <4>3. reply'[q] = reply[q] /\ session'[q] = session[q] /\ (StartedBy(q)' <=> StartedBy(q))
        BY <1>2, <1>5, <2>1
      <4> QED BY <4>1, <4>2, <4>3 DEF Fate, StartedBy
    <3> QED BY <3>1, <3>2, <3>3
  <2>7. TicketOrder!TakeTicket(r, s)
    <3>1. [q \in Requests |-> Fate(q)]' = [[q \in Requests |-> Fate(q)] EXCEPT ![r] = "open"]
      BY <2>5, <2>6
    <3> QED BY <1>2, <1>3, <2>1, <3>1 DEF TicketOrder!TakeTicket
  <2> QED BY <2>7 DEF OrderStep, TicketOrder!Next
<1> QED BY <1>6, <1>7

\* Taking one sequence from what is pending concerns its request alone.
LEMMA OthersMine ==
    ASSUME OrderInv, UNCHANGED <<order, session>>, NEW s \in Sessions, NEW R,
           \A z \in Sessions : \A n \in 1..Len(order[z]) :
               order[z][n] \notin R => (n \in pending'[z] <=> n \in pending[z]),
           \A z \in Sessions : pending'[z] \subseteq pending[z],
           NEW q \in Requests \ R, session[q] \in Sessions
    PROVE  Mine(q)' = Mine(q)
<1>1. \A n \in pending[session[q]] : n \in 1..Len(order[session[q]])
  BY LinePlaces DEF OrderInv
<1> QED BY <1>1 DEF Mine

\* A request of no session has no fate.
LEMMA OutsideFate ==
    ASSUME OrderInv, UNCHANGED <<order, session>>, NEW q \in Requests,
           session[q] \notin Sessions
    PROVE  Fate(q)' = Fate(q)
<1>1. session[q] = NoSession
  BY LineTypes DEF OrderInv, NoSession
<1> QED BY <1>1 DEF Fate

\* The requests that are not in R keep their fate.
LEMMA RestFate ==
    ASSUME OrderInv, UNCHANGED <<order, session>>, NEW R,
           \A z \in Sessions : \A n \in 1..Len(order[z]) :
               order[z][n] \notin R => (n \in pending'[z] <=> n \in pending[z]),
           \A z \in Sessions : pending'[z] \subseteq pending[z],
           \A q \in Requests \ R : reply'[q] = reply[q] /\ (StartedBy(q)' <=> StartedBy(q))
    PROVE  \A q \in Requests \ R : Fate(q)' = Fate(q)
<1>1. ASSUME NEW q \in Requests \ R
      PROVE  Fate(q)' = Fate(q)
  <2>1. CASE session[q] \notin Sessions
    BY <2>1, OutsideFate
  <2>2. CASE session[q] \in Sessions
    <3>1. Mine(q)' = Mine(q)
      BY <2>2, OthersMine
    <3>2. session'[q] = session[q] /\ reply'[q] = reply[q] /\ (StartedBy(q)' <=> StartedBy(q))
      OBVIOUS
    <3> QED BY <3>1, <3>2, SameFate
  <2> QED BY <2>1, <2>2
<1> QED BY <1>1

\* A published outcome changes nothing yet; a request whose session is gone is refused.
LEMMA FinishOrder ==
    ASSUME OrderInv, NEW r \in Requests, FinishEnqueue(r)
    PROVE  OrderStep
<1>1. PICK s \in Sessions : s = session[r]
  BY InSession DEF OrderInv, FinishEnqueue
<1>2. /\ pending \in [Sessions -> SUBSET Nat] /\ pc[r] = "resolved"
      /\ UNCHANGED <<order, session, play, coordVars>>
  BY LineTypes DEF OrderInv, FinishEnqueue
<1>3. CASE SessionIsCurrent(s) /\ Mine(r) # {}
  <2>1. UNCHANGED <<pending, reply>>
    BY <1>1, <1>3 DEF FinishEnqueue
  <2> QED BY <1>2, <2>1, QuietOrder DEF OrderStep
<1>4. CASE ~(SessionIsCurrent(s) /\ Mine(r) # {})
  <2>1. /\ pending' = [pending EXCEPT ![s] = @ \ Mine(r)]
        /\ Complete({r}, "SessionExpired")
    BY <1>1, <1>4 DEF FinishEnqueue
  <2>2. /\ \A q \in Requests \ {r} : reply'[q] = reply[q]
        /\ reply[r] = "none" => reply'[r] = "SessionExpired"
        /\ reply[r] # "none" => reply'[r] = reply[r]
    BY <2>1, Completed DEF Replies, Errors
  <2>3. \A q \in Requests : StartedBy(q)' <=> StartedBy(q)
    BY <1>2, StartsSame
  <2>4. /\ \A z \in Sessions : pending'[z] \subseteq pending[z]
        /\ \A z \in Sessions : \A n \in 1..Len(order[z]) :
              order[z][n] \notin {r} => (n \in pending'[z] <=> n \in pending[z])
    BY <1>1, <1>2, <2>1 DEF Mine
  <2>5. \A q \in Requests \ {r} : Fate(q)' = Fate(q)
    BY <1>2, <2>2, <2>3, <2>4, RestFate
  <2>6. CASE reply[r] # "none"
    <3>1. reply[r] \in Verdicts /\ reply'[r] = reply[r] /\ session'[r] = session[r]
      BY <1>2, <2>2, <2>6, LineTypes DEF OrderInv, Replies, Verdicts
    <3>2. Fate(r)' = Fate(r)
      BY <1>2, <3>1, AnsweredFate
    <3> QED BY <1>2, <2>5, <3>2, StutterOrder DEF OrderStep
  <2>7. CASE reply[r] = "none"
    <3>1. Mine(r) # {}
      BY <1>2, <2>7 DEF OrderInv, LineInv, RepliesFit
    <3>2. PICK n \in pending[s] : order[s][n] = r
      BY <1>1, <3>1 DEF Mine
    <3>3. n \in 1..Len(order[s])
      BY LinePlaces DEF OrderInv
    <3>4. Fate(r) = "open"
      BY <3>2, <3>3, UndecidedFate
    <3>5. reply'[r] \in Errors
      BY <2>2, <2>7 DEF Errors
    <3>6. Fate(r)' = "rejected"
      BY <1>2, <3>2, <3>3, <3>5, NextFate
    <3>7. s \in 1..lastSession /\ s # current
      <4>1. s # current
        BY <1>4, <3>1 DEF SessionIsCurrent
      <4>2. s <= lastSession /\ lastSession \in Nat
        BY <1>1, LineTypes DEF OrderInv, CursorInv, Known, SessionsExist
      <4> QED BY <4>1, <4>2, LineTypes DEF OrderInv, Sessions
    <3> DEFINE R == {r}
    <3>8. /\ R \in SUBSET Requests
          /\ \A q \in R : /\ \E m \in 1..Len(order[s]) : order[s][m] = q
                          /\ Fate(q) \in {"open", "starting"} /\ Fate(q)' = "rejected"
          /\ \A q \in Requests \ R : Fate(q)' = Fate(q)
      BY <2>5, <3>2, <3>3, <3>4, <3>6
    <3> HIDE DEF R
    <3> QED BY <1>2, <3>7, <3>8, RefuseOrder DEF OrderStep
  <2> QED BY <2>6, <2>7
<1> QED BY <1>3, <1>4

\* The flush decides the sequence whose turn it is, or starts its track.
LEMMA TakeOrder ==
    ASSUME OrderInv, NEW r \in Requests, FailNext(r) \/ CommitNext(r)
    PROVE  OrderStep
<1>1. PICK s \in Sessions : s = session[r]
  BY InSession DEF OrderInv, FailNext, CommitNext
<1>2. PICK n \in 1..Len(order[s]) :
        n = NextSequence(s) /\ n \in pending[s] /\ TicketOrder!Turn(order[s][n], s)
  BY <1>1, TurnNext DEF FailNext, CommitNext
<1>3. PICK t \in Requests : t = order[s][n]
  BY LinePlaces DEF OrderInv
<1>4. /\ UNCHANGED <<order, session, coordVars>> /\ pc[r] = "flushing"
      /\ pending' = [pending EXCEPT ![s] = @ \ {n}] /\ pending \in [Sessions -> SUBSET Nat]
      /\ play \in [Holders -> Plays] /\ Requests \subseteq Holders
  BY <1>1, <1>2, LineTypes DEF OrderInv, FailNext, CommitNext, TakeNext
<1>5. Fate(t) = "open" /\ ~StartedBy(t) /\ reply[t] = "none"
  BY <1>2, <1>3, UndecidedFate DEF OrderInv, LineInv, RepliesFit
<1>6. /\ \A z \in Sessions : pending'[z] \subseteq pending[z]
      /\ \A z \in Sessions : \A m \in 1..Len(order[z]) :
            order[z][m] \notin {t} => (m \in pending'[z] <=> m \in pending[z])
  BY <1>3, <1>4
<1>7. ASSUME UNCHANGED play, NEW result \in Replies \ {"none"}, Complete({t}, result),
             NEW verdict \in {"accepted", "rejected"},
             result \in {"queued", "now_playing"} => verdict = "accepted",
             result \in Errors => verdict = "rejected"
      PROVE  OrderStep
  <2>1. /\ \A q \in Requests \ {t} : reply'[q] = reply[q]
        /\ reply'[t] = result
    BY <1>5, <1>7, Completed
  <2>2. \A q \in Requests : StartedBy(q)' <=> StartedBy(q)
    BY <1>7, StartsSame
  <2>3. \A q \in Requests \ {t} : Fate(q)' = Fate(q)
    BY <1>4, <1>6, <2>1, <2>2, RestFate
  <2>4. result \in {"queued", "now_playing"} \/ result \in Errors
    BY DEF Replies
  <2>5. Fate(t)' = verdict
    BY <1>3, <1>4, <1>7, <2>1, <2>4, NextFate
  <2>6. TicketOrder!Turn(t, s)
    BY <1>2, <1>3
  <2> QED BY <1>4, <1>5, <2>3, <2>5, <2>6, DecideOrder DEF OrderStep
<1>8. CASE FailNext(r)
  BY <1>1, <1>2, <1>3, <1>7, <1>8 DEF FailNext, Replies, Errors
<1>9. CASE CommitNext(r)
  <2>1. CASE BecomesCurrent(player[s])
    <3>1. play' = [play EXCEPT ![r] = Starting(t)] /\ UNCHANGED reply
      BY <1>1, <1>2, <1>3, <1>9, <2>1 DEF CommitNext
    <3>2. /\ play'[r].track = t /\ \A h \in Requests : h # r => play'[h] = play[h]
      BY <1>4, <3>1 DEF Starting, NoPlay
    <3>3. play[r].track = NoTrack
      BY <1>4, FlushStartsNone
    <3>4. StartedBy(t)' /\ \A q \in Requests \ {t} : StartedBy(q)' <=> StartedBy(q)
      BY <3>2, <3>3, LineTypes DEF StartedBy, OrderInv
    <3>5. \A q \in Requests \ {t} : Fate(q)' = Fate(q)
      BY <1>4, <1>6, <3>1, <3>4, RestFate
    <3>6. Fate(t)' = "starting"
      BY <1>3, <1>4, <1>5, <3>1, <3>4, NextFate
    <3>7. TicketOrder!Turn(t, s)
      BY <1>2, <1>3
    <3> QED BY <1>4, <1>5, <3>5, <3>6, <3>7, StartOrder DEF OrderStep
  <2>2. CASE ~BecomesCurrent(player[s])
    <3>1. Complete({t}, "queued") /\ UNCHANGED play
      BY <1>1, <1>2, <1>3, <1>9, <2>2 DEF CommitNext
    <3> QED BY <1>7, <3>1 DEF Replies, Errors
  <2> QED BY <2>1, <2>2
<1> QED BY <1>8, <1>9

\* When the start of t ends, nothing else is started or stops being started.
LEMMA StartEnds ==
    ASSUME OrderInv, NEW r \in Requests, play[r].step # "none", play'[r] = NoPlay,
           \A h \in Requests : h # r => play'[h] = play[h],
           NEW t \in Requests, t = play[r].track
    PROVE  /\ StartedBy(t) /\ ~StartedBy(t)'
           /\ \A q \in Requests \ {t} : StartedBy(q)' <=> StartedBy(q)
<1>1. \A h \in Requests : h # r => play[h].track # t
  BY OneStarter
<1>2. play'[r].track = NoTrack /\ \A q \in Requests : q # NoTrack
  BY LineTypes DEF NoPlay, OrderInv
<1> QED BY <1>1, <1>2 DEF StartedBy

\* A start that went well or failed while its session lives decides its request.
LEMMA EndStartOrder ==
    ASSUME OrderInv, NEW r \in Requests, StartedCurrent(r) \/ StartFailed(r)
    PROVE  OrderStep
<1>1. /\ pc[r] = "starting" /\ play \in [Holders -> Plays] /\ Requests \subseteq Holders
      /\ UNCHANGED <<order, session, pending, coordVars>>
  BY LineTypes DEF OrderInv, StartedCurrent, StartFailed
<1>2. PICK s \in Sessions : s = session[r]
  BY <1>1, TurnStart
<1>3. play[r].step # "none"
  BY <1>1, TurnStart
<1>4. PICK n \in 1..Len(order[s]) :
        play[r].track = order[s][n] /\ TicketOrder!Turn(order[s][n], s)
  BY <1>1, <1>2, TurnStart
<1>5. PICK t \in Requests : t = order[s][n]
  BY LinePlaces DEF OrderInv
<1>6. play'[r] = NoPlay /\ \A h \in Requests : h # r => play'[h] = play[h]
  BY <1>1 DEF StartedCurrent, StartFailed, Install, StopPlaying
<1>7. /\ StartedBy(t) /\ ~StartedBy(t)'
      /\ \A q \in Requests \ {t} : StartedBy(q)' <=> StartedBy(q)
  BY <1>3, <1>4, <1>5, <1>6, StartEnds
<1>8. Fate(t) = "starting" /\ reply[t] = "none"
  BY <1>3, <1>4, <1>5, <1>7, UndecidedFate, Starter
<1>9. PICK result \in {"now_playing", "Runtime"} : Complete({t}, result)
  BY <1>4, <1>5 DEF StartedCurrent, StartFailed
<1>10. /\ \A q \in Requests \ {t} : reply'[q] = reply[q]
       /\ reply'[t] = result
  BY <1>8, <1>9, Completed DEF Replies, Errors
<1>11. \A q \in Requests \ {t} : Fate(q)' = Fate(q)
  BY <1>1, <1>7, <1>10, RestFate
<1>12. PICK verdict \in {"accepted", "rejected"} : Fate(t)' = verdict
  BY <1>1, <1>5, <1>10, NextFate DEF Errors
<1>13. TicketOrder!Turn(t, s)
  BY <1>4, <1>5
<1> QED BY <1>1, <1>8, <1>11, <1>12, <1>13, DecideOrder DEF OrderStep

\* Draining a session refuses whoever still waits in its line.
LEMMA DrainOrder ==
    ASSUME OrderInv, UNCHANGED <<order, session, coordVars>>, NEW s \in Sessions,
           s \in 1..lastSession, s # current,
           pending' = [pending EXCEPT ![s] = {}],
           NEW T \in SUBSET Requests,
           \A q \in T : /\ StartedBy(q) /\ ~StartedBy(q)'
                        /\ \E n \in 1..Len(order[s]) : order[s][n] = q,
           \A q \in Requests \ T : StartedBy(q)' <=> StartedBy(q),
           Complete(T \cup Owners(s, pending[s]), "SessionExpired")
    PROVE  TicketOrder!Next
<1>1. PICK R : R = T \cup Owners(s, pending[s])
  OBVIOUS
<1>2. \A q \in R : \E n \in 1..Len(order[s]) :
        order[s][n] = q /\ (n \in pending[s] \/ q \in T)
  BY <1>1, LinePlaces DEF OrderInv, Owners
<1>3. \A n \in pending[s] : order[s][n] \in R
  BY <1>1 DEF Owners
<1>4. R \in SUBSET Requests
  BY <1>2, LinePlaces DEF OrderInv
<1>5. /\ \A q \in Requests \ R : reply'[q] = reply[q]
      /\ \A q \in R : reply[q] = "none" => reply'[q] = "SessionExpired"
  BY <1>1, <1>4, Completed DEF Replies, Errors
<1>6. /\ \A z \in Sessions : pending'[z] \subseteq pending[z]
      /\ \A z \in Sessions : \A m \in 1..Len(order[z]) :
            order[z][m] \notin R => (m \in pending'[z] <=> m \in pending[z])
  BY <1>3, LineTypes DEF OrderInv
<1>7. \A q \in Requests \ R : Fate(q)' = Fate(q)
  <2>1. \A q \in Requests \ R : StartedBy(q)' <=> StartedBy(q)
    BY <1>1
  <2> QED BY <1>5, <1>6, <2>1, RestFate
<1>8. ASSUME NEW q \in R
      PROVE  /\ \E n \in 1..Len(order[s]) : order[s][n] = q
             /\ Fate(q) \in {"open", "starting"} /\ Fate(q)' = "rejected"
  <2>1. PICK n \in 1..Len(order[s]) : order[s][n] = q /\ (n \in pending[s] \/ q \in T)
    BY <1>2
  <2>2. Fate(q) \in {"open", "starting"}
    BY <2>1, UndecidedFate
  <2>3. reply[q] = "none"
    <3>1. CASE n \in pending[s]
      BY <2>1, <3>1 DEF OrderInv, LineInv, RepliesFit
    <3>2. CASE q \in T
      <4>1. PICK h \in Requests : play[h].track = q
        BY <3>2 DEF StartedBy
      <4>2. play[h].step # "none"
        BY <1>4, <4>1, Started
      <4> QED BY <4>1, <4>2, Starter
    <3> QED BY <2>1, <3>1, <3>2
  <2>4. reply'[q] \in Errors
    BY <1>5, <2>3 DEF Errors
  <2>5. Fate(q)' = "rejected"
    BY <1>4, <2>1, <2>4, NextFate
  <2> QED BY <2>1, <2>2, <2>5
<1> QED BY <1>4, <1>7, <1>8, RefuseOrder

LEMMA ExpireOrder ==
    ASSUME OrderInv, NEW r \in Requests, StartExpired(r)
    PROVE  OrderStep
<1>1. /\ pc[r] = "starting" /\ play \in [Holders -> Plays] /\ Requests \subseteq Holders
      /\ UNCHANGED <<order, session, coordVars>> /\ play[r].step = "expired"
  BY LineTypes DEF OrderInv, StartExpired, DrainPending
<1>2. PICK s \in Sessions : s = session[r]
  BY <1>1, TurnStart
<1>3. PICK n \in 1..Len(order[s]) : play[r].track = order[s][n]
  BY <1>1, <1>2, TurnStart
<1>4. PICK t \in Requests : t = order[s][n]
  BY LinePlaces DEF OrderInv
<1>5. play'[r] = NoPlay /\ \A h \in Requests : h # r => play'[h] = play[h]
  BY <1>1 DEF StartExpired, StopPlaying
<1>6. /\ StartedBy(t) /\ ~StartedBy(t)'
      /\ \A q \in Requests \ {t} : StartedBy(q)' <=> StartedBy(q)
  BY <1>1, <1>3, <1>4, <1>5, StartEnds
<1>7. s # current /\ s \in 1..lastSession
  BY <1>1, <1>2, LineTypes DEF OrderInv, CursorInv, Known, ReplacedForGood, SessionsExist, Sessions
<1>8. /\ pending' = [pending EXCEPT ![s] = {}]
      /\ Complete({t} \cup Owners(s, pending[s]), "SessionExpired")
  BY <1>2, <1>3, <1>4 DEF StartExpired, DrainPending
<1>9. PICK T \in SUBSET Requests : T = {t}
  OBVIOUS
<1>10. /\ \A q \in T : /\ StartedBy(q) /\ ~StartedBy(q)'
                       /\ \E m \in 1..Len(order[s]) : order[s][m] = q
       /\ \A q \in Requests \ T : StartedBy(q)' <=> StartedBy(q)
  BY <1>4, <1>6, <1>9
<1> QED BY <1>1, <1>7, <1>8, <1>9, <1>10, DrainOrder DEF OrderStep

LEMMA ClearOrder ==
    ASSUME OrderInv, ClearSession
    PROVE  OrderStep
<1>1. PICK s \in Sessions : s = dsession
  BY LineTypes DEF OrderInv, LineInv, ClearsSession, ClearSession, CursorInv, TypeOK, OtherType,
     NoSession, Sessions
<1>2. /\ UNCHANGED <<order, session, play, coordVars>>
      /\ pending' = [pending EXCEPT ![s] = {}]
      /\ Complete(Owners(s, pending[s]), "SessionExpired")
  BY <1>1 DEF ClearSession, DrainPending
<1>3. s # current /\ s \in 1..lastSession
  BY <1>1, LineTypes
     DEF ClearSession, OrderInv, CursorInv, Known, ReplacedForGood, SessionsExist, Sessions
<1>4. PICK T \in SUBSET Requests : T = {}
  OBVIOUS
<1>5. \A q \in Requests \ T : StartedBy(q)' <=> StartedBy(q)
  BY <1>2, StartsSame
<1>6. Complete(T \cup Owners(s, pending[s]), "SessionExpired")
  <2>1. T \cup Owners(s, pending[s]) = Owners(s, pending[s])
    BY <1>4
  <2> QED BY <1>2, <2>1
<1> QED BY <1>2, <1>3, <1>4, <1>5, <1>6, DrainOrder DEF OrderStep

\* A dropped call withdraws its sequence; the start it ran for another is refused.
LEMMA CancelOrder ==
    ASSUME OrderInv, NEW r \in Requests, Cancel(r)
    PROVE  OrderStep
<1>1. PICK s \in Sessions : s = session[r]
  BY CancelMeans
<1>2. /\ UNCHANGED <<order, session, coordVars>>
      /\ \A h \in Requests : h # r => play'[h] = play[h]
      /\ \A q \in Requests : reply[q] # "none" => reply'[q] = reply[q]
      /\ pending' = [pending EXCEPT ![s] = @ \ Mine(r)]
      /\ pending \in [Sessions -> SUBSET Nat]
  BY <1>1, CancelMeans, LineTypes DEF OrderInv
<1>3. /\ \A z \in Sessions : pending'[z] \subseteq pending[z]
      /\ \A z \in Sessions : \A m \in 1..Len(order[z]) :
            order[z][m] # r => (m \in pending'[z] <=> m \in pending[z])
  BY <1>1, <1>2 DEF Mine
<1>4. Mine(r)' = {}
  BY <1>1, <1>2 DEF Mine
<1>5. ASSUME Mine(r) # {}
      PROVE  /\ Fate(r) = "open" /\ ~StartedBy(r) /\ reply[r] = "none"
             /\ \E n \in 1..Len(order[s]) : order[s][n] = r
  <2>1. PICK n \in pending[s] : order[s][n] = r
    BY <1>1, <1>5 DEF Mine
  <2>2. n \in 1..Len(order[s])
    BY LinePlaces DEF OrderInv
  <2> QED BY <2>1, <2>2, UndecidedFate DEF OrderInv, LineInv, RepliesFit
<1>6. ASSUME pc[r] # "starting"
      PROVE  OrderStep
  <2>1. UNCHANGED <<play, reply>>
    BY <1>6 DEF Cancel
  <2>2. \A q \in Requests : StartedBy(q)' <=> StartedBy(q)
    BY <2>1, StartsSame
  <2>3. \A q \in Requests \ {r} : Fate(q)' = Fate(q)
    BY <1>2, <1>3, <2>1, <2>2, RestFate
  <2>4. CASE Mine(r) = {}
    <3>1. Fate(r)' = Fate(r)
      <4>1. session'[r] = session[r] /\ reply'[r] = reply[r] /\ (Mine(r)' = {} <=> Mine(r) = {})
        BY <1>2, <1>4, <2>1, <2>4
      <4> QED BY <1>2, <2>2, <4>1, SameFate
    <3> QED BY <1>2, <2>3, <3>1, StutterOrder DEF OrderStep
  <2>5. CASE Mine(r) # {}
    <3>1. PICK n \in 1..Len(order[s]) : order[s][n] = r
      BY <1>5, <2>5
    <3>2. Fate(r) = "open" /\ ~StartedBy(r)' /\ reply'[r] = "none"
      BY <1>5, <2>1, <2>2, <2>5
    <3>3. Fate(r)' = "withdrawn"
      BY <1>2, <1>4, <3>1, <3>2, NextFate
    <3>4. PICK R \in SUBSET (Requests \ {r}) : R = {}
      OBVIOUS
    <3>5. \A q \in Requests \ (R \cup {r}) : Fate(q)' = Fate(q)
      BY <2>3
    <3> QED BY <1>2, <3>2, <3>3, <3>4, <3>5, WithdrawOrder DEF OrderStep
  <2> QED BY <2>4, <2>5
<1>7. ASSUME pc[r] = "starting"
      PROVE  OrderStep
  <2>1. play[r].step # "none" /\ play'[r] = NoPlay
    BY <1>7, CancelMeans
  <2>2. PICK n \in 1..Len(order[s]) :
          play[r].track = order[s][n] /\ TicketOrder!Turn(order[s][n], s)
    BY <1>1, <1>7, TurnStart
  <2>3. PICK t \in Requests : t = order[s][n]
    BY LinePlaces DEF OrderInv
  <2>4. /\ StartedBy(t) /\ ~StartedBy(t)'
        /\ \A q \in Requests \ {t} : StartedBy(q)' <=> StartedBy(q)
    BY <1>2, <2>1, <2>2, <2>3, StartEnds
  <2>5. Fate(t) = "starting" /\ reply[t] = "none"
    BY <2>1, <2>2, <2>3, <2>4, UndecidedFate, Starter
  <2>6. /\ \A q \in Requests \ ({t} \ {r}) : reply'[q] = reply[q]
        /\ t # r => reply'[t] = "SessionExpired"
    BY <1>7, <2>2, <2>3, <2>5, CancelMeans
  <2>7. PICK R \in SUBSET Requests : R = {r, t}
    OBVIOUS
  <2>8. \A q \in Requests \ R : Fate(q)' = Fate(q)
    <3>1. \A q \in Requests \ R : reply'[q] = reply[q] /\ (StartedBy(q)' <=> StartedBy(q))
      BY <2>4, <2>6, <2>7
    <3>2. \A z \in Sessions : \A m \in 1..Len(order[z]) :
            order[z][m] \notin R => (m \in pending'[z] <=> m \in pending[z])
      BY <1>3, <2>7
    <3> QED BY <1>2, <1>3, <3>1, <3>2, RestFate
  <2>9. CASE t = r
    <3>1. reply'[r] = "none" /\ ~StartedBy(r)'
      BY <2>4, <2>5, <2>6, <2>9
    <3>2. Fate(r)' = "withdrawn"
      BY <1>2, <1>4, <2>3, <2>9, <3>1, NextFate
    <3>3. PICK A \in SUBSET (Requests \ {r}) : A = {}
      OBVIOUS
    <3>4. \A q \in Requests \ (A \cup {r}) : Fate(q)' = Fate(q)
      BY <2>7, <2>8, <2>9, <3>3
    <3> QED BY <1>2, <2>5, <2>9, <3>2, <3>3, <3>4, WithdrawOrder DEF OrderStep
  <2>10. CASE t # r
    <3>1. Fate(t)' = "rejected"
      BY <1>2, <2>3, <2>6, <2>10, NextFate DEF Errors
    <3>2. reply'[r] = reply[r] /\ (StartedBy(r)' <=> StartedBy(r))
      BY <2>4, <2>6, <2>10
    <3>3. CASE Mine(r) = {}
      <4>1. Fate(r)' = Fate(r)
        <5>1. session'[r] = session[r] /\ (Mine(r)' = {} <=> Mine(r) = {})
          BY <1>2, <1>4, <3>3
        <5> QED BY <1>2, <3>2, <5>1, SameFate
      <4>2. \A q \in Requests \ {t} : Fate(q)' = Fate(q)
        BY <2>7, <2>8, <4>1
      <4>3. TicketOrder!Turn(t, s)
        BY <2>2, <2>3
      <4>4. PICK verdict \in {"accepted", "rejected"} : verdict = "rejected"
        OBVIOUS
      <4> QED BY <1>2, <2>5, <3>1, <4>2, <4>3, <4>4, DecideOrder DEF OrderStep
    <3>4. CASE Mine(r) # {}
      <4>1. PICK m \in 1..Len(order[s]) : order[s][m] = r
        BY <1>5, <3>4
      <4>2. Fate(r) = "open" /\ ~StartedBy(r)' /\ reply'[r] = "none"
        BY <1>5, <3>2, <3>4
      <4>3. Fate(r)' = "withdrawn"
        BY <1>2, <1>4, <4>1, <4>2, NextFate
      <4>4. PICK A \in SUBSET (Requests \ {r}) : A = {t}
        BY <2>10
      <4>5. \A q \in Requests \ (A \cup {r}) : Fate(q)' = Fate(q)
        BY <2>7, <2>8, <4>4
      <4>6. \A q \in A : Fate(q) = "starting" /\ Fate(q)' = "rejected"
        BY <2>5, <3>1, <4>4
      <4> QED BY <1>2, <4>2, <4>3, <4>5, <4>6, WithdrawOrder DEF OrderStep
    <3> QED BY <3>3, <3>4
  <2> QED BY <2>9, <2>10
<1> QED BY <1>6, <1>7

LEMMA OrderSteps ==
    ASSUME OrderInv, [Next]_vars
    PROVE  OrderStep
<1>1. CursorInv'
  BY StepInv DEF OrderInv
<1>2. ASSUME NEW r \in Requests,
             \/ Join(r) \/ GetOrCreateSession(r) \/ Reserve(r) \/ Resolve(r)
             \/ FinishEnqueue(r) \/ Flush(r) \/ Cancel(r)
      PROVE  OrderStep
  BY <1>2, QuietTaskOrder, GetOrder, ReserveOrder, FinishOrder, TakeOrder, EndStartOrder,
     ExpireOrder, CancelOrder DEF Flush
<1>3. ASSUME \/ \E h \in Holders : Play(h)
             \/ WorkerStep
             \/ \E s \in Sessions : Skip(s) \/ ToggleMode(s)
             \/ DeckEnds \/ BeginDisconnect \/ LeaveCall \/ UNCHANGED vars
      PROVE  OrderStep
  BY <1>1, <1>3, OtherOrder
<1> QED BY <1>2, <1>3, ClearOrder DEF Next, Disconnect

\* Requests are committed in the order they reserved their sequence, whatever order
\* their tracks are resolved in and whoever cancels or is disconnected meanwhile: the
\* pipeline of reservations, locks and flushes implements the line of tickets.
THEOREM PipelineKeepsTicketOrder == Spec => CommitsInTicketOrder
<1>1. Init => TicketOrder!Init
  <2> SUFFICES ASSUME Init PROVE TicketOrder!Init
    OBVIOUS
  <2>1. \A q \in Requests : Fate(q) = "none"
    BY DEF Init, Fate
  <2>2. {s \in 1..lastSession : s # current} = {}
    BY DEF Init
  <2>3. order = [s \in Sessions |-> <<>>]
    BY DEF Init
  <2> QED BY <2>1, <2>2, <2>3 DEF TicketOrder!Init
<1>2. Init => OrderInv
  BY LineInit
<1>3. OrderInv /\ [Next]_vars => OrderInv'
  BY LineStep
<1>4. OrderInv /\ [Next]_vars => [TicketOrder!Next]_TicketOrder!vars
  BY OrderSteps DEF OrderStep
<1> QED BY <1>1, <1>2, <1>3, <1>4, PTL DEF Spec, CommitsInTicketOrder, TicketOrder!Spec
=============================================================================
