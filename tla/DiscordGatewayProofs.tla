------------------------ MODULE DiscordGatewayProofs ------------------------
(***************************************************************************)
(* The voice index's counts and peers, the records of where the bot is and *)
(* the reconnect file, for any number of peers, channels, commands and     *)
(* restarts.                                                               *)
(***************************************************************************)
EXTENDS DiscordGateway, FiniteSetTheorems, SequenceTheorems, TLAPS

Maps == [Users -> Places]

LEMMA InFinite ==
  ASSUME NEW peers, NEW c
  PROVE  IsFiniteSet(In(peers, c)) /\ Cardinality(In(peers, c)) \in Nat
<1>1. In(peers, c) \in SUBSET Users  BY DEF In
<1>2. IsFiniteSet(In(peers, c))  BY <1>1, VoiceAssumption, FS_Subset
<1> QED  BY <1>2, FS_CardinalityType

\* A peer who leaves c, joins it, or does neither.
LEMMA InAfterMove ==
  ASSUME NEW peers \in Maps, NEW u \in Users, NEW n \in Places, NEW c \in Channels
  PROVE  Cardinality(In([peers EXCEPT ![u] = n], c)) =
            Cardinality(In(peers, c)) + (IF n = c THEN 1 ELSE 0)
                                      - (IF peers[u] = c THEN 1 ELSE 0)
<1> DEFINE after == [peers EXCEPT ![u] = n]
           others == In(peers, c) \ {u}
<1>1. IsFiniteSet(In(peers, c)) /\ Cardinality(In(peers, c)) \in Nat  BY InFinite
<1>2. u \in In(peers, c) <=> peers[u] = c  BY DEF In
<1>3. IsFiniteSet(others) /\ Cardinality(others) =
        IF peers[u] = c THEN Cardinality(In(peers, c)) - 1 ELSE Cardinality(In(peers, c))
  BY <1>1, <1>2, FS_RemoveElement
<1>4. Cardinality(others \cup {u}) = Cardinality(others) + 1
  BY <1>3, FS_AddElement
<1>5. CASE n = c
  <2>1. In(after, c) = others \cup {u}  BY <1>5 DEF In, Maps
  <2>2. Cardinality(In(after, c)) = Cardinality(others) + 1  BY <2>1, <1>4
  <2> HIDE DEF after, others
  <2> QED  BY <2>2, <1>1, <1>3, <1>5 DEF after
<1>6. CASE n # c
  <2>1. In(after, c) = others  BY <1>6 DEF In, Maps
  <2>2. Cardinality(In(after, c)) = Cardinality(others)  BY <2>1
  <2> HIDE DEF after, others
  <2> QED  BY <2>2, <1>1, <1>3, <1>6 DEF after
<1> QED  BY <1>5, <1>6

LEMMA EmptyIndexSound == EmptyIndex \in Indexes /\ CountsAgree(EmptyIndex)
<1>1. NoChannel \in Places /\ NoChannel \notin Channels  BY VoiceAssumption DEF Places
<1>2. EmptyIndex \in Indexes  BY <1>1 DEF EmptyIndex, Indexes
<1>3. ASSUME NEW c \in Channels PROVE EmptyIndex.counts[c] = Cardinality(In(EmptyIndex.peers, c))
  <2>1. In(EmptyIndex.peers, c) = {}  BY <1>1 DEF In, EmptyIndex
  <2>2. Cardinality({}) = 0  BY FS_EmptySet
  <2> QED  BY <2>1, <2>2 DEF EmptyIndex
<1> QED  BY <1>2, <1>3 DEF CountsAgree

LEMMA BootstrapSound ==
  ASSUME NEW c \in Places, NEW snapshot \in Maps
  PROVE  Bootstrap(c, snapshot) \in Indexes /\ CountsAgree(Bootstrap(c, snapshot))
<1>1. \A d \in Channels : Cardinality(In(snapshot, d)) \in Nat  BY InFinite
<1> QED  BY <1>1 DEF Bootstrap, Indexes, CountsAgree, Maps

LEMMA UpdateBotSound ==
  ASSUME NEW index \in Indexes, CountsAgree(index), NEW c \in Places
  PROVE  UpdateBotChannel(index, c) \in Indexes /\ CountsAgree(UpdateBotChannel(index, c))
  BY DEF UpdateBotChannel, Indexes, CountsAgree

LEMMA SetPeerSound ==
  ASSUME NEW index \in Indexes, CountsAgree(index), NEW u \in Users, NEW n \in Places
  PROVE  /\ SetPeerChannel(index, u, n) \in Indexes
         /\ CountsAgree(SetPeerChannel(index, u, n))
<1> DEFINE old == index.peers[u]
           left == Decrement(index.counts, old)
           after == SetPeerChannel(index, u, n)
<1>1. index.peers \in Maps /\ old \in Places /\ index.counts \in [Channels -> Nat]
  BY DEF Indexes, Maps
<1>2. left \in [Channels -> Nat]
  BY <1>1, VoiceAssumption DEF Decrement, Places
<1>3. ASSUME NEW c \in Channels
      PROVE  left[c] = index.counts[c] - (IF old = c THEN 1 ELSE 0)
  <2>1. index.counts[c] = Cardinality(In(index.peers, c))  BY DEF CountsAgree
  <2>2. CASE old = c
    <3>1. u \in In(index.peers, c)  BY <2>2 DEF In
    <3>2. Cardinality(In(index.peers, c)) # 0
      BY <3>1, InFinite, FS_EmptySet
    <3>3. index.counts[c] \in Nat /\ index.counts[c] # 0  BY <2>1, <3>2, <1>1
    <3>4. old # NoChannel  BY <2>2, VoiceAssumption
    <3>5. left = [index.counts EXCEPT ![c] = IF @ > 1 THEN @ - 1 ELSE 0]
      BY <3>4, <2>2 DEF Decrement
    <3>6. left[c] = IF index.counts[c] > 1 THEN index.counts[c] - 1 ELSE 0
      BY <3>5, <1>1
    <3> QED  BY <3>3, <3>6, <2>2
  <2>3. CASE old # c
    <3>1. left[c] = index.counts[c]  BY <2>3, <1>1 DEF Decrement
    <3> QED  BY <3>1, <2>3, <1>1
  <2> QED  BY <2>2, <2>3
<1>4. /\ after.bot = index.bot /\ after.bootstrapped = index.bootstrapped
      /\ after.peers = [index.peers EXCEPT ![u] = n]
      /\ after.counts = IF n = NoChannel THEN left ELSE [left EXCEPT ![n] = @ + 1]
  BY DEF SetPeerChannel, Indexes
<1>5. after.counts \in [Channels -> Nat] /\ after \in Indexes
  <2>1. after.counts \in [Channels -> Nat]  BY <1>4, <1>2, VoiceAssumption DEF Places
  <2> QED  BY <2>1, <1>1 DEF SetPeerChannel, Indexes, Maps
<1>6. ASSUME NEW c \in Channels
      PROVE  after.counts[c] = Cardinality(In(after.peers, c))
  <2>1. after.counts[c] = left[c] + (IF n = c THEN 1 ELSE 0)
    BY <1>4, <1>2, VoiceAssumption DEF Places
  <2>2. index.counts[c] = Cardinality(In(index.peers, c))  BY DEF CountsAgree
  <2>3. Cardinality(In(index.peers, c)) \in Nat  BY InFinite
  <2>4. Cardinality(In(after.peers, c)) =
            Cardinality(In(index.peers, c)) + (IF n = c THEN 1 ELSE 0)
                                            - (IF old = c THEN 1 ELSE 0)
    BY <1>1, <1>4, InAfterMove
  <2> HIDE DEF after, left, old
  <2> QED  BY <2>1, <2>2, <2>3, <2>4, <1>3
<1> QED  BY <1>5, <1>6 DEF CountsAgree

LEMMA ApplyPeerSound ==
  ASSUME NEW index \in Indexes, CountsAgree(index), NEW u \in Users, NEW old \in Places,
         NEW n \in Places
  PROVE  ApplyPeer(index, u, old, n) \in Indexes /\ CountsAgree(ApplyPeer(index, u, old, n))
  BY SetPeerSound DEF ApplyPeer

-----------------------------------------------------------------------------
(* Types, in parts that few actions touch at once.                          *)

DiscordTypes == where \in [Users -> Places] /\ bot \in Places /\ wire \in Seq(Places)
ProcessTypes ==
    /\ phase \in {"down", "booting", "serving", "collecting", "saving", "saved"}
    /\ cached \in BOOLEAN /\ saved \in Files /\ file \in Files
    /\ quit \in BOOLEAN /\ kept \in BOOLEAN /\ orderly \in BOOLEAN /\ budget \in Budgets
InboxType == inbox \in Seq(Handlers)
CallTypes ==
    /\ call \in {"absent", "idle"} \cup Channels /\ joins \in Nat /\ lost \in Nat
    /\ stranded \in BOOLEAN /\ active \in Places /\ clears \in Nat /\ leaves \in Nat
SessionType == session \in Sessions /\ (~session.live => session = NoSession)
TaskType == task \in [Tasks -> TaskStates]

LEMMA TypeParts ==
  TypeOK <=> DiscordTypes /\ ProcessTypes /\ InboxType /\ CallTypes /\ SessionType /\ TaskType
  BY DEF TypeOK, DiscordTypes, ProcessTypes, InboxType, CallTypes, SessionType, TaskType

LEMMA TypePartsNext ==
  TypeOK' <=> DiscordTypes' /\ ProcessTypes' /\ InboxType' /\ CallTypes' /\ SessionType'
              /\ TaskType'
  BY DEF TypeOK, DiscordTypes, ProcessTypes, InboxType, CallTypes, SessionType, TaskType

LEMMA RemoveAtType ==
  ASSUME NEW S, NEW s \in Seq(S), NEW i \in DOMAIN s
  PROVE  RemoveAt(s, i) \in Seq(S)
<1>1. i \in 1..Len(s) /\ Len(s) \in Nat  OBVIOUS
<1>2. SubSeq(s, 1, i-1) \in Seq(S)  BY <1>1, SubSeqProperties
<1>3. SubSeq(s, i+1, Len(s)) \in Seq(S)  BY <1>1, SubSeqProperties
<1> QED  BY <1>2, <1>3, ConcatProperties DEF RemoveAt

LEMMA EmptySeqs == << >> \in Seq(Places) /\ << >> \in Seq(Handlers)
  OBVIOUS

LEMMA ConstantsTyped ==
  /\ NoChannel \in Places /\ Channels \subseteq Places
  /\ NoFile \in Files /\ Idle \in TaskStates /\ Restorer \in Tasks /\ Plays \subseteq Tasks
<1>1. NoChannel \in Places /\ Channels \subseteq Places  BY DEF Places
<1>2. EmptyIndex.peers \in [Users -> Places]  BY <1>1 DEF EmptyIndex
<1> QED  BY <1>1, <1>2 DEF NoFile, Files, Idle, TaskStates, Tasks

\* Sessions whose index is sound.
Sound(s) == s \in Sessions /\ CountsAgree(s.index) /\ (~s.live => s = NoSession)

LEMMA NoSessionSound == Sound(NoSession)
  BY EmptyIndexSound DEF NoSession, Sessions, Sound

LEMMA OpenedSound == ASSUME NEW s, Sound(s) PROVE Sound(Opened(s)) /\ Opened(s).live
<1> DEFINE new == [NoSession EXCEPT !.live = TRUE]
<1>1. Sound(new) /\ new.live  BY EmptyIndexSound DEF NoSession, Sessions, Sound
<1> HIDE DEF new
<1> QED  BY <1>1 DEF Opened, new

LEMMA IndexChangedSound ==
  ASSUME NEW s, Sound(s), s.live, NEW i \in Indexes, CountsAgree(i)
  PROVE  Sound([s EXCEPT !.index = i])
  BY DEF Sound, Sessions

LEMMA BootstrappedSound ==
  ASSUME NEW s, Sound(s), s.live, NEW i \in Indexes, CountsAgree(i), NEW b \in BOOLEAN
  PROVE  Sound([s EXCEPT !.index = i, !.informed = b])
  BY DEF Sound, Sessions

LEMMA TrackChangedSound ==
  ASSUME NEW s, Sound(s), s.live, NEW b \in BOOLEAN PROVE Sound([s EXCEPT !.track = b])
  BY DEF Sound, Sessions

TaskHasChannel == \A t \in Tasks : task[t].pc # "idle" => task[t].channel \in Channels

\* A command that waits is told when its session goes.
WaitersLive == \A t \in Tasks : task[t].pc = "waiting" /\ ~task[t].expired => session.live

Typed == TypeOK /\ CountsFollow /\ TaskHasChannel /\ WaitersLive

LEMMA TypedSound == Typed => Sound(session)
  BY DEF Typed, TypeOK, CountsFollow, Sound

LEMMA EventTyped ==
  ASSUME TypeOK, NEW i \in DOMAIN inbox
  PROVE  /\ inbox[i].who \in Users \cup {Bot}
         /\ inbox[i].old \in Places /\ inbox[i].new \in Places
<1>1. inbox[i] \in Handlers
  <2>1. inbox \in Seq(Handlers)  BY DEF TypeOK
  <2> QED  BY <2>1
<1> QED  BY <1>1 DEF Handlers

\* Whatever pays for it, a call is left, or it cannot be.
LEMMA RemoveCallKinds ==
  (\E left : RemoveCall(left)) => LeaveCall \/ LeaveRefused
  BY DEF RemoveCall

\* Each action on the parts it disturbs.
LEMMA HandlersTyped ==
  ASSUME Typed, [Next]_vars
  PROVE  InboxType' /\ DiscordTypes'
<1> USE ConstantsTyped
<1>0. TypeOK  BY DEF Typed
<1>1. ASSUME NEW u \in Users, NEW c \in Places, UserMoves(u, c)
      PROVE  InboxType' /\ DiscordTypes'
  <2>1. [who |-> u, old |-> where[u], new |-> c] \in Handlers  BY <1>0 DEF TypeOK, Handlers
  <2> QED  BY <2>1, <1>0, <1>1 DEF UserMoves, TypeOK, InboxType, DiscordTypes
<1>2. ASSUME NEW c \in Places, BotIsIn(c)
      PROVE  InboxType' /\ where' = where /\ bot' \in Places
  <2>1. [who |-> Bot, old |-> bot, new |-> c] \in Handlers  BY <1>0 DEF TypeOK, Handlers
  <2> QED  BY <2>1, <1>0, <1>2 DEF BotIsIn, TypeOK, InboxType
<1>3. CASE DiscordAnswers
  <2>1. Head(wire) \in Places /\ Tail(wire) \in Seq(Places)
    BY <1>0, <1>3, HeadTailProperties DEF TypeOK, DiscordAnswers
  <2> QED  BY <2>1, <1>0, <1>2, <1>3 DEF TypeOK, DiscordAnswers, DiscordTypes
<1>4. ASSUME NEW c \in Places, ModeratorMoves(c) PROVE InboxType' /\ DiscordTypes'
  BY <1>0, <1>2, <1>4 DEF TypeOK, ModeratorMoves, DiscordTypes
<1>5. ASSUME NEW i \in 1..MaxInbox, HandleOwn(i) \/ HandlePeer(i)
      PROVE  InboxType' /\ DiscordTypes'
  <2>1. RemoveAt(inbox, i) \in Seq(Handlers)
    BY <1>0, <1>5, RemoveAtType DEF TypeOK, HandleOwn, HandlePeer
  <2> QED  BY <2>1, <1>0, <1>5
        DEF TypeOK, HandleOwn, HandlePeer, discord, InboxType, DiscordTypes
<1>6. ASSUME LeaveCall \/ LeaveRefused PROVE wire' \in Seq(Places)
  BY <1>0, <1>6 DEF TypeOK, LeaveCall, LeaveRefused, Request
<1>7. CASE ResetLeaves \/ JoinFails
  <2>1. LeaveCall \/ LeaveRefused  BY <1>7, RemoveCallKinds DEF ResetLeaves, JoinFails
  <2> QED  BY <1>0, <1>6, <1>7, <2>1 DEF TypeOK, ResetLeaves, JoinFails, InboxType, DiscordTypes
<1>8. ASSUME NEW t \in Tasks, Join(t) PROVE InboxType' /\ DiscordTypes'
  BY <1>0, <1>8 DEF TypeOK, Join, Request, TaskStates, InboxType, DiscordTypes
<1>9. CASE Exit \/ Crash
  BY <1>0, <1>9, EmptySeqs DEF TypeOK, Exit, Crash, Ends, InboxType, DiscordTypes
<1>10. ASSUME UNCHANGED <<discord, inbox>> PROVE InboxType' /\ DiscordTypes'
  BY <1>0, <1>10 DEF TypeOK, InboxType, DiscordTypes, discord
<1> QED
  BY <1>1, <1>3, <1>4, <1>5, <1>7, <1>8, <1>9, <1>10
  DEF Next, vars, discord, GuildCreate, ResetClears, PlayBegins, EnsureJoined, JoinRefused,
      JoinSettles, Snapshot, BootstrapVoiceState, Enqueue, EnqueueSucceeds, EnqueueFails,
      TrackEnds, Boot, Ready, TakeFails, Signal, RestartSnapshot, Save, SaveFails

LEMMA BeginResetTyped ==
  ASSUME TypeOK, BeginReset
  PROVE  active' \in Places /\ clears' \in Nat /\ quit' \in BOOLEAN
  BY ConstantsTyped DEF TypeOK, BeginReset

LEMMA CallsTyped ==
  ASSUME Typed, [Next]_vars
  PROVE  CallTypes'
<1> USE ConstantsTyped
<1>0. TypeOK  BY DEF Typed
<1>1. ASSUME UNCHANGED <<voice, active, resets>> PROVE CallTypes'
  BY <1>0, <1>1 DEF TypeOK, CallTypes, voice, resets
<1>2. ASSUME NEW c \in Places, BotIsIn(c) PROVE CallTypes'
  BY <1>0, <1>2 DEF TypeOK, BotIsIn, DropJoins, CallTypes, resets, Places
<1>3. CASE DiscordAnswers
  <2>1. Head(wire) \in Places  BY <1>0, <1>3, HeadTailProperties DEF TypeOK, DiscordAnswers
  <2> QED  BY <2>1, <1>2, <1>3 DEF DiscordAnswers
<1>4. ASSUME NEW i \in 1..MaxInbox, HandleOwn(i) PROVE CallTypes'
  <2>1. inbox[i].new \in Places  BY <1>4, EventTyped DEF Typed, HandleOwn
  <2> QED  BY <2>1, <1>0, <1>4, BeginResetTyped DEF HandleOwn, TypeOK, CallTypes, voice
<1>5. ASSUME NEW i \in 1..MaxInbox, HandlePeer(i) PROVE CallTypes'
  BY <1>0, <1>5, BeginResetTyped DEF HandlePeer, TypeOK, CallTypes, voice
<1>6. CASE ResetClears  BY <1>0, <1>6 DEF TypeOK, ResetClears, CallTypes, voice
<1>14. ASSUME LeaveCall \/ LeaveRefused
       PROVE  call' \in {"absent", "idle"} \cup Channels /\ stranded' \in BOOLEAN
  BY <1>14 DEF LeaveCall, LeaveRefused
<1>7. CASE ResetLeaves
  <2>1. LeaveCall \/ LeaveRefused  BY <1>7, RemoveCallKinds DEF ResetLeaves
  <2> QED  BY <1>0, <1>7, <1>14, <2>1 DEF TypeOK, ResetLeaves, DropJoins, CallTypes
<1>8. CASE JoinSettles  BY <1>0, <1>8 DEF TypeOK, JoinSettles, CallTypes, resets
<1>9. CASE JoinFails
  <2>1. LeaveCall \/ LeaveRefused  BY <1>9, RemoveCallKinds DEF JoinFails
  <2>2. lost + joins - 1 \in Nat  BY <1>0, <1>9 DEF TypeOK, JoinFails
  <2> QED  BY <1>0, <1>9, <1>14, <2>1, <2>2 DEF TypeOK, JoinFails, CallTypes, resets
<1>10. ASSUME NEW t \in Tasks, Join(t) \/ JoinRefused(t) PROVE CallTypes'
  <2>1. CASE JoinRefused(t)
    BY <1>0, <2>1 DEF TypeOK, JoinRefused, CallTypes, resets
  <2>2. CASE Join(t)
    <3>1. call' \in Channels  BY <2>2 DEF Typed, TaskHasChannel, Join
    <3>2. stranded' \in BOOLEAN  BY <2>2 DEF Join
    <3> QED  BY <3>1, <3>2, <1>0, <2>2 DEF TypeOK, Join, CallTypes, resets
  <2> QED  BY <1>10, <2>1, <2>2
<1>11. ASSUME NEW t \in Tasks, Snapshot(t) PROVE CallTypes'
  BY <1>0, <1>11 DEF TypeOK, Snapshot, TaskStates, CallTypes, voice, resets
<1>12. ASSUME NEW t \in Tasks, EnqueueFails(t) PROVE CallTypes'
  BY <1>0, <1>12, BeginResetTyped DEF EnqueueFails, TypeOK, CallTypes, voice
<1>13. CASE Exit \/ Crash
  <2>1. stranded' \in BOOLEAN  BY <1>13 DEF Exit, Crash, Ends
  <2> QED  BY <1>13, <2>1 DEF Exit, Crash, Ends, CallTypes
<1> QED
  BY <1>1, <1>2, <1>3, <1>4, <1>5, <1>6, <1>7, <1>8, <1>9, <1>10, <1>11, <1>12, <1>13
  DEF Next, vars, voice, resets, UserMoves, GuildCreate, ModeratorMoves, PlayBegins,
      EnsureJoined, BootstrapVoiceState, Enqueue, EnqueueSucceeds, TrackEnds, Boot, Ready,
      TakeFails, Signal, RestartSnapshot, Save, SaveFails

LEMMA ProcessTyped ==
  ASSUME Typed, [Next]_vars
  PROVE  ProcessTypes'
<1> USE ConstantsTyped
<1>0. TypeOK  BY DEF Typed
<1>1. ASSUME UNCHANGED <<process, cached, quit, orderly, budget>> PROVE ProcessTypes'
  BY <1>0, <1>1 DEF TypeOK, ProcessTypes, process
<1>2. ASSUME UNCHANGED <<process, cached, orderly, budget>>, quit' \in BOOLEAN
      PROVE  ProcessTypes'
  BY <1>0, <1>2 DEF TypeOK, ProcessTypes, process
<1>3. ASSUME UNCHANGED <<process, cached, quit, orderly>>, budget' \in Budgets
      PROVE  ProcessTypes'
  BY <1>0, <1>3 DEF TypeOK, ProcessTypes, process
<1>4. budget \in Budgets
      /\ (budget.moves > 0 => [budget EXCEPT !.moves = @ - 1] \in Budgets)
      /\ (budget.kicks > 0 => [budget EXCEPT !.kicks = @ - 1] \in Budgets)
      /\ (budget.plays > 0 => [budget EXCEPT !.plays = @ - 1] \in Budgets)
      /\ (budget.failures > 0 => [budget EXCEPT !.failures = @ - 1] \in Budgets)
      /\ (budget.lives > 0 => [budget EXCEPT !.lives = @ - 1] \in Budgets)
  <2>0. budget \in Budgets  BY <1>0 DEF TypeOK
  <2>1. budget.moves > 0 => [budget EXCEPT !.moves = @ - 1] \in Budgets
    BY <2>0 DEF Budgets
  <2>2. budget.kicks > 0 => [budget EXCEPT !.kicks = @ - 1] \in Budgets
    BY <2>0 DEF Budgets
  <2>3. budget.plays > 0 => [budget EXCEPT !.plays = @ - 1] \in Budgets
    BY <2>0 DEF Budgets
  <2>4. budget.failures > 0 => [budget EXCEPT !.failures = @ - 1] \in Budgets
    BY <2>0 DEF Budgets
  <2>5. budget.lives > 0 => [budget EXCEPT !.lives = @ - 1] \in Budgets
    BY <2>0 DEF Budgets
  <2> QED  BY <2>0, <2>1, <2>2, <2>3, <2>4, <2>5
<1>5. ASSUME NEW i \in 1..MaxInbox, HandleOwn(i) PROVE ProcessTypes'
  BY <1>0, <1>5, <1>2, <1>1, BeginResetTyped DEF HandleOwn
<1>6. ASSUME NEW i \in 1..MaxInbox, HandlePeer(i) PROVE ProcessTypes'
  BY <1>0, <1>6, <1>2, <1>1, BeginResetTyped DEF HandlePeer
<1>7. ASSUME NEW t \in Tasks, EnqueueFails(t) PROVE ProcessTypes'
  <2>1. budget' \in Budgets  BY <1>4, <1>7 DEF EnqueueFails
  <2>2. quit' \in BOOLEAN  BY <1>0, <1>7, BeginResetTyped DEF EnqueueFails, TypeOK
  <2> QED  BY <2>1, <2>2, <1>0, <1>7 DEF EnqueueFails, TypeOK, ProcessTypes, process
<1>8. ASSUME NEW u \in Users, NEW c \in Places, UserMoves(u, c) PROVE ProcessTypes'
  BY <1>3, <1>4, <1>8 DEF UserMoves
<1>9. ASSUME NEW c \in Places, ModeratorMoves(c) PROVE ProcessTypes'
  BY <1>3, <1>4, <1>9 DEF ModeratorMoves, BotIsIn
<1>10. CASE DiscordAnswers  BY <1>1, <1>10 DEF DiscordAnswers, BotIsIn
<1>11. ASSUME NEW q \in Plays, NEW u \in Users, PlayBegins(q, u) PROVE ProcessTypes'
  BY <1>3, <1>4, <1>11 DEF PlayBegins
<1>12. ASSUME NEW t \in Tasks, JoinRefused(t) PROVE ProcessTypes'
  BY <1>3, <1>4, <1>12 DEF JoinRefused
<1>21. ASSUME NEW left \in Budgets, RemoveCall(left) PROVE budget' \in Budgets
  BY <1>21 DEF RemoveCall, Budgets
<1>13. CASE JoinFails
  <2>1. budget' \in Budgets  BY <1>4, <1>13, <1>21 DEF JoinFails
  <2> QED  BY <2>1, <1>3, <1>13 DEF JoinFails
<1>22. CASE ResetLeaves  BY <1>3, <1>4, <1>21, <1>22 DEF ResetLeaves
<1>23. CASE TakeFails  BY <1>0, <1>4, <1>23 DEF TakeFails, TypeOK, ProcessTypes
<1>24. CASE RestartSnapshot
  <2>1. saved' \in Files  BY <1>0, <1>24 DEF RestartSnapshot, TypeOK, Files, Sessions
  <2> QED  BY <2>1, <1>0, <1>24 DEF RestartSnapshot, TypeOK, ProcessTypes
<1>14. CASE GuildCreate  BY <1>0, <1>14 DEF GuildCreate, TypeOK, ProcessTypes, process
<1>15. CASE Boot  BY <1>0, <1>4, <1>15 DEF Boot, TypeOK, ProcessTypes
<1>16. CASE Ready  BY <1>0, <1>16 DEF Ready, TypeOK, ProcessTypes
<1>17. CASE Signal
  <2>1. saved' \in Files  BY <1>0, <1>17 DEF Signal, TypeOK, Files, Sessions
  <2> QED  BY <2>1, <1>0, <1>17 DEF Signal, TypeOK, ProcessTypes
<1>18. CASE Save  BY <1>0, <1>18 DEF Save, TypeOK, ProcessTypes
<1>19. CASE SaveFails  BY <1>0, <1>4, <1>19 DEF SaveFails, TypeOK, ProcessTypes
<1>20. CASE Exit \/ Crash  BY <1>0, <1>20 DEF Exit, Crash, Ends, TypeOK, ProcessTypes
<1> QED
  BY <1>1, <1>5, <1>6, <1>7, <1>8, <1>9, <1>10, <1>11, <1>12, <1>13, <1>14, <1>15, <1>16,
     <1>17, <1>18, <1>19, <1>20, <1>22, <1>23, <1>24
  DEF Next, vars, process, ResetClears, EnsureJoined, Join, JoinSettles, Snapshot,
      BootstrapVoiceState, Enqueue, EnqueueSucceeds, TrackEnds

LEMMA SessionStaysSound ==
  ASSUME Typed, [Next]_vars
  PROVE  Sound(session')
<1>0. TypeOK /\ Sound(session)  BY TypedSound DEF Typed
<1>1. ASSUME NEW i \in 1..MaxInbox, HandleOwn(i) PROVE Sound(session')
  <2>1. inbox[i].new \in Places  BY <1>0, <1>1, EventTyped DEF HandleOwn
  <2>2. session.live => Sound([session EXCEPT !.index = EmptyIndex])
    BY <1>0, EmptyIndexSound, IndexChangedSound
  <2>3. ASSUME NEW s, Sound(s), s.live, NEW c \in Places
        PROVE  Sound([s EXCEPT !.index = UpdateBotChannel(@, c)])
    <3>1. s.index \in Indexes /\ CountsAgree(s.index)  BY <2>3 DEF Sound, Sessions
    <3>2. UpdateBotChannel(s.index, c) \in Indexes /\ CountsAgree(UpdateBotChannel(s.index, c))
      BY <3>1, UpdateBotSound
    <3> QED  BY <3>2, <2>3, IndexChangedSound
  <2>4. Sound(Opened(session)) /\ Opened(session).live  BY <1>0, OpenedSound
  <2> QED  BY <2>1, <2>2, <2>3, <2>4, <1>0, <1>1 DEF HandleOwn
<1>2. ASSUME NEW i \in 1..MaxInbox, HandlePeer(i) PROVE Sound(session')
  <2> DEFINE e == inbox[i]
             index == ApplyPeer(session.index, e.who, e.old, e.new)
  <2>1. e.who \in Users /\ e.old \in Places /\ e.new \in Places
    BY <1>0, <1>2, EventTyped DEF HandlePeer
  <2>2. session.index \in Indexes /\ CountsAgree(session.index)
    BY <1>0 DEF Sound, Sessions
  <2>3. index \in Indexes /\ CountsAgree(index)  BY <2>1, <2>2, ApplyPeerSound
  <2>4. session.live => Sound([session EXCEPT !.index = index])
    BY <2>3, <1>0, IndexChangedSound
  <2>5. \/ session.live /\ session' = [session EXCEPT !.index = index]
        \/ session' = session
    BY <1>2 DEF HandlePeer
  <2> HIDE DEF index
  <2> QED  BY <2>4, <2>5, <1>0
<1>3. CASE ResetClears  BY <1>3, NoSessionSound DEF ResetClears
<1>4. ASSUME NEW t \in Tasks, BootstrapVoiceState(t) PROVE Sound(session')
  <2>1. task[t].channel \in Places /\ task[t].seen \in Maps /\ task[t].informed \in BOOLEAN
    BY <1>0 DEF TypeOK, TaskStates, Maps
  <2>2. Sound(Opened(session)) /\ Opened(session).live  BY <1>0, OpenedSound
  <2> QED  BY <2>1, <2>2, <1>4, BootstrapSound, BootstrappedSound DEF BootstrapVoiceState
<1>5. ASSUME NEW t \in Tasks, Enqueue(t) PROVE Sound(session')
  BY <1>0, <1>5, OpenedSound DEF Enqueue
<1>6. ASSUME NEW t \in Tasks, EnqueueSucceeds(t) PROVE Sound(session')
  BY <1>0, <1>6, TrackChangedSound DEF EnqueueSucceeds, Typed, WaitersLive
<1>7. CASE TrackEnds
  <2>1. session.live  BY <1>0, <1>7 DEF TrackEnds, Sound, NoSession
  <2> QED  BY <2>1, <1>0, <1>7, TrackChangedSound DEF TrackEnds
<1>8. CASE Exit \/ Crash  BY <1>8, NoSessionSound DEF Exit, Crash, Ends
<1>9. ASSUME UNCHANGED session PROVE Sound(session')  BY <1>0, <1>9
<1> QED
  BY <1>1, <1>2, <1>3, <1>4, <1>5, <1>6, <1>7, <1>8, <1>9
  DEF Next, vars, UserMoves, GuildCreate, DiscordAnswers, BotIsIn, ModeratorMoves, ResetLeaves,
      PlayBegins, EnsureJoined, Join, JoinRefused, JoinSettles, JoinFails, Snapshot,
      EnqueueFails, Boot, Ready, TakeFails, Signal, RestartSnapshot, Save, SaveFails

TasksFit(f) == f \in [Tasks -> TaskStates]
               /\ \A t \in Tasks : f[t].pc # "idle" => f[t].channel \in Channels

LEMMA TasksStayTyped ==
  ASSUME Typed, [Next]_vars
  PROVE  TasksFit(task')
<1> USE ConstantsTyped
<1>0. TypeOK /\ TasksFit(task)  BY DEF Typed, TypeOK, TaskHasChannel, TasksFit
<1>1. ASSUME NEW t \in Tasks, task[t].pc # "idle",
             NEW pc \in {"join", "joined", "bootstrap", "enqueue", "waiting"}
      PROVE  TasksFit([task EXCEPT ![t].pc = pc])
  BY <1>0, <1>1 DEF TasksFit, TaskStates
<1>2. ASSUME NEW t \in Tasks PROVE TasksFit([task EXCEPT ![t] = Idle])
  BY <1>0 DEF TasksFit, Idle
<1>3. ASSUME NEW t \in Tasks, NEW c \in Channels, NEW b \in BOOLEAN
      PROVE  TasksFit([task EXCEPT ![t] = [Idle EXCEPT !.pc = "ensure", !.channel = c,
                                                       !.track = b]])
  <2>1. [Idle EXCEPT !.pc = "ensure", !.channel = c, !.track = b] \in TaskStates
    BY DEF Idle, TaskStates
  <2>2. [Idle EXCEPT !.pc = "ensure", !.channel = c, !.track = b].channel = c
    BY DEF Idle
  <2> QED  BY <1>0, <2>1, <2>2 DEF TasksFit
<1>4. ASSUME NEW p \in Plays, NEW u \in Users, PlayBegins(p, u) PROVE TasksFit(task')
  <2>1. where[u] \in Channels  BY <1>0, <1>4 DEF TypeOK, PlayBegins, Places
  <2> QED  BY <2>1, <1>3, <1>4 DEF PlayBegins
<1>5. CASE Ready
  <2>1. file.channel \in Places /\ file.playing \in BOOLEAN  BY <1>0 DEF TypeOK, Files
  <2>2. CASE file.channel = NoChannel  BY <1>0, <1>5, <2>2 DEF Ready, Resumed
  <2>3. CASE file.channel # NoChannel
    <3>1. file.channel \in Channels  BY <2>1, <2>3 DEF Places
    <3> QED  BY <3>1, <2>1, <2>3, <1>3, <1>5 DEF Ready, Resumed
  <2> QED  BY <2>2, <2>3
<1>6. ASSUME NEW t \in Tasks, EnsureJoined(t) PROVE TasksFit(task')
  BY <1>1, <1>6 DEF EnsureJoined, Go
<1>7. ASSUME NEW t \in Tasks, Join(t) PROVE TasksFit(task')
  <2>1. task' = [task EXCEPT ![t].pc = "joined", ![t].joinedNow = TRUE] /\ task[t].pc # "idle"
    BY <1>7 DEF Join
  <2> QED  BY <2>1, <1>0 DEF TasksFit, TaskStates
<1>8. ASSUME NEW t \in Tasks, Snapshot(t) PROVE TasksFit(task')
  <2>1. (IF cached THEN where ELSE EmptyIndex.peers) \in [Users -> Places]
    BY <1>0, EmptyIndexSound DEF TypeOK, Indexes
  <2>2. task' = [task EXCEPT ![t].pc = "bootstrap",
                             ![t].seen = IF cached THEN where ELSE EmptyIndex.peers,
                             ![t].informed = cached]
        /\ task[t].pc # "idle" /\ cached \in BOOLEAN
    BY <1>0, <1>8 DEF Snapshot, TypeOK
  <2> QED  BY <2>1, <2>2, <1>0 DEF TasksFit, TaskStates
<1>9. ASSUME NEW t \in Tasks, JoinRefused(t) \/ EnqueueSucceeds(t) \/ EnqueueFails(t)
      PROVE  TasksFit(task')
  BY <1>2, <1>9 DEF JoinRefused, EnqueueSucceeds, EnqueueFails, Finish
<1>10. ASSUME NEW t \in Tasks, BootstrapVoiceState(t) PROVE TasksFit(task')
  <2>1. task[t].pc # "idle"  BY <1>10 DEF BootstrapVoiceState
  <2>2. task' = [task EXCEPT ![t].pc = "enqueue"] \/ task' = [task EXCEPT ![t] = Idle]
    BY <1>10 DEF BootstrapVoiceState, Go, Finish
  <2> QED  BY <2>1, <2>2, <1>1, <1>2
<1>11. ASSUME NEW t \in Tasks, Enqueue(t) PROVE TasksFit(task')
  BY <1>1, <1>11 DEF Enqueue, Go
<1>12. CASE ResetClears
  <2>1. \A t \in Tasks : task'[t] = IF task[t].pc = "waiting"
                                    THEN [task[t] EXCEPT !.expired = TRUE] ELSE task[t]
    BY <1>12 DEF ResetClears
  <2>2. ASSUME NEW t \in Tasks
        PROVE  task'[t] \in TaskStates /\ (task'[t].pc # "idle" => task'[t].channel \in Channels)
    <3> DEFINE x == task[t]
    <3>1. x \in TaskStates /\ (x.pc # "idle" => x.channel \in Channels)  BY <1>0 DEF TasksFit
    <3>2. task'[t] = [x EXCEPT !.expired = TRUE] \/ task'[t] = x  BY <2>1
    <3> HIDE DEF x
    <3>3. [x EXCEPT !.expired = TRUE] \in TaskStates
          /\ [x EXCEPT !.expired = TRUE].pc = x.pc
          /\ [x EXCEPT !.expired = TRUE].channel = x.channel
      BY <3>1 DEF TaskStates
    <3> QED  BY <3>1, <3>2, <3>3
  <2>3. task' = [t \in Tasks |-> task'[t]]  BY <1>12 DEF ResetClears
  <2> QED  BY <2>2, <2>3 DEF TasksFit
<1>13. CASE Exit \/ Crash
  <2>1. Idle.pc = "idle"  BY DEF Idle
  <2> QED  BY <2>1, <1>13 DEF Exit, Crash, Ends, TasksFit
<1>14. ASSUME UNCHANGED task PROVE TasksFit(task')  BY <1>0, <1>14
<1> QED
  BY <1>4, <1>5, <1>6, <1>7, <1>8, <1>9, <1>10, <1>11, <1>12, <1>13, <1>14
  DEF Next, vars, UserMoves, GuildCreate, DiscordAnswers, BotIsIn, ModeratorMoves, HandleOwn,
      HandlePeer, ResetLeaves, JoinSettles, JoinFails, TrackEnds, Boot, TakeFails, Signal,
      RestartSnapshot, Save, SaveFails

\* What a step does to a command that waits.
LEMMA WaitersStayLive == ASSUME Typed, [Next]_vars PROVE WaitersLive'
<1> USE ConstantsTyped
<1>0. TypeOK /\ Sound(session) /\ WaitersLive  BY TypedSound DEF Typed
<1>1. task \in [Tasks -> TaskStates] /\ session \in Sessions  BY <1>0 DEF TypeOK
<1>2. Idle.pc = "idle"  BY DEF Idle
<1>3. Sound(Opened(session)) /\ Opened(session).live  BY <1>0, OpenedSound
<1>4. ASSUME NEW s \in Sessions, NEW x, s.live, session' = [s EXCEPT !.index = x]
      PROVE  session'.live
  BY <1>4 DEF Sessions
<1>5. ASSUME UNCHANGED task, session.live => session'.live PROVE WaitersLive'
  BY <1>0, <1>5 DEF WaitersLive
<1>6. ASSUME NEW x \in Tasks, NEW new, task' = [task EXCEPT ![x] = new], new.pc # "waiting",
             session.live => session'.live
      PROVE  WaitersLive'
  BY <1>0, <1>1, <1>6 DEF WaitersLive
<1>7. ASSUME NEW x \in Tasks, NEW pc \in {"join", "joined", "bootstrap", "enqueue"}, Go(x, pc),
             session.live => session'.live
      PROVE  WaitersLive'
  <2> DEFINE new == [task[x] EXCEPT !.pc = pc]
  <2>1. task' = [task EXCEPT ![x] = new]  BY <1>7 DEF Go
  <2>2. new.pc = pc  BY <1>1 DEF TaskStates
  <2> HIDE DEF new
  <2> QED  BY <2>1, <2>2, <1>6, <1>7
<1>8. ASSUME NEW x \in Tasks, Finish(x), session.live => session'.live PROVE WaitersLive'
  BY <1>2, <1>6, <1>8 DEF Finish
<1>9. ASSUME NEW i \in 1..MaxInbox, HandleOwn(i) PROVE WaitersLive'
  <2>1. session.live => session'.live
    BY <1>1, <1>3, <1>4, <1>9 DEF HandleOwn, Sound
  <2> QED  BY <2>1, <1>5, <1>9 DEF HandleOwn
<1>10. ASSUME NEW i \in 1..MaxInbox, HandlePeer(i) PROVE WaitersLive'
  <2>1. session.live => session'.live  BY <1>1, <1>4, <1>10 DEF HandlePeer
  <2> QED  BY <2>1, <1>5, <1>10 DEF HandlePeer
<1>11. CASE ResetClears
  <2> SUFFICES ASSUME NEW t \in Tasks, task'[t].pc = "waiting", ~task'[t].expired
               PROVE  FALSE
    BY DEF WaitersLive
  <2>1. task'[t] = IF task[t].pc = "waiting"
                   THEN [task[t] EXCEPT !.expired = TRUE] ELSE task[t]
    BY <1>11 DEF ResetClears
  <2>2. [task[t] EXCEPT !.expired = TRUE].expired  BY <1>1 DEF TaskStates
  <2> QED  BY <2>1, <2>2
<1>12. ASSUME NEW p \in Plays, NEW u \in Users, PlayBegins(p, u) PROVE WaitersLive'
  <2> DEFINE new == [Idle EXCEPT !.pc = "ensure", !.channel = where[u], !.track = TRUE]
  <2>1. new.pc = "ensure"  BY DEF Idle
  <2>2. task' = [task EXCEPT ![p] = new] /\ UNCHANGED session  BY <1>12 DEF PlayBegins
  <2> HIDE DEF new
  <2> QED  BY <2>1, <2>2, <1>6
<1>13. CASE Ready
  <2> DEFINE new == [Idle EXCEPT !.pc = "ensure", !.channel = file.channel,
                                 !.track = file.playing]
  <2>1. new.pc = "ensure"  BY DEF Idle
  <2>2. (task' = [task EXCEPT ![Restorer] = new] \/ task' = task) /\ UNCHANGED session
    BY <1>13 DEF Ready, Resumed
  <2> HIDE DEF new
  <2> QED  BY <2>1, <2>2, <1>5, <1>6
<1>14. ASSUME NEW t \in Tasks, EnsureJoined(t) PROVE WaitersLive'
  BY <1>7, <1>14 DEF EnsureJoined
<1>15. ASSUME NEW t \in Tasks, Join(t) \/ Snapshot(t) PROVE WaitersLive'
  <2> DEFINE new == task'[t]
  <2>1. UNCHANGED session  BY <1>15 DEF Join, Snapshot
  <2>2. task' = [task EXCEPT ![t] = new] /\ new.pc \in {"joined", "bootstrap"}
    BY <1>1, <1>15 DEF Join, Snapshot, TaskStates
  <2> HIDE DEF new
  <2> QED  BY <2>1, <2>2, <1>6
<1>16. ASSUME NEW t \in Tasks, BootstrapVoiceState(t) PROVE WaitersLive'
  <2> DEFINE s == Opened(session)
  <2>1. session' = [s EXCEPT !.index = Bootstrap(task[t].channel, task[t].seen),
                             !.informed = task[t].informed]
    BY <1>16 DEF BootstrapVoiceState
  <2>2. s \in Sessions /\ s.live  BY <1>3 DEF Sound
  <2> HIDE DEF s
  <2>3. session'.live  BY <2>1, <2>2 DEF Sessions
  <2> QED  BY <2>3 DEF WaitersLive
<1>17. ASSUME NEW t \in Tasks, Enqueue(t) PROVE WaitersLive'
  BY <1>3, <1>17 DEF Enqueue, WaitersLive
<1>18. ASSUME NEW t \in Tasks, EnqueueSucceeds(t) PROVE WaitersLive'
  <2>1. session' = [session EXCEPT !.track = TRUE]  BY <1>18 DEF EnqueueSucceeds
  <2>2. session'.live = session.live  BY <2>1, <1>1 DEF Sessions
  <2> QED  BY <2>2, <1>8, <1>18 DEF EnqueueSucceeds
<1>19. ASSUME NEW t \in Tasks, JoinRefused(t) \/ EnqueueFails(t) PROVE WaitersLive'
  BY <1>8, <1>19 DEF JoinRefused, EnqueueFails
<1>20. CASE TrackEnds
  <2>1. session' = [session EXCEPT !.track = FALSE]  BY <1>20 DEF TrackEnds
  <2>2. session'.live = session.live  BY <2>1, <1>1 DEF Sessions
  <2> QED  BY <2>2, <1>5, <1>20 DEF TrackEnds
<1>21. CASE Exit \/ Crash  BY <1>2, <1>21 DEF Exit, Crash, Ends, WaitersLive
<1>22. ASSUME UNCHANGED <<task, session>> PROVE WaitersLive'  BY <1>5, <1>22
<1> QED
  BY <1>9, <1>10, <1>11, <1>12, <1>13, <1>14, <1>15, <1>16, <1>17, <1>18, <1>19, <1>20, <1>21,
     <1>22
  DEF Next, vars, UserMoves, GuildCreate, DiscordAnswers, BotIsIn, ModeratorMoves, ResetLeaves,
      JoinSettles, JoinFails, Boot, TakeFails, Signal, RestartSnapshot, Save, SaveFails

-----------------------------------------------------------------------------
\* While the program serves there is no file, unless it could not be taken.
FileGone == phase = "serving" => file.channel = NoChannel \/ kept

IInv == Typed /\ FileGone /\ NotResurrected

LEMMA InitIInv == Init => IInv
<1> SUFFICES ASSUME Init PROVE IInv  OBVIOUS
<1> USE ConstantsTyped
<1>1. PICK s \in Scenarios : orderly = s.orderly /\ budget = s.budget  BY DEF Init
<1>2. orderly \in BOOLEAN /\ budget \in Budgets  BY <1>1, GatewayAssumption
<1>3. Sound(session)  BY NoSessionSound DEF Init
<1>4. TypeOK  BY <1>2, <1>3, EmptySeqs DEF Init, TypeOK, Sound
<1>5. TaskHasChannel /\ WaitersLive
  <2>1. Idle.pc = "idle"  BY DEF Idle
  <2> QED  BY <2>1 DEF Init, TaskHasChannel, WaitersLive
<1>6. FileGone /\ NotResurrected  BY DEF Init, FileGone, NotResurrected, NoFile
<1> QED  BY <1>3, <1>4, <1>5, <1>6 DEF IInv, Typed, Sound, CountsFollow

LEMMA StepTyped == ASSUME Typed, [Next]_vars PROVE Typed'
<1>1. Sound(session')  BY SessionStaysSound
<1>2. SessionType' /\ CountsFollow'  BY <1>1 DEF Sound, SessionType, CountsFollow
<1>3. TasksFit(task')  BY TasksStayTyped
<1>4. TaskType' /\ TaskHasChannel'  BY <1>3 DEF TasksFit, TaskType, TaskHasChannel
<1>5. DiscordTypes' /\ ProcessTypes' /\ InboxType' /\ CallTypes'
  BY HandlersTyped, ProcessTyped, CallsTyped
<1> QED  BY <1>2, <1>4, <1>5, WaitersStayLive, TypePartsNext DEF Typed

LEMMA StepFile == ASSUME IInv, [Next]_vars PROVE FileGone' /\ NotResurrected'
<1>0. FileGone /\ NotResurrected  BY DEF IInv
<1>1. ASSUME UNCHANGED <<phase, file, kept, quit>> PROVE FileGone' /\ NotResurrected'
  BY <1>0, <1>1 DEF FileGone, NotResurrected
<1>2. ASSUME BeginReset, UNCHANGED <<phase, file, kept>> PROVE FileGone' /\ NotResurrected'
  BY <1>0, <1>2 DEF FileGone, NotResurrected, BeginReset
<1>3. ASSUME NEW i \in 1..MaxInbox, HandleOwn(i) \/ HandlePeer(i)
      PROVE  FileGone' /\ NotResurrected'
  BY <1>1, <1>2, <1>3 DEF HandleOwn, HandlePeer, process
<1>4. ASSUME NEW t \in Tasks, EnqueueFails(t) PROVE FileGone' /\ NotResurrected'
  BY <1>1, <1>2, <1>4 DEF EnqueueFails, process
<1>5. CASE Ready  BY <1>5 DEF Ready, FileGone, NotResurrected, NoFile
<1>6. CASE Save  BY <1>6 DEF Save, FileGone, NotResurrected
<1>7. CASE Boot \/ Signal \/ RestartSnapshot \/ SaveFails \/ Exit \/ Crash
  BY <1>0, <1>7
  DEF Boot, Signal, RestartSnapshot, SaveFails, Exit, Crash, Ends, FileGone, NotResurrected
<1>8. CASE TakeFails
  <2>1. file' # NoFile => kept'  BY <1>8 DEF TakeFails
  <2>2. NoFile.channel = NoChannel  BY DEF NoFile
  <2> QED  BY <2>1, <2>2 DEF FileGone, NotResurrected
<1> QED
  BY <1>1, <1>3, <1>4, <1>5, <1>6, <1>7, <1>8
  DEF Next, vars, process, UserMoves, GuildCreate, DiscordAnswers, BotIsIn, ModeratorMoves,
      ResetClears, ResetLeaves, PlayBegins, EnsureJoined, Join, JoinRefused, JoinSettles,
      JoinFails, Snapshot, BootstrapVoiceState, Enqueue, EnqueueSucceeds, TrackEnds

LEMMA Inductive == Spec => []IInv
<1>1. ASSUME IInv, [Next]_vars PROVE IInv'
  BY <1>1, StepTyped, StepFile DEF IInv
<1> QED  BY InitIInv, <1>1, PTL DEF Spec

\* Every variable of the gateway has its type, whatever order its handlers,
\* commands, resets and restarts run in.
THEOREM TypeCorrect == Spec => []TypeOK
<1>1. IInv => TypeOK  BY DEF IInv, Typed
<1> QED  BY <1>1, Inductive, PTL

\* The voice index's counts are the numbers of peers they stand for, for any
\* number of peers and channels and in any order of the events: what decides
\* whether the bot is alone never drifts from the map it is counted from.
THEOREM CountsAlwaysFollow == Spec => []CountsFollow
<1>1. IInv => CountsFollow  BY DEF IInv, Typed
<1> QED  BY <1>1, Inductive, PTL

\* A connection that ended in service is not in the reconnect file, so that no
\* crash can bring it back, in every life whose `take` did not fail with the file
\* left in place: through any number of failing saves, unreadable files, signals
\* at any moment and crashes at any point.
THEOREM NeverResurrected == Spec => []NotResurrected
<1>1. IInv => NotResurrected  BY DEF IInv
<1> QED  BY <1>1, Inductive, PTL

-----------------------------------------------------------------------------
(* The index follows the peers: what it does not know yet is in the inbox. *)

LEMMA HeadRemoved ==
  ASSUME NEW S, NEW s \in Seq(S), 1 \in DOMAIN s
  PROVE  /\ RemoveAt(s, 1) \in Seq(S) /\ Len(s) \in Nat
         /\ DOMAIN s = 1..Len(s) /\ DOMAIN RemoveAt(s, 1) = 1..(Len(s) - 1)
         /\ \A k \in 1..(Len(s) - 1) : RemoveAt(s, 1)[k] = s[k + 1]
<1>1. Len(s) \in Nat /\ DOMAIN s = 1..Len(s) /\ 1 <= Len(s)  OBVIOUS
<1>2. SubSeq(s, 1, 0) = << >>  BY <1>1, SubSeqProperties
<1>3. SubSeq(s, 2, Len(s)) \in Seq(S) /\ Len(SubSeq(s, 2, Len(s))) = Len(s) - 1
      /\ \A k \in 1..(Len(s) - 1) : SubSeq(s, 2, Len(s))[k] = s[k + 1]
  BY <1>1, SubSeqProperties
<1>4. RemoveAt(s, 1) = SubSeq(s, 2, Len(s))
  <2>1. RemoveAt(s, 1) = SubSeq(s, 1, 0) \o SubSeq(s, 2, Len(s))  BY DEF RemoveAt
  <2> QED  BY <2>1, <1>2, <1>3, ConcatEmptySeq
<1>5. DOMAIN SubSeq(s, 2, Len(s)) = 1..(Len(s) - 1)  BY <1>1, <1>3
<1> QED  BY <1>1, <1>3, <1>4, <1>5

LEMMA RemoveAtElements ==
  ASSUME NEW S, NEW s \in Seq(S), NEW i \in DOMAIN s
  PROVE  \A k \in DOMAIN RemoveAt(s, i) : \E l \in DOMAIN s : RemoveAt(s, i)[k] = s[l]
<1> DEFINE left == SubSeq(s, 1, i - 1)
           right == SubSeq(s, i + 1, Len(s))
<1>1. Len(s) \in Nat /\ DOMAIN s = 1..Len(s) /\ i \in 1..Len(s)  OBVIOUS
<1>2. left \in Seq(S) /\ Len(left) = i - 1 /\ \A k \in 1..(i - 1) : left[k] = s[k]
  BY <1>1, SubSeqProperties
<1>3. right \in Seq(S) /\ Len(right) = Len(s) - i
      /\ \A k \in 1..(Len(s) - i) : right[k] = s[i + k]
  BY <1>1, SubSeqProperties
<1>4. RemoveAt(s, i) = left \o right  BY DEF RemoveAt
<1> HIDE DEF left, right
<1>5. Len(left \o right) = Len(s) - 1 /\ DOMAIN (left \o right) = 1..(Len(s) - 1)
  <2>1. Len(left \o right) = (i - 1) + (Len(s) - i) /\ left \o right \in Seq(S)
    BY <1>2, <1>3, ConcatProperties
  <2>2. (i - 1) + (Len(s) - i) = Len(s) - 1  BY <1>1
  <2> QED  BY <2>1, <2>2
<1>6. ASSUME NEW k \in 1..(Len(s) - 1) PROVE \E l \in DOMAIN s : (left \o right)[k] = s[l]
  <2>1. CASE k < i
    <3>1. (left \o right)[k] = left[k]  BY <1>1, <1>2, <1>3, <1>6, <2>1, ConcatProperties
    <3> QED  BY <3>1, <2>1, <1>1, <1>2, <1>6
  <2>2. CASE ~(k < i)
    <3>0. k >= i  BY <2>2, <1>1, <1>6
    <3>1. (left \o right)[k] = right[k - (i - 1)]
      BY <1>1, <1>2, <1>3, <1>6, <3>0, ConcatProperties
    <3>2. right[k - (i - 1)] = s[i + (k - (i - 1))] /\ i + (k - (i - 1)) = k + 1
      BY <1>1, <1>3, <1>6, <3>0
    <3> QED  BY <3>1, <3>2, <1>1, <1>6
  <2> QED  BY <2>1, <2>2
<1> QED  BY <1>4, <1>5, <1>6

LEMMA EventAppended ==
  ASSUME NEW S, NEW s \in Seq(S), NEW e \in S
  PROVE  /\ Len(s) \in Nat /\ DOMAIN s = 1..Len(s) /\ DOMAIN Append(s, e) = 1..(Len(s) + 1)
         /\ \A k \in 1..Len(s) : Append(s, e)[k] = s[k]
         /\ Append(s, e)[Len(s) + 1] = e
  OBVIOUS

\* The k-th event under way is a move of u; one of them is.
Moves(q, u, k) == q[k].who = u /\ q[k].new # q[k].old
StillMoves(q, u) == \E k \in DOMAIN q : Moves(q, u, k)

\* The events of a peer end where it is.
Trails(q, places) ==
    \A i \in DOMAIN q : q[i].who # Bot =>
        \/ q[i].new = places[q[i].who]
        \/ \E k \in DOMAIN q : k > i /\ Moves(q, q[i].who, k)

\* Where a map of the peers is wrong, a move is under way.
Heard(q, places, peers) == \A u \in Users : peers[u] = places[u] \/ StillMoves(q, u)

Joining == {"join", "joined", "bootstrap"}

\* Without the guild in the cache nothing has been told of the peers.
Watched ==
    /\ ~Up => \A t \in Tasks : task[t].pc = "idle"
    /\ ~(Up /\ cached) =>
        /\ ~session.informed
        /\ \A i \in DOMAIN inbox : inbox[i].who = Bot
        /\ \A t \in Tasks : ~task[t].informed

SessionFits == ~session.live => session.index = EmptyIndex

PeersFit ==
    /\ Trails(inbox, where)
    /\ \A t \in Tasks : task[t].pc = "bootstrap" /\ task[t].informed
         => Heard(inbox, where, task[t].seen)
    /\ session.informed /\ session.index.bootstrapped
         => Heard(inbox, where, session.index.peers)

LEMMA AppendKeepsMoves ==
  ASSUME NEW q \in Seq(Handlers), NEW e \in Handlers, NEW u
  PROVE  /\ StillMoves(q, u) => StillMoves(Append(q, e), u)
         /\ e.who = u /\ e.new # e.old => StillMoves(Append(q, e), u)
<1> DEFINE r == Append(q, e)
<1>1. Len(q) \in Nat /\ DOMAIN q = 1..Len(q) /\ DOMAIN r = 1..(Len(q) + 1)
      /\ (\A k \in 1..Len(q) : r[k] = q[k]) /\ r[Len(q) + 1] = e
  BY EventAppended
<1> HIDE DEF r
<1> QED  BY <1>1 DEF StillMoves, Moves, r

\* An event of the bot changes nothing of this.
LEMMA BotEventTold ==
  ASSUME NEW q \in Seq(Handlers), NEW e \in Handlers, e.who = Bot, NEW places,
         Trails(q, places)
  PROVE  Trails(Append(q, e), places)
<1> DEFINE r == Append(q, e)
<1>1. Len(q) \in Nat /\ DOMAIN q = 1..Len(q) /\ DOMAIN r = 1..(Len(q) + 1)
      /\ (\A k \in 1..Len(q) : r[k] = q[k]) /\ r[Len(q) + 1] = e
  BY EventAppended
<1> HIDE DEF r
<1>2. ASSUME NEW i \in DOMAIN r, r[i].who # Bot
      PROVE  r[i].new = places[r[i].who] \/ \E k \in DOMAIN r : k > i /\ Moves(r, r[i].who, k)
  <2>1. i \in DOMAIN q /\ r[i] = q[i]  BY <1>1, <1>2
  <2>2. CASE q[i].new = places[q[i].who]  BY <2>1, <2>2
  <2>3. ASSUME NEW k \in DOMAIN q, k > i, Moves(q, q[i].who, k)
        PROVE  \E l \in DOMAIN r : l > i /\ Moves(r, r[i].who, l)
    BY <1>1, <2>1, <2>3 DEF Moves
  <2> QED  BY <1>2, <2>1, <2>2, <2>3 DEF Trails
<1> QED  BY <1>2 DEF Trails, r

\* An event of a peer tells of its move.
LEMMA PeerEventTold ==
  ASSUME NEW q \in Seq(Handlers), NEW places \in Maps, Trails(q, places),
         NEW u \in Users, NEW c \in Places, NEW e \in Handlers,
         e = [who |-> u, old |-> places[u], new |-> c]
  PROVE  /\ Trails(Append(q, e), [places EXCEPT ![u] = c])
         /\ \A peers : Heard(q, places, peers)
                         => Heard(Append(q, e), [places EXCEPT ![u] = c], peers)
<1> DEFINE r == Append(q, e)
           moved == [places EXCEPT ![u] = c]
<1>1. Len(q) \in Nat /\ DOMAIN q = 1..Len(q) /\ DOMAIN r = 1..(Len(q) + 1)
      /\ (\A k \in 1..Len(q) : r[k] = q[k]) /\ r[Len(q) + 1] = e
  BY EventAppended
<1>2. moved[u] = c /\ \A x \in Users : x # u => moved[x] = places[x]  BY DEF Maps
<1>3. c # places[u] => Moves(r, u, Len(q) + 1)  BY <1>1 DEF Moves
<1>4. \A x : StillMoves(q, x) => StillMoves(r, x)  BY AppendKeepsMoves
<1> HIDE DEF r, moved
<1>5. ASSUME NEW i \in DOMAIN r, r[i].who # Bot
      PROVE  r[i].new = moved[r[i].who] \/ \E k \in DOMAIN r : k > i /\ Moves(r, r[i].who, k)
  <2>1. CASE i = Len(q) + 1  BY <2>1, <1>1, <1>2
  <2>2. CASE i # Len(q) + 1
    <3>1. i \in DOMAIN q /\ r[i] = q[i] /\ Len(q) + 1 > i /\ Len(q) + 1 \in DOMAIN r
      BY <1>1, <2>2
    <3>2. q[i] \in Handlers  BY <3>1
    <3>3. q[i].who \in Users  BY <3>1, <3>2, <1>5 DEF Handlers
    <3>4. CASE q[i].who = u /\ c # places[u]  BY <1>3, <3>1, <3>4
    <3>5. CASE ~(q[i].who = u /\ c # places[u])
      <4>1. moved[q[i].who] = places[q[i].who]  BY <3>3, <3>5, <1>2
      <4>2. CASE q[i].new = places[q[i].who]  BY <4>1, <4>2, <3>1
      <4>3. ASSUME NEW k \in DOMAIN q, k > i, Moves(q, q[i].who, k)
            PROVE  \E l \in DOMAIN r : l > i /\ Moves(r, r[i].who, l)
        BY <1>1, <3>1, <4>3 DEF Moves
      <4> QED  BY <1>5, <3>1, <4>2, <4>3 DEF Trails
    <3> QED  BY <3>4, <3>5
  <2> QED  BY <2>1, <2>2
<1>6. ASSUME NEW peers, Heard(q, places, peers), NEW x \in Users
      PROVE  peers[x] = moved[x] \/ StillMoves(r, x)
  <2>1. CASE x = u /\ c # places[u]
    <3>1. Len(q) + 1 \in DOMAIN r  BY <1>1
    <3> QED  BY <2>1, <3>1, <1>3 DEF StillMoves
  <2>2. CASE ~(x = u /\ c # places[u])
    <3>1. moved[x] = places[x]  BY <2>2, <1>2
    <3>2. peers[x] = places[x] \/ StillMoves(q, x)  BY <1>6 DEF Heard
    <3> QED  BY <3>1, <3>2, <1>4
  <2> QED  BY <2>1, <2>2
<1> QED  BY <1>5, <1>6 DEF Trails, Heard, r, moved

\* The first event is handled: the rest still ends where the peers are, and
\* nobody else's moves are lost.
LEMMA HeadHandled ==
  ASSUME NEW q \in Seq(Handlers), 1 \in DOMAIN q, NEW places, Trails(q, places)
  PROVE  /\ Trails(RemoveAt(q, 1), places)
         /\ \A u : StillMoves(q, u) /\ ~Moves(q, u, 1) => StillMoves(RemoveAt(q, 1), u)
         /\ q[1].who # Bot => \/ q[1].new = places[q[1].who]
                              \/ StillMoves(RemoveAt(q, 1), q[1].who)
<1> DEFINE r == RemoveAt(q, 1)
<1>1. Len(q) \in Nat /\ DOMAIN q = 1..Len(q) /\ DOMAIN r = 1..(Len(q) - 1)
      /\ \A k \in 1..(Len(q) - 1) : r[k] = q[k + 1]
  BY HeadRemoved
<1> HIDE DEF r
<1>2. ASSUME NEW k \in DOMAIN q, k > 1
      PROVE  k - 1 \in DOMAIN r /\ r[k - 1] = q[k]
  BY <1>1, <1>2
<1>3. ASSUME NEW i \in DOMAIN r, r[i].who # Bot
      PROVE  r[i].new = places[r[i].who] \/ \E k \in DOMAIN r : k > i /\ Moves(r, r[i].who, k)
  <2>1. i + 1 \in DOMAIN q /\ r[i] = q[i + 1] /\ i \in Nat  BY <1>1
  <2>2. ASSUME NEW k \in DOMAIN q, k > i + 1, Moves(q, q[i + 1].who, k)
        PROVE  \E l \in DOMAIN r : l > i /\ Moves(r, r[i].who, l)
    <3>1. k > 1 /\ k - 1 > i  BY <2>1, <2>2, <1>1
    <3>2. k - 1 \in DOMAIN r /\ Moves(r, r[i].who, k - 1)  BY <3>1, <2>1, <2>2, <1>2 DEF Moves
    <3> QED  BY <3>1, <3>2
  <2> QED  BY <2>1, <2>2, <1>3 DEF Trails
<1>4. ASSUME NEW u, StillMoves(q, u), ~Moves(q, u, 1)  PROVE StillMoves(r, u)
  <2>1. PICK k \in DOMAIN q : Moves(q, u, k)  BY <1>4 DEF StillMoves
  <2>2. k > 1  BY <2>1, <1>4, <1>1
  <2> QED  BY <2>1, <2>2, <1>2 DEF StillMoves, Moves
<1>5. ASSUME q[1].who # Bot
      PROVE  q[1].new = places[q[1].who] \/ StillMoves(r, q[1].who)
  <2>1. ASSUME NEW k \in DOMAIN q, k > 1, Moves(q, q[1].who, k)
        PROVE  StillMoves(r, q[1].who)
    BY <2>1, <1>2 DEF StillMoves, Moves
  <2> QED  BY <1>5, <2>1 DEF Trails
<1> QED  BY <1>3, <1>4, <1>5 DEF Trails, r

LEMMA TypedFits == Typed => SessionFits
  BY DEF Typed, TypeOK, SessionFits, NoSession

LEMMA OpenedIndex ==
  ASSUME Typed
  PROVE  /\ Opened(session).index = session.index /\ Opened(session) \in Sessions
         /\ Opened(session).informed = session.informed
<1>1. Opened(session) \in Sessions  BY TypedSound, OpenedSound DEF Sound
<1>2. CASE session.live  BY <1>1, <1>2 DEF Opened
<1>3. CASE ~session.live
  <2>1. session = NoSession  BY <1>3 DEF Typed, TypeOK
  <2> QED  BY <2>1, <1>1, <1>3 DEF Opened, NoSession
<1> QED  BY <1>2, <1>3

\* How a step may change what the index knows of the peers.
LEMMA IndexStep ==
  ASSUME Typed, [Next]_vars
  PROVE  \/ ~session'.index.bootstrapped /\ (session'.informed => session.informed)
         \/ /\ session'.informed = session.informed
            /\ session'.index.bootstrapped = session.index.bootstrapped
            /\ session'.index.peers = session.index.peers
         \/ \E i \in 1..MaxInbox : HandlePeer(i)
         \/ \E t \in Tasks : BootstrapVoiceState(t)
<1> DEFINE Cleared == ~session'.index.bootstrapped /\ (session'.informed => session.informed)
           Kept == /\ session'.informed = session.informed
                   /\ session'.index.bootstrapped = session.index.bootstrapped
                   /\ session'.index.peers = session.index.peers
<1>0. session \in Sessions  BY DEF Typed, TypeOK
<1>1. ~EmptyIndex.bootstrapped /\ ~NoSession.index.bootstrapped /\ ~NoSession.informed
  BY DEF EmptyIndex, NoSession
<1>2. Opened(session).index = session.index /\ Opened(session) \in Sessions
      /\ Opened(session).informed = session.informed
  BY OpenedIndex
<1>3. ASSUME NEW i, HandleOwn(i) PROVE Cleared \/ Kept
  <2>1. CASE inbox[i].new = NoChannel
    <3>1. CASE session.live
      <4>1. session' = [session EXCEPT !.index = EmptyIndex]
        BY <1>3, <2>1, <3>1 DEF HandleOwn
      <4> QED  BY <4>1, <1>0, <1>1 DEF Sessions
    <3>2. CASE ~session.live  BY <1>3, <2>1, <3>2 DEF HandleOwn
    <3> QED  BY <3>1, <3>2
  <2>2. CASE inbox[i].new # NoChannel
    <3> DEFINE s == Opened(session)
    <3>1. session' = [s EXCEPT !.index = UpdateBotChannel(@, inbox[i].new)]
      BY <1>3, <2>2 DEF HandleOwn
    <3> HIDE DEF s
    <3>2. s.index = session.index /\ s \in Sessions /\ s.informed = session.informed
      BY <1>2 DEF s
    <3>3. session'.index = UpdateBotChannel(session.index, inbox[i].new)
          /\ session'.informed = session.informed
      BY <3>1, <3>2 DEF Sessions
    <3>4. session.index \in Indexes  BY <1>0 DEF Sessions
    <3> QED  BY <3>3, <3>4 DEF UpdateBotChannel, Indexes
  <2> QED  BY <2>1, <2>2
<1>4. CASE ResetClears  BY <1>1, <1>4 DEF ResetClears
<1>5. ASSUME NEW t \in Tasks, Enqueue(t) PROVE Kept  BY <1>2, <1>5 DEF Enqueue
<1>6. ASSUME NEW b, session' = [session EXCEPT !.track = b] PROVE Kept
  BY <1>0, <1>6 DEF Sessions
<1>7. CASE Exit \/ Crash  BY <1>1, <1>7 DEF Exit, Crash, Ends
<1>8. ASSUME UNCHANGED session PROVE Kept  BY <1>8
<1> QED
  BY <1>3, <1>4, <1>5, <1>6, <1>7, <1>8
  DEF Next, vars, UserMoves, GuildCreate, DiscordAnswers, BotIsIn, ModeratorMoves, ResetLeaves,
      PlayBegins, EnsureJoined, Join, JoinRefused, JoinSettles, JoinFails, Snapshot,
      EnqueueSucceeds, EnqueueFails, TrackEnds, Boot, Ready, TakeFails, Signal,
      RestartSnapshot, Save, SaveFails

\* What a bootstrap writes.
LEMMA Bootstrapped ==
  ASSUME Typed, NEW t \in Tasks, BootstrapVoiceState(t)
  PROVE  /\ session'.index = Bootstrap(task[t].channel, task[t].seen)
         /\ session'.informed = task[t].informed
<1> DEFINE s == Opened(session)
           b == Bootstrap(task[t].channel, task[t].seen)
<1>1. session' = [s EXCEPT !.index = b, !.informed = task[t].informed]
  BY DEF BootstrapVoiceState
<1>2. s \in Sessions  BY OpenedIndex
<1> HIDE DEF s, b
<1>3. session'.index = b /\ session'.informed = task[t].informed  BY <1>1, <1>2 DEF Sessions
<1> QED  BY <1>3 DEF b

\* How a step may change a task that joins.
LEMMA TaskStep ==
  ASSUME Typed, [Next]_vars, NEW t \in Tasks
  PROVE  \/ /\ task'[t].pc \notin Joining /\ (task[t].pc = "idle" => task'[t].pc = "idle" \/ Up')
            /\ task'[t].informed => task[t].informed
         \/ task'[t] = task[t]
         \/ EnsureJoined(t) \/ Join(t) \/ Snapshot(t)
<1> DEFINE Rests == task'[t].pc \notin Joining
                    /\ (task[t].pc = "idle" => task'[t].pc = "idle" \/ Up')
                    /\ (task'[t].informed => task[t].informed)
<1> USE ConstantsTyped
<1>0. task \in [Tasks -> TaskStates]  BY DEF Typed, TypeOK
<1>1. \A x \in Tasks : task[x] \in TaskStates  BY <1>0
<1>2. ASSUME NEW x \in Tasks, NEW new, task' = [task EXCEPT ![x] = new],
             new.pc \notin Joining, task[x].pc # "idle" \/ new.pc = "idle" \/ Up',
             new.informed => task[x].informed
      PROVE  Rests \/ task'[t] = task[t]
  BY <1>0, <1>2
<1>3. Idle.pc = "idle" /\ ~Idle.informed /\ "idle" \notin Joining /\ "ensure" \notin Joining
      /\ "enqueue" \notin Joining /\ "waiting" \notin Joining
  BY DEF Idle, Joining
<1>4. ASSUME NEW p \in Plays, NEW u \in Users, PlayBegins(p, u)
      PROVE  Rests \/ task'[t] = task[t]
  <2> DEFINE new == [Idle EXCEPT !.pc = "ensure", !.channel = where[u], !.track = TRUE]
  <2>1. new.pc = "ensure" /\ ~new.informed  BY DEF Idle
  <2>2. task' = [task EXCEPT ![p] = new] /\ Up'  BY <1>4 DEF PlayBegins, process, Up
  <2> HIDE DEF new
  <2> QED  BY <2>1, <2>2, <1>2, <1>3
<1>5. CASE Ready
  <2> DEFINE new == [Idle EXCEPT !.pc = "ensure", !.channel = file.channel,
                                 !.track = file.playing]
  <2>1. new.pc = "ensure" /\ ~new.informed  BY DEF Idle
  <2>2. (task' = [task EXCEPT ![Restorer] = new] \/ task' = task) /\ Up'
    BY <1>5 DEF Ready, Resumed, Up
  <2> HIDE DEF new
  <2> QED  BY <2>1, <2>2, <1>2, <1>3
<1>6. ASSUME NEW x \in Tasks, EnsureJoined(x) \/ Join(x) \/ Snapshot(x)
      PROVE  task'[t] = task[t] \/ EnsureJoined(t) \/ Join(t) \/ Snapshot(t)
  <2>1. CASE x = t  BY <1>6, <2>1
  <2>2. CASE x # t  BY <1>0, <1>6, <2>2 DEF EnsureJoined, Join, Snapshot, Go
  <2> QED  BY <2>1, <2>2
<1>7. ASSUME NEW x \in Tasks, Finish(x) PROVE Rests \/ task'[t] = task[t]
  BY <1>2, <1>3, <1>7 DEF Finish
<1>8. ASSUME NEW x \in Tasks, task[x].pc # "idle", NEW pc \in {"enqueue", "waiting"}, Go(x, pc)
      PROVE  Rests \/ task'[t] = task[t]
  <2>1. task' = [task EXCEPT ![x] = [task[x] EXCEPT !.pc = pc]]  BY <1>8 DEF Go
  <2>2. [task[x] EXCEPT !.pc = pc].pc = pc
        /\ [task[x] EXCEPT !.pc = pc].informed = task[x].informed
    BY <1>1 DEF TaskStates
  <2> QED  BY <2>1, <2>2, <1>2, <1>3, <1>8
<1>9. ASSUME NEW x \in Tasks,
             JoinRefused(x) \/ BootstrapVoiceState(x) \/ Enqueue(x) \/ EnqueueSucceeds(x)
                \/ EnqueueFails(x)
      PROVE  Rests \/ task'[t] = task[t]
  BY <1>7, <1>8, <1>9
  DEF JoinRefused, BootstrapVoiceState, Enqueue, EnqueueSucceeds, EnqueueFails
<1>10. CASE ResetClears
  <2>1. task' = [x \in Tasks |-> IF task[x].pc = "waiting"
                                 THEN [task[x] EXCEPT !.expired = TRUE] ELSE task[x]]
    BY <1>10 DEF ResetClears
  <2>2. task'[t] = IF task[t].pc = "waiting"
                   THEN [task[t] EXCEPT !.expired = TRUE] ELSE task[t]
    BY <2>1
  <2>3. [task[t] EXCEPT !.expired = TRUE].pc = task[t].pc
        /\ [task[t] EXCEPT !.expired = TRUE].informed = task[t].informed
    BY <1>1 DEF TaskStates
  <2> QED  BY <2>2, <2>3, <1>3
<1>11. CASE Exit \/ Crash  BY <1>3, <1>11 DEF Exit, Crash, Ends
<1>12. ASSUME UNCHANGED task PROVE task'[t] = task[t]  BY <1>12
<1> QED
  BY <1>4, <1>5, <1>6, <1>9, <1>10, <1>11, <1>12
  DEF Next, vars, UserMoves, GuildCreate, DiscordAnswers, BotIsIn, ModeratorMoves, HandleOwn,
      HandlePeer, ResetLeaves, JoinSettles, JoinFails, TrackEnds, Boot, TakeFails, Signal,
      RestartSnapshot, Save, SaveFails

Tracked == Up /\ cached

\* A step that leaves the guild unseen tells of nobody and bootstraps nothing.
LEMMA UnseenStep ==
  ASSUME Typed, [Next]_vars, ~Tracked'
  PROVE  \/ Exit \/ Crash
         \/ /\ ~Tracked /\ (~Up' => ~Up)
            /\ \A i \in DOMAIN inbox' : inbox'[i].who # Bot
                 => \E k \in DOMAIN inbox : inbox[k].who # Bot
<1> DEFINE Quiet == \A i \in DOMAIN inbox' : inbox'[i].who # Bot
                       => \E k \in DOMAIN inbox : inbox[k].who # Bot
           Still == ~Tracked /\ (~Up' => ~Up) /\ Quiet
<1>0. inbox \in Seq(Handlers)  BY DEF Typed, TypeOK
<1>1. ASSUME UNCHANGED inbox PROVE Quiet  BY <1>1
<1>2. ASSUME UNCHANGED <<phase, cached>> PROVE ~Tracked /\ (~Up' => ~Up)
  BY <1>2 DEF Tracked, Up
<1>3. ASSUME NEW u \in Users, NEW c \in Places, UserMoves(u, c) PROVE Still
  <2>1. UNCHANGED <<phase, cached>>  BY <1>3 DEF UserMoves, process
  <2>2. ~(Up /\ cached)  BY <2>1, <1>2 DEF Tracked
  <2>3. UNCHANGED inbox  BY <1>3, <2>2 DEF UserMoves
  <2> QED  BY <2>1, <2>3, <1>1, <1>2
<1>4. ASSUME NEW c \in Places, BotIsIn(c), UNCHANGED phase PROVE Still
  <2> DEFINE e == [who |-> Bot, old |-> bot, new |-> c]
  <2>1. e \in Handlers /\ e.who = Bot
    <3>1. bot \in Places  BY DEF Typed, TypeOK
    <3> QED  BY <3>1 DEF Handlers
  <2>2. inbox' = inbox \/ inbox' = Append(inbox, e)  BY <1>4 DEF BotIsIn
  <2> HIDE DEF e
  <2>3. ASSUME inbox' = Append(inbox, e) PROVE Quiet
    <3>1. Len(inbox) \in Nat /\ DOMAIN inbox = 1..Len(inbox)
          /\ DOMAIN inbox' = 1..(Len(inbox) + 1)
          /\ (\A k \in 1..Len(inbox) : inbox'[k] = inbox[k]) /\ inbox'[Len(inbox) + 1] = e
      BY <1>0, <2>1, <2>3, EventAppended
    <3> QED  BY <3>1, <2>1
  <2>4. UNCHANGED cached  BY <1>4 DEF BotIsIn
  <2> QED  BY <2>2, <2>3, <2>4, <1>1, <1>2, <1>4
<1>9. CASE DiscordAnswers
  <2>1. Head(wire) \in Places
    BY <1>9, HeadTailProperties DEF Typed, TypeOK, DiscordAnswers
  <2>2. BotIsIn(Head(wire)) /\ UNCHANGED phase
    BY <1>9 DEF DiscordAnswers, BotIsIn, process
  <2>3. Still  BY <2>1, <2>2, <1>4
  <2> QED  BY <2>3
<1>5. ASSUME NEW i \in 1..MaxInbox, HandleOwn(i) \/ HandlePeer(i) PROVE Still
  <2>1. UNCHANGED <<phase, cached>>  BY <1>5 DEF HandleOwn, HandlePeer, process
  <2>2. i \in DOMAIN inbox /\ inbox' = RemoveAt(inbox, i)  BY <1>5 DEF HandleOwn, HandlePeer
  <2>3. \A k \in DOMAIN inbox' : \E l \in DOMAIN inbox : inbox'[k] = inbox[l]
    BY <1>0, <2>2, RemoveAtElements
  <2> QED  BY <2>1, <2>3, <1>2
<1>10. ASSUME NEW c \in Places, ModeratorMoves(c) PROVE Still
  BY <1>4, <1>10 DEF ModeratorMoves, BotIsIn, process
<1>6. CASE GuildCreate
  BY <1>6 DEF GuildCreate, Tracked, Up, process
<1>7. CASE Boot \/ Ready \/ TakeFails \/ Signal \/ RestartSnapshot \/ Save \/ SaveFails
  BY <1>1, <1>7 DEF Boot, Ready, TakeFails, Signal, RestartSnapshot, Save, SaveFails, Tracked, Up
<1>8. ASSUME UNCHANGED <<phase, cached, inbox>> PROVE Still  BY <1>1, <1>2, <1>8
<1> QED
  BY <1>3, <1>5, <1>6, <1>7, <1>8, <1>9, <1>10
  DEF Next, vars, process, ResetClears, ResetLeaves, PlayBegins,
      EnsureJoined, Join, JoinRefused, JoinSettles, JoinFails, Snapshot, BootstrapVoiceState,
      Enqueue, EnqueueSucceeds, EnqueueFails, TrackEnds

LEMMA StepWatched ==
  ASSUME Typed, Watched, [Next]_vars
  PROVE  Watched'
<1>1. CASE Exit \/ Crash
  <2>1. Idle.pc = "idle" /\ ~Idle.informed  BY DEF Idle
  <2>2. ~NoSession.informed  BY DEF NoSession
  <2>3. Ends  BY <1>1 DEF Exit, Crash
  <2>4. \A t \in Tasks : task'[t].pc = "idle" /\ ~task'[t].informed  BY <2>1, <2>3 DEF Ends
  <2>5. ~session'.informed /\ inbox' = << >>  BY <2>2, <2>3 DEF Ends
  <2> QED  BY <2>1, <2>4, <2>5 DEF Watched
<1>2. CASE ~(Exit \/ Crash)
  <2>1. ASSUME ~Up', NEW t \in Tasks PROVE task'[t].pc = "idle"
    <3>1. ~Up /\ task[t].pc = "idle"  BY <1>2, <2>1, UnseenStep DEF Tracked, Watched
    <3>2. ~(EnsureJoined(t) \/ Join(t) \/ Snapshot(t))
      BY <3>1 DEF EnsureJoined, Join, Snapshot
    <3> QED  BY <2>1, <3>1, <3>2, TaskStep
  <2>2. ASSUME ~Tracked' PROVE ~session'.informed
                               /\ (\A i \in DOMAIN inbox' : inbox'[i].who = Bot)
                               /\ (\A t \in Tasks : ~task'[t].informed)
    <3>1. ~Tracked  BY <1>2, <2>2, UnseenStep
    <3>2. ~session.informed /\ (\A i \in DOMAIN inbox : inbox[i].who = Bot)
          /\ (\A t \in Tasks : ~task[t].informed)
      BY <3>1 DEF Tracked, Watched
    <3>3. \A i \in DOMAIN inbox' : inbox'[i].who = Bot  BY <1>2, <2>2, <3>2, UnseenStep
    <3>4. ASSUME NEW t \in Tasks PROVE ~task'[t].informed
      <4>0. task \in [Tasks -> TaskStates] /\ task[t] \in TaskStates  BY DEF Typed, TypeOK
      <4>1. CASE EnsureJoined(t) \/ Join(t)
        <5>1. task'[t].informed = task[t].informed
          BY <4>0, <4>1 DEF EnsureJoined, Join, Go, TaskStates
        <5> QED  BY <5>1, <3>2
      <4>2. CASE Snapshot(t)
        <5>1. task[t].pc # "idle"  BY <4>2 DEF Snapshot
        <5>2. ~cached  BY <5>1, <3>1 DEF Tracked, Watched
        <5>3. task'[t].informed = cached  BY <4>0, <4>2 DEF Snapshot, TaskStates
        <5> QED  BY <5>2, <5>3
      <4> QED  BY <4>1, <4>2, <3>2, TaskStep
    <3>5. ~session'.informed
      <4>1. ASSUME NEW i \in 1..MaxInbox PROVE ~HandlePeer(i)  BY <3>2 DEF HandlePeer
      <4>2. ASSUME NEW t \in Tasks, BootstrapVoiceState(t) PROVE ~session'.informed
        BY <4>2, <3>2, Bootstrapped
      <4> QED  BY <4>1, <4>2, <3>2, IndexStep
    <3> QED  BY <3>3, <3>4, <3>5
  <2> QED  BY <2>1, <2>2 DEF Watched, Tracked
<1> QED  BY <1>1, <1>2

\* What was told stays told, and a step that moves a peer tells of it.
LEMMA ToldStep ==
  ASSUME Typed, orderly, Trails(inbox, where), [Next]_vars, Tracked'
  PROVE  /\ Trails(inbox', where')
         /\ \/ \E i \in 1..MaxInbox : HandlePeer(i)
            \/ \A peers : Heard(inbox, where, peers) => Heard(inbox', where', peers)
<1> DEFINE Told == /\ Trails(inbox', where')
                   /\ \A peers : Heard(inbox, where, peers) => Heard(inbox', where', peers)
<1>0. inbox \in Seq(Handlers) /\ where \in Maps /\ bot \in Places
  BY DEF Typed, TypeOK, Maps
<1>1. ASSUME NEW u \in Users, NEW c \in Places, UserMoves(u, c) PROVE Told
  <2>1. Up /\ cached  BY <1>1 DEF Tracked, Up, UserMoves, process
  <2> DEFINE e == [who |-> u, old |-> where[u], new |-> c]
  <2>2. inbox' = Append(inbox, e) /\ where' = [where EXCEPT ![u] = c]
    BY <1>1, <2>1 DEF UserMoves
  <2>3. e \in Handlers  BY <1>0 DEF Handlers, Maps
  <2> QED  BY <2>2, <2>3, <1>0, PeerEventTold
<1>2. ASSUME NEW c \in Places, BotIsIn(c) PROVE Told
  <2> DEFINE e == [who |-> Bot, old |-> bot, new |-> c]
  <2>1. (inbox' = inbox \/ inbox' = Append(inbox, e)) /\ where' = where  BY <1>2 DEF BotIsIn
  <2>2. e \in Handlers /\ e.who = Bot  BY <1>0 DEF Handlers
  <2> HIDE DEF e
  <2>3. \A u : StillMoves(inbox, u) => StillMoves(Append(inbox, e), u)
    BY <1>0, <2>2, AppendKeepsMoves
  <2>4. Trails(Append(inbox, e), where)  BY <1>0, <2>2, BotEventTold
  <2> QED  BY <2>1, <2>3, <2>4 DEF Heard
<1>3. CASE DiscordAnswers
  <2>1. Head(wire) \in Places
    BY <1>3, HeadTailProperties DEF Typed, TypeOK, DiscordAnswers
  <2> QED  BY <2>1, <1>2, <1>3 DEF DiscordAnswers
<1>4. ASSUME NEW i \in 1..MaxInbox, HandleOwn(i) \/ HandlePeer(i)
      PROVE  /\ Trails(inbox', where')
             /\ HandleOwn(i) => Told
  <2>1. i = 1 /\ 1 \in DOMAIN inbox /\ inbox' = RemoveAt(inbox, 1) /\ where' = where
    BY <1>4 DEF HandleOwn, HandlePeer, Turn, discord
  <2>2. Trails(inbox', where')  BY <2>1, <1>0, HeadHandled
  <2>3. ASSUME HandleOwn(i), NEW peers, Heard(inbox, where, peers), NEW u \in Users
        PROVE  peers[u] = where'[u] \/ StillMoves(inbox', u)
    <3>1. inbox[1].who = Bot /\ Bot \notin Users
      BY <2>1, <2>3, GatewayAssumption DEF HandleOwn
    <3>2. ~Moves(inbox, u, 1)  BY <3>1 DEF Moves
    <3> QED  BY <2>1, <2>3, <3>2, <1>0, HeadHandled DEF Heard
  <2> QED  BY <2>2, <2>3 DEF Heard
<1>5. ASSUME UNCHANGED <<inbox, where>> PROVE Told  BY <1>5
<1>6. ~Exit /\ ~Crash  BY DEF Exit, Crash, Ends, Tracked, Up
<1> QED
  BY <1>1, <1>2, <1>3, <1>4, <1>5, <1>6
  DEF Next, vars, discord, GuildCreate, ModeratorMoves, ResetClears, ResetLeaves, PlayBegins,
      EnsureJoined, Join, JoinRefused, JoinSettles, JoinFails, Snapshot, BootstrapVoiceState,
      Enqueue, EnqueueSucceeds, EnqueueFails, TrackEnds, Boot, Ready, TakeFails, Signal,
      RestartSnapshot, Save, SaveFails

\* A handled event of a peer leaves the index right about it, or its later move
\* is still under way.
LEMMA PeerHandled ==
  ASSUME Typed, orderly, PeersFit, NEW i, HandlePeer(i),
         session'.informed, session'.index.bootstrapped
  PROVE  Heard(inbox', where', session'.index.peers)
<1> DEFINE e == inbox[1]
           known == session.index
           index == ApplyPeer(known, e.who, e.old, e.new)
<1>1. 1 \in DOMAIN inbox /\ e.who # Bot /\ inbox' = RemoveAt(inbox, 1) /\ where' = where
  BY DEF HandlePeer, Turn, discord
<1>2. inbox \in Seq(Handlers) /\ where \in Maps /\ session \in Sessions /\ known \in Indexes
  BY DEF Typed, TypeOK, Maps, Sessions
<1>3. e.who \in Users /\ e.old \in Places /\ e.new \in Places
  BY <1>1, EventTyped DEF Typed
<1>4. i = 1 /\ session.live /\ session' = [session EXCEPT !.index = index]
  <2>1. i = 1  BY DEF HandlePeer, Turn
  <2>2. CASE ~session.live
    BY <2>2, TypedFits DEF HandlePeer, SessionFits, EmptyIndex
  <2>3. CASE session.live  BY <2>1, <2>3 DEF HandlePeer
  <2> QED  BY <2>1, <2>2, <2>3
<1> HIDE DEF index
<1>5. session'.index = index /\ session'.informed = session.informed
  BY <1>2, <1>4 DEF Sessions
<1>6. known.bootstrapped /\ Heard(inbox, where, known.peers)
  <2>1. known.bootstrapped /\ session.informed  BY <1>2, <1>5 DEF index, ApplyPeer
  <2> QED  BY <2>1 DEF PeersFit
<1> HIDE DEF known
<1>7. \/ index.peers = [known.peers EXCEPT ![e.who] = e.new]
      \/ index.peers = known.peers /\ (known.peers[e.who] = e.new \/ e.old = e.new)
  <2>1. CASE EffectiveOld(known, e.who, e.old) = e.new
    BY <2>1 DEF EffectiveOld, index, ApplyPeer
  <2>2. CASE EffectiveOld(known, e.who, e.old) # e.new
    BY <2>2, <1>2, <1>3, <1>6 DEF index, ApplyPeer, SetPeerChannel, Indexes
  <2> QED  BY <2>1, <2>2
<1>8. Trails(inbox, where)  BY DEF PeersFit
<1>9. /\ \A u : StillMoves(inbox, u) /\ ~Moves(inbox, u, 1) => StillMoves(inbox', u)
      /\ e.new = where[e.who] \/ StillMoves(inbox', e.who)
  BY <1>1, <1>2, <1>8, HeadHandled
<1>10. ASSUME NEW u \in Users PROVE index.peers[u] = where[u] \/ StillMoves(inbox', u)
  <2>0. known.peers \in [Users -> Places]  BY <1>2 DEF Indexes
  <2>1. CASE u = e.who
    <3>1. CASE index.peers[u] = e.new  BY <3>1, <2>1, <1>9
    <3>2. CASE index.peers[u] # e.new
      <4>1. index.peers = known.peers /\ e.old = e.new
        BY <3>2, <2>0, <2>1, <1>3, <1>7
      <4>2. ~Moves(inbox, u, 1)  BY <4>1 DEF Moves
      <4> QED  BY <4>1, <4>2, <1>6, <1>9 DEF Heard
    <3> QED  BY <3>1, <3>2
  <2>2. CASE u # e.who
    <3>1. index.peers[u] = known.peers[u]  BY <2>0, <2>2, <1>3, <1>7
    <3>2. ~Moves(inbox, u, 1)  BY <2>2 DEF Moves
    <3> QED  BY <3>1, <3>2, <1>6, <1>9 DEF Heard
  <2> QED  BY <2>1, <2>2
<1> QED  BY <1>1, <1>5, <1>10 DEF Heard

LEMMA StepPeers ==
  ASSUME Typed, orderly, Watched, PeersFit, [Next]_vars
  PROVE  PeersFit'
<1>0. Watched'  BY StepWatched
<1>1. CASE ~Tracked'
  <2>1. Trails(inbox', where')  BY <1>0, <1>1 DEF Watched, Tracked, Trails
  <2> QED  BY <2>1, <1>0, <1>1 DEF Watched, Tracked, PeersFit, Joining
<1>2. CASE Tracked'
  <2> DEFINE Told == \A peers : Heard(inbox, where, peers) => Heard(inbox', where', peers)
  <2>1. Trails(inbox', where') /\ ((\E i \in 1..MaxInbox : HandlePeer(i)) \/ Told)
    BY <1>2, ToldStep DEF PeersFit
  <2> HIDE DEF Told
  <2>2. ASSUME NEW t \in Tasks, task'[t].pc = "bootstrap", task'[t].informed
        PROVE  Heard(inbox', where', task'[t].seen)
    <3>1. CASE Snapshot(t)
      <4>1. UNCHANGED <<inbox, where>>  BY <3>1 DEF Snapshot, discord
      <4>2. task \in [Tasks -> TaskStates] /\ task[t] \in TaskStates  BY DEF Typed, TypeOK
      <4>3. task'[t].informed = cached  BY <3>1, <4>2 DEF Snapshot, TaskStates
      <4>4. task'[t].seen = where  BY <2>2, <3>1, <4>2, <4>3 DEF Snapshot, TaskStates
      <4> QED  BY <4>1, <4>4 DEF Heard
    <3>2. CASE task'[t] = task[t]
      <4>1. Heard(inbox, where, task[t].seen)  BY <2>2, <3>2 DEF PeersFit
      <4>2. ASSUME NEW i, HandlePeer(i) PROVE FALSE
        <5>1. task[t].pc = "bootstrap"  BY <2>2, <3>2
        <5> QED  BY <5>1, <4>2 DEF HandlePeer, Turn, Prompt
      <4> QED  BY <2>1, <3>2, <4>1, <4>2 DEF Told
    <3>3. CASE EnsureJoined(t) \/ Join(t)
      <4>1. task \in [Tasks -> TaskStates] /\ task[t] \in TaskStates  BY DEF Typed, TypeOK
      <4>2. task'[t].pc # "bootstrap"  BY <3>3, <4>1 DEF EnsureJoined, Join, Go, TaskStates
      <4> QED  BY <4>2, <2>2
    <3>4. task'[t].pc \in Joining  BY <2>2 DEF Joining
    <3> QED  BY <3>1, <3>2, <3>3, <3>4, TaskStep
  <2>3. ASSUME session'.informed, session'.index.bootstrapped
        PROVE  Heard(inbox', where', session'.index.peers)
    <3>1. ASSUME NEW i \in 1..MaxInbox, HandlePeer(i)
          PROVE  Heard(inbox', where', session'.index.peers)
      BY <2>3, <3>1, PeerHandled
    <3>2. ASSUME NEW t \in Tasks, BootstrapVoiceState(t)
          PROVE  Heard(inbox', where', session'.index.peers)
      <4>1. session'.index.peers = task[t].seen /\ task[t].informed
        <5>1. session'.index = Bootstrap(task[t].channel, task[t].seen)
              /\ session'.informed = task[t].informed
          BY <3>2, Bootstrapped
        <5> QED  BY <5>1, <2>3 DEF Bootstrap
      <4>2. Heard(inbox, where, task[t].seen) /\ UNCHANGED <<inbox, where>>
        BY <3>2, <4>1 DEF BootstrapVoiceState, PeersFit, discord
      <4> QED  BY <4>1, <4>2
    <3>3. ASSUME session'.informed = session.informed,
                 session'.index.bootstrapped = session.index.bootstrapped,
                 session'.index.peers = session.index.peers
          PROVE  Heard(inbox', where', session'.index.peers)
      <4>1. Heard(inbox, where, session.index.peers)  BY <2>3, <3>3 DEF PeersFit
      <4> QED  BY <4>1, <2>1, <3>1, <3>3 DEF Told
    <3> QED  BY <2>3, <3>1, <3>2, <3>3, IndexStep
  <2> QED  BY <2>1, <2>2, <2>3 DEF PeersFit
<1> QED  BY <1>1, <1>2

LEMMA NoMovesKnown ==
  ASSUME Typed, orderly => PeersFit PROVE OccupancyFollows
<1> SUFFICES ASSUME orderly, session.informed, session.index.bootstrapped,
                    \A i \in DOMAIN inbox : inbox[i].who = Bot
             PROVE  session.index.peers = where
  BY DEF OccupancyFollows
<1>1. Heard(inbox, where, session.index.peers)  BY DEF PeersFit
<1>2. \A u \in Users : ~StillMoves(inbox, u)  BY GatewayAssumption DEF StillMoves, Moves
<1>3. \A u \in Users : session.index.peers[u] = where[u]  BY <1>1, <1>2 DEF Heard
<1>4. session.index.peers \in [Users -> Places] /\ where \in [Users -> Places]
  BY DEF Typed, TypeOK, Sessions, Indexes
<1> QED  BY <1>3, <1>4

FollowInv == Watched /\ (orderly => PeersFit)

LEMMA InitFollow == Init => FollowInv
<1> SUFFICES ASSUME Init PROVE FollowInv  OBVIOUS
<1>1. ~session.informed  BY DEF Init, NoSession
<1>2. \A t \in Tasks : task[t].pc = "idle" /\ ~task[t].informed  BY DEF Init, Idle
<1>3. inbox = << >>  BY DEF Init
<1>4. Watched  BY <1>1, <1>2, <1>3 DEF Watched
<1>5. PeersFit  BY <1>1, <1>2, <1>3 DEF PeersFit, Trails
<1> QED  BY <1>4, <1>5 DEF FollowInv

LEMMA OrderFrozen == [Next]_vars => orderly' = orderly
  BY DEF Next, vars, UserMoves, GuildCreate, DiscordAnswers, BotIsIn,
         ModeratorMoves, HandleOwn,
      HandlePeer, ResetClears, ResetLeaves, PlayBegins, EnsureJoined, Join, JoinRefused,
      JoinSettles, JoinFails, Snapshot, BootstrapVoiceState, Enqueue, EnqueueSucceeds,
      EnqueueFails, TrackEnds, Boot, Ready, TakeFails, Signal, RestartSnapshot, Save,
      SaveFails, Exit, Crash, Ends

LEMMA Followed == Spec => []FollowInv
<1>1. ASSUME IInv, FollowInv, [Next]_vars PROVE FollowInv'
  <2>1. Typed  BY <1>1 DEF IInv
  <2>2. Watched'  BY <2>1, <1>1, StepWatched DEF FollowInv
  <2>3. orderly' => orderly  BY <1>1, OrderFrozen
  <2>4. orderly => PeersFit'
    BY <2>1, <1>1, StepPeers DEF FollowInv
  <2> QED  BY <2>2, <2>3, <2>4 DEF FollowInv
<1> QED  BY <1>1, InitFollow, Inductive, PTL DEF Spec

\* When handlers run in the order of their events, an index that was bootstrapped
\* from a cache that had the guild is where the peers are as soon as no peer event
\* waits, for any number of peers, channels, commands, resets and restarts.
THEOREM OccupancyAlwaysFollows == Spec => []OccupancyFollows
<1>1. IInv /\ FollowInv => OccupancyFollows  BY NoMovesKnown DEF IInv, FollowInv
<1> QED  BY <1>1, Followed, Inductive, PTL

-----------------------------------------------------------------------------
(* The records of where the bot is: each is right, or what will put it      *)
(* right is under way.                                                      *)

OwnEvent(q, k) == k \in DOMAIN q /\ q[k].who = Bot

\* Discord will tell the handlers where the bot is.
Coming == \/ \E k : OwnEvent(inbox, k)
          \/ \E k \in DOMAIN wire : wire[k] # NoChannel
          \/ wire # << >> /\ bot # NoChannel

\* Where the bot is once Discord has answered everything.
Goal == IF wire = << >> THEN bot ELSE wire[Len(wire)]

Resetting == clears > 0 \/ leaves > 0

\* The events of the bot end where it is.
OwnTrail == \A i : OwnEvent(inbox, i) => inbox[i].new = bot \/ \E k : k > i /\ OwnEvent(inbox, k)

\* A call that is on is where the bot is going; one that is off is left behind
\* only with something under way that removes it.
CallFits ==
    /\ call = "absent" => Goal = NoChannel
    /\ call \in Channels => Goal # NoChannel /\ (wire = << >> => call = bot)
    /\ call \in Channels /\ bot = NoChannel => joins > 0
    /\ joins > 0 => call \in Channels
    /\ stranded => call = "idle"
    /\ call = "idle" => \/ Goal = NoChannel \/ Resetting \/ lost > 0 \/ stranded
                        \/ \E k : OwnEvent(inbox, k) /\ inbox[k].new = NoChannel

\* What a command is about to record.
JoinersFit == \A t \in Tasks : task[t].pc \in {"joined", "bootstrap"}
                => task[t].channel = bot \/ Coming

ActiveFits == active = bot \/ Coming \/ (active = NoChannel /\ (Resetting \/ stranded))

IndexFits == \/ session.index.bot = bot \/ Coming
             \/ session.index.bot = NoChannel /\ (leaves > 0 \/ stranded)

PlacesFit == OwnTrail /\ CallFits /\ JoinersFit /\ ActiveFits /\ IndexFits

LEMMA TailFacts ==
  ASSUME NEW S, NEW s \in Seq(S), s # << >>
  PROVE  /\ Head(s) = s[1] /\ Head(s) \in S /\ Tail(s) \in Seq(S)
         /\ Len(s) \in Nat /\ Len(s) > 0 /\ DOMAIN s = 1..Len(s)
         /\ DOMAIN Tail(s) = 1..(Len(s) - 1) /\ Len(Tail(s)) = Len(s) - 1
         /\ \A k \in 1..(Len(s) - 1) : Tail(s)[k] = s[k + 1]
         /\ (Tail(s) = << >> <=> Len(s) = 1)
<1>1. Len(s) \in Nat /\ Len(s) > 0 /\ DOMAIN s = 1..Len(s)  BY EmptySeq
<1>2. Head(s) = s[1] /\ Head(s) \in S  BY <1>1
<1>3. Tail(s) \in Seq(S) /\ Len(Tail(s)) = Len(s) - 1
      /\ \A k \in 1..(Len(s) - 1) : Tail(s)[k] = s[k + 1]
  BY <1>1, HeadTailProperties
<1>4. DOMAIN Tail(s) = 1..(Len(s) - 1)  BY <1>3
<1>5. Tail(s) = << >> => Len(s) = 1
  <2>1. Tail(s) = << >> => Len(Tail(s)) = 0  BY EmptySeq
  <2> QED  BY <1>1, <1>3, <2>1
<1>6. Len(s) = 1 => Tail(s) = << >>
  <2>1. Tail(s) # << >> => Len(Tail(s)) # 0  BY <1>3, EmptySeq
  <2> QED  BY <1>1, <1>3, <2>1
<1> QED  BY <1>1, <1>2, <1>3, <1>4, <1>5, <1>6

LEMMA RequestFacts ==
  ASSUME NEW S, NEW s \in Seq(S), NEW e \in S
  PROVE  /\ Append(s, e) # << >> /\ Append(s, e)[Len(Append(s, e))] = e
         /\ Len(Append(s, e)) \in DOMAIN Append(s, e)
         /\ \A k \in DOMAIN s : k \in DOMAIN Append(s, e) /\ Append(s, e)[k] = s[k]
  OBVIOUS

\* What an event does to the bot's own events.
LEMMA OwnAppended ==
  ASSUME Typed, NEW e \in Handlers, inbox' = Append(inbox, e)
  PROVE  /\ \A k : OwnEvent(inbox, k) => OwnEvent(inbox', k) /\ inbox'[k] = inbox[k]
         /\ \A k : OwnEvent(inbox', k) => OwnEvent(inbox, k) \/ k = Len(inbox) + 1
         /\ e.who = Bot => OwnEvent(inbox', Len(inbox) + 1) /\ inbox'[Len(inbox) + 1] = e
         /\ e.who # Bot => ~OwnEvent(inbox', Len(inbox) + 1)
         /\ Len(inbox) \in Nat /\ DOMAIN inbox = 1..Len(inbox)
<1>1. inbox \in Seq(Handlers)  BY DEF Typed, TypeOK
<1>2. Len(inbox) \in Nat /\ DOMAIN inbox = 1..Len(inbox)
      /\ DOMAIN inbox' = 1..(Len(inbox) + 1)
      /\ (\A k \in 1..Len(inbox) : inbox'[k] = inbox[k]) /\ inbox'[Len(inbox) + 1] = e
  BY <1>1, EventAppended
<1>3. \A k : OwnEvent(inbox', k) => OwnEvent(inbox, k) \/ k = Len(inbox) + 1
  <2>1. ASSUME NEW k, OwnEvent(inbox', k), k # Len(inbox) + 1 PROVE OwnEvent(inbox, k)
    <3>1. k \in 1..Len(inbox)  BY <1>2, <2>1 DEF OwnEvent
    <3> QED  BY <3>1, <1>2, <2>1 DEF OwnEvent
  <2> QED  BY <2>1
<1>4. \A k : OwnEvent(inbox, k) => OwnEvent(inbox', k) /\ inbox'[k] = inbox[k]
  BY <1>2 DEF OwnEvent
<1>5. Len(inbox) + 1 \in DOMAIN inbox' /\ inbox'[Len(inbox) + 1] = e  BY <1>2
<1>6. OwnEvent(inbox', Len(inbox) + 1) <=> e.who = Bot  BY <1>5 DEF OwnEvent
<1> QED  BY <1>2, <1>3, <1>4, <1>5, <1>6

LEMMA OwnHeadRemoved ==
  ASSUME Typed, 1 \in DOMAIN inbox, inbox' = RemoveAt(inbox, 1)
  PROVE  /\ \A k : OwnEvent(inbox, k) /\ k # 1
                  => k > 1 /\ OwnEvent(inbox', k - 1) /\ inbox'[k - 1] = inbox[k]
         /\ \A k : OwnEvent(inbox', k)
                  => OwnEvent(inbox, k + 1) /\ inbox'[k] = inbox[k + 1] /\ k \in Nat
         /\ DOMAIN inbox \subseteq Nat
<1>1. inbox \in Seq(Handlers)  BY DEF Typed, TypeOK
<1>2. Len(inbox) \in Nat /\ DOMAIN inbox = 1..Len(inbox)
      /\ DOMAIN inbox' = 1..(Len(inbox) - 1)
      /\ \A k \in 1..(Len(inbox) - 1) : inbox'[k] = inbox[k + 1]
  BY <1>1, HeadRemoved
<1>3. ASSUME NEW k, OwnEvent(inbox, k), k # 1
      PROVE  k > 1 /\ OwnEvent(inbox', k - 1) /\ inbox'[k - 1] = inbox[k]
  <2>1. k \in 1..Len(inbox) /\ k > 1 /\ k - 1 \in 1..(Len(inbox) - 1) /\ (k - 1) + 1 = k
    BY <1>2, <1>3 DEF OwnEvent
  <2>2. inbox'[k - 1] = inbox[k]  BY <2>1, <1>2
  <2> QED  BY <2>1, <2>2, <1>2, <1>3 DEF OwnEvent
<1>4. ASSUME NEW k, OwnEvent(inbox', k)
      PROVE  OwnEvent(inbox, k + 1) /\ inbox'[k] = inbox[k + 1] /\ k \in Nat
  <2>1. k \in 1..(Len(inbox) - 1) /\ k + 1 \in 1..Len(inbox)
    BY <1>2, <1>4 DEF OwnEvent
  <2> QED  BY <2>1, <1>2, <1>4 DEF OwnEvent
<1> QED  BY <1>2, <1>3, <1>4

\* What Discord does to the bot, it tells.
LEMMA BotTold ==
  ASSUME Typed, NEW c \in Places, BotIsIn(c)
  PROVE  /\ bot' = c
         /\ \/ c = NoChannel /\ bot = NoChannel /\ UNCHANGED inbox
            \/ /\ \A k : OwnEvent(inbox, k) => OwnEvent(inbox', k) /\ inbox'[k] = inbox[k]
               /\ \A k : OwnEvent(inbox', k) => OwnEvent(inbox, k) \/ k = Len(inbox) + 1
               /\ OwnEvent(inbox', Len(inbox) + 1) /\ inbox'[Len(inbox) + 1].new = c
               /\ Len(inbox) \in Nat /\ DOMAIN inbox = 1..Len(inbox)
<1> DEFINE e == [who |-> Bot, old |-> bot, new |-> c]
<1>1. e \in Handlers /\ e.who = Bot /\ e.new = c
  <2>1. bot \in Places  BY DEF Typed, TypeOK
  <2> QED  BY <2>1 DEF Handlers
<1>2. /\ bot' = c
      /\ \/ c = NoChannel /\ bot = NoChannel /\ UNCHANGED inbox
         \/ inbox' = Append(inbox, e)
  BY DEF BotIsIn
<1> HIDE DEF e
<1> QED  BY <1>1, <1>2, OwnAppended

LEMMA AnswerFacts ==
  ASSUME Typed, DiscordAnswers
  PROVE  /\ Head(wire) \in Places /\ BotIsIn(Head(wire)) /\ wire # << >> /\ wire' = Tail(wire)
         /\ Goal' = Goal
         /\ Head(wire) = NoChannel /\ (\E k \in DOMAIN wire : wire[k] # NoChannel)
              => \E k \in DOMAIN wire' : wire'[k] # NoChannel
<1>1. wire \in Seq(Places) /\ wire # << >> /\ wire' = Tail(wire) /\ BotIsIn(Head(wire))
  BY DEF Typed, TypeOK, DiscordAnswers
<1>2. bot' = Head(wire)  BY <1>1 DEF BotIsIn
<1>3. /\ Head(wire) = wire[1] /\ Head(wire) \in Places /\ Len(wire) \in Nat /\ Len(wire) > 0
      /\ DOMAIN wire = 1..Len(wire) /\ DOMAIN wire' = 1..(Len(wire) - 1)
      /\ Len(wire') = Len(wire) - 1
      /\ \A k \in 1..(Len(wire) - 1) : wire'[k] = wire[k + 1]
      /\ (wire' = << >> <=> Len(wire) = 1)
  BY <1>1, TailFacts
<1>4. Goal' = Goal
  <2>1. CASE Len(wire) = 1  BY <2>1, <1>1, <1>2, <1>3 DEF Goal
  <2>2. CASE Len(wire) # 1
    <3>1. Len(wire) - 1 \in 1..(Len(wire) - 1) /\ (Len(wire) - 1) + 1 = Len(wire)
      BY <2>2, <1>3
    <3>2. wire'[Len(wire')] = wire[Len(wire)]  BY <3>1, <1>3
    <3> QED  BY <3>2, <2>2, <1>1, <1>3 DEF Goal
  <2> QED  BY <2>1, <2>2
<1>5. ASSUME Head(wire) = NoChannel, NEW k \in DOMAIN wire, wire[k] # NoChannel
      PROVE  \E l \in DOMAIN wire' : wire'[l] # NoChannel
  <2>1. k # 1  BY <1>3, <1>5
  <2>2. k - 1 \in 1..(Len(wire) - 1) /\ (k - 1) + 1 = k  BY <2>1, <1>3, <1>5
  <2>3. wire'[k - 1] = wire[k]  BY <2>2, <1>3
  <2> QED  BY <2>2, <2>3, <1>3, <1>5
<1> QED  BY <1>1, <1>3, <1>4, <1>5

\* A request keeps what is under way.
LEMMA RequestKeeps ==
  ASSUME Typed, NEW c \in Places, Request(c), UNCHANGED <<bot, inbox>>
  PROVE  /\ Coming => Coming'
         /\ Goal' = c /\ wire' # << >> /\ (c # NoChannel => Coming')
         /\ bot # NoChannel => Coming'
<1>1. wire \in Seq(Places) /\ wire' = Append(wire, c)  BY DEF Typed, TypeOK, Request
<1>2. /\ wire' # << >> /\ wire'[Len(wire')] = c /\ Len(wire') \in DOMAIN wire'
      /\ \A k \in DOMAIN wire : k \in DOMAIN wire' /\ wire'[k] = wire[k]
  BY <1>1, RequestFacts
<1>3. \A k : OwnEvent(inbox, k) => OwnEvent(inbox', k)  BY DEF OwnEvent
<1> QED  BY <1>2, <1>3 DEF Coming, Goal

LEMMA RemoveCallFacts ==
  ASSUME Typed, CallFits, LeaveCall \/ LeaveRefused, UNCHANGED <<bot, inbox>>
  PROVE  /\ Coming => Coming'
         /\ \/ call' = "idle" /\ stranded' /\ Goal' = Goal
            \/ /\ call' = "absent" /\ ~stranded' /\ Goal' = NoChannel
               /\ bot' = NoChannel \/ Coming'
<1>1. NoChannel \in Places  BY ConstantsTyped
<1>2. CASE LeaveCall /\ call = "absent"
  <2>1. UNCHANGED wire /\ call' = "absent" /\ ~stranded'  BY <1>2 DEF LeaveCall
  <2>2. Goal = NoChannel /\ Goal' = Goal  BY <2>1, <1>2 DEF CallFits, Goal
  <2>3. Coming = Coming'  BY <2>1 DEF Coming, OwnEvent
  <2>4. bot = NoChannel \/ Coming  BY <2>2 DEF Goal, Coming
  <2> QED  BY <2>1, <2>2, <2>3, <2>4
<1>3. CASE LeaveCall /\ call # "absent"
  <2>1. Request(NoChannel) /\ call' = "absent" /\ ~stranded'  BY <1>3 DEF LeaveCall
  <2> QED  BY <2>1, <1>1, RequestKeeps
<1>4. CASE LeaveRefused
  <2>1. UNCHANGED wire /\ call' = "idle" /\ stranded'  BY <1>4 DEF LeaveRefused
  <2>2. Coming = Coming'  BY <2>1 DEF Coming, OwnEvent
  <2>3. Goal' = Goal  BY <2>1 DEF Goal
  <2> QED  BY <2>1, <2>2, <2>3
<1> QED  BY <1>2, <1>3, <1>4

\* Only handling it takes an event of the bot away.
LEMMA ComingStep ==
  ASSUME Typed, orderly, CallFits, [Next]_vars, \A i \in 1..MaxInbox : ~HandleOwn(i),
         ~Exit, ~Crash
  PROVE  (Coming => Coming') /\ (bot' = bot \/ Coming')
<1> DEFINE Kept == (Coming => Coming') /\ (bot' = bot \/ Coming')
<1>1. ASSUME UNCHANGED <<bot, wire>>, \A k : OwnEvent(inbox, k) => \E l : OwnEvent(inbox', l)
      PROVE  Kept
  BY <1>1 DEF Coming
<1>2. ASSUME NEW u \in Users, NEW c \in Places, UserMoves(u, c) PROVE Kept
  <2> DEFINE e == [who |-> u, old |-> where[u], new |-> c]
  <2>1. e \in Handlers
    <3>1. where[u] \in Places  BY DEF Typed, TypeOK
    <3> QED  BY <3>1 DEF Handlers
  <2>2. inbox' = Append(inbox, e) \/ inbox' = inbox  BY <1>2 DEF UserMoves
  <2> HIDE DEF e
  <2>3. \A k : OwnEvent(inbox, k) => OwnEvent(inbox', k)  BY <2>1, <2>2, OwnAppended
  <2>4. UNCHANGED <<bot, wire>>  BY <1>2 DEF UserMoves
  <2> QED  BY <2>3, <2>4, <1>1
<1>3. CASE DiscordAnswers
  <2>1. Head(wire) \in Places /\ BotIsIn(Head(wire))  BY <1>3, AnswerFacts
  <2>2. CASE Head(wire) = NoChannel /\ bot = NoChannel /\ UNCHANGED inbox
    <3>1. bot' = bot  BY <2>1, <2>2 DEF BotIsIn
    <3>2. ASSUME NEW k, OwnEvent(inbox, k) PROVE Coming'  BY <2>2, <3>2 DEF Coming
    <3>3. ASSUME \E k \in DOMAIN wire : wire[k] # NoChannel PROVE Coming'
      BY <1>3, <2>2, <3>3, AnswerFacts DEF Coming
    <3> QED  BY <3>1, <3>2, <3>3, <2>2 DEF Coming
  <2>3. CASE ~(Head(wire) = NoChannel /\ bot = NoChannel /\ UNCHANGED inbox)
    <3>1. OwnEvent(inbox', Len(inbox) + 1)  BY <2>1, <2>3, BotTold
    <3> QED  BY <3>1 DEF Coming
  <2> QED  BY <2>2, <2>3
<1>4. ASSUME NEW c \in Places, ModeratorMoves(c) PROVE Kept
  <2>1. BotIsIn(c) /\ bot # NoChannel  BY <1>4 DEF ModeratorMoves
  <2>2. OwnEvent(inbox', Len(inbox) + 1)  BY <2>1, BotTold
  <2> QED  BY <2>2 DEF Coming
<1>5. ASSUME NEW i \in 1..MaxInbox, HandlePeer(i) PROVE Kept
  <2>1. 1 \in DOMAIN inbox /\ inbox' = RemoveAt(inbox, 1) /\ inbox[1].who # Bot
        /\ UNCHANGED <<bot, wire>>
    BY <1>5 DEF HandlePeer, Turn, discord
  <2>2. ASSUME NEW k, OwnEvent(inbox, k) PROVE OwnEvent(inbox', k - 1)
    <3>1. k # 1  BY <2>1, <2>2 DEF OwnEvent
    <3> QED  BY <3>1, <2>1, <2>2, OwnHeadRemoved
  <2> QED  BY <2>1, <2>2, <1>1
<1>6. ASSUME NEW t \in Tasks, Join(t) PROVE Kept
  <2>1. task[t].channel \in Places  BY DEF Typed, TypeOK, TaskStates
  <2>2. Request(task[t].channel) /\ UNCHANGED <<bot, inbox>>  BY <1>6 DEF Join
  <2> QED  BY <2>1, <2>2, RequestKeeps
<1>7. CASE ResetLeaves \/ JoinFails
  <2>1. UNCHANGED <<bot, inbox>> /\ (LeaveCall \/ LeaveRefused)
    BY <1>7, RemoveCallKinds DEF ResetLeaves, JoinFails
  <2> QED  BY <2>1, RemoveCallFacts
<1>8. ASSUME UNCHANGED <<discord, inbox>> PROVE Kept  BY <1>1, <1>8 DEF discord
<1> QED
  BY <1>2, <1>3, <1>4, <1>5, <1>6, <1>7, <1>8
  DEF Next, vars, discord, GuildCreate, ResetClears, PlayBegins, EnsureJoined, JoinRefused,
      JoinSettles, Snapshot, BootstrapVoiceState, Enqueue, EnqueueSucceeds, EnqueueFails,
      TrackEnds, Boot, Ready, TakeFails, Signal, RestartSnapshot, Save, SaveFails

\* The handler of the bot's own event is told where the bot is, unless a later
\* event waits.
LEMMA OwnHandled ==
  ASSUME Typed, orderly, OwnTrail, NEW i, HandleOwn(i)
  PROVE  /\ i = 1 /\ UNCHANGED <<bot, wire>>
         /\ 1 \in DOMAIN inbox /\ OwnEvent(inbox, 1) /\ inbox' = RemoveAt(inbox, 1)
         /\ inbox[1].new = bot' \/ Coming'
<1>1. i = 1 /\ UNCHANGED <<bot, wire>> /\ 1 \in DOMAIN inbox /\ inbox' = RemoveAt(inbox, 1)
      /\ OwnEvent(inbox, 1)
  BY DEF HandleOwn, Turn, discord, OwnEvent
<1>2. ASSUME NEW k, k > 1, OwnEvent(inbox, k) PROVE Coming'
  <2>1. k # 1  BY <1>2
  <2>2. OwnEvent(inbox', k - 1)  BY <1>1, <1>2, <2>1, OwnHeadRemoved
  <2> QED  BY <2>2 DEF Coming
<1> QED  BY <1>1, <1>2 DEF OwnTrail

LEMMA StepOwnTrail ==
  ASSUME Typed, orderly, OwnTrail, [Next]_vars PROVE OwnTrail'
<1>1. ASSUME UNCHANGED <<bot, inbox>> PROVE OwnTrail'  BY <1>1 DEF OwnTrail
<1>2. ASSUME NEW u \in Users, NEW c \in Places, UserMoves(u, c) PROVE OwnTrail'
  <2> DEFINE e == [who |-> u, old |-> where[u], new |-> c]
  <2>1. e \in Handlers /\ e.who # Bot
    <3>1. where[u] \in Places  BY DEF Typed, TypeOK
    <3> QED  BY <3>1, GatewayAssumption DEF Handlers
  <2>2. (inbox' = Append(inbox, e) \/ inbox' = inbox) /\ bot' = bot  BY <1>2 DEF UserMoves
  <2> HIDE DEF e
  <2>3. CASE inbox' = inbox  BY <2>2, <2>3, <1>1
  <2>4. CASE inbox' = Append(inbox, e)
    <3>1. \A k : OwnEvent(inbox, k) => OwnEvent(inbox', k) /\ inbox'[k] = inbox[k]
      BY <2>1, <2>4, OwnAppended
    <3>2. \A k : OwnEvent(inbox', k) => OwnEvent(inbox, k)  BY <2>1, <2>4, OwnAppended
    <3> QED  BY <3>1, <3>2, <2>2 DEF OwnTrail
  <2> QED  BY <2>2, <2>3, <2>4
<1>3. ASSUME NEW c \in Places, BotIsIn(c) PROVE OwnTrail'
  <2>1. CASE c = NoChannel /\ bot = NoChannel /\ UNCHANGED inbox
    BY <1>1, <1>3, <2>1 DEF BotIsIn
  <2>2. CASE ~(c = NoChannel /\ bot = NoChannel /\ UNCHANGED inbox)
    <3> DEFINE last == Len(inbox) + 1
    <3>1. /\ \A k : OwnEvent(inbox', k) => OwnEvent(inbox, k) \/ k = last
          /\ OwnEvent(inbox', last) /\ inbox'[last].new = bot'
          /\ Len(inbox) \in Nat /\ DOMAIN inbox = 1..Len(inbox)
      BY <1>3, <2>2, BotTold
    <3>2. ASSUME NEW k, OwnEvent(inbox, k) PROVE last > k  BY <3>1, <3>2 DEF OwnEvent
    <3> HIDE DEF last
    <3> QED  BY <3>1, <3>2 DEF OwnTrail
  <2> QED  BY <2>1, <2>2
<1>4. CASE DiscordAnswers  BY <1>3, <1>4, AnswerFacts
<1>5. ASSUME NEW i \in 1..MaxInbox, HandleOwn(i) \/ HandlePeer(i) PROVE OwnTrail'
  <2>1. 1 \in DOMAIN inbox /\ inbox' = RemoveAt(inbox, 1) /\ bot' = bot
    BY <1>5 DEF HandleOwn, HandlePeer, Turn, discord
  <2>2. ASSUME NEW k, OwnEvent(inbox', k)
        PROVE  inbox'[k].new = bot \/ \E l : l > k /\ OwnEvent(inbox', l)
    <3>1. OwnEvent(inbox, k + 1) /\ inbox'[k] = inbox[k + 1] /\ k \in Nat
      BY <2>1, <2>2, OwnHeadRemoved
    <3>2. ASSUME NEW l, l > k + 1, OwnEvent(inbox, l)
          PROVE  l - 1 > k /\ OwnEvent(inbox', l - 1)
      <4>1. l \in Nat  BY <2>1, <3>2, OwnHeadRemoved DEF OwnEvent
      <4>2. l # 1 /\ l - 1 > k  BY <4>1, <3>1, <3>2
      <4> QED  BY <4>2, <2>1, <3>2, OwnHeadRemoved
    <3> QED  BY <3>1, <3>2 DEF OwnTrail
  <2> QED  BY <2>1, <2>2 DEF OwnTrail
<1>6. CASE Exit \/ Crash
  <2>1. inbox' = << >>  BY <1>6 DEF Exit, Crash, Ends
  <2>2. \A k : ~OwnEvent(inbox', k)  BY <2>1 DEF OwnEvent
  <2> QED  BY <2>2 DEF OwnTrail
<1>7. ASSUME NEW c \in Places, ModeratorMoves(c) PROVE OwnTrail'
  BY <1>3, <1>7 DEF ModeratorMoves
<1> QED
  BY <1>1, <1>2, <1>4, <1>5, <1>6, <1>7
  DEF Next, vars, discord, GuildCreate, ResetClears, ResetLeaves, PlayBegins, EnsureJoined,
      Join, JoinRefused, JoinSettles, JoinFails, Snapshot, BootstrapVoiceState, Enqueue,
      EnqueueSucceeds, EnqueueFails, TrackEnds, Boot, Ready, TakeFails, Signal,
      RestartSnapshot, Save, SaveFails

LEMMA StepJoiners ==
  ASSUME Typed, orderly, PlacesFit, [Next]_vars PROVE JoinersFit'
<1>1. CASE Exit \/ Crash
  <2>1. Idle.pc = "idle"  BY DEF Idle
  <2> QED  BY <1>1, <2>1 DEF Exit, Crash, Ends, JoinersFit
<1>2. CASE ~(Exit \/ Crash)
  <2> SUFFICES ASSUME NEW t \in Tasks, task'[t].pc \in {"joined", "bootstrap"}
               PROVE  task'[t].channel = bot' \/ Coming'
    BY DEF JoinersFit
  <2>0. task \in [Tasks -> TaskStates] /\ task[t] \in TaskStates  BY DEF Typed, TypeOK
  <2>1. CASE task'[t] = task[t]
    <3>1. task[t].channel = bot \/ Coming  BY <2>1 DEF PlacesFit, JoinersFit
    <3>2. ASSUME NEW i, HandleOwn(i) PROVE FALSE
      BY <2>1, <3>2 DEF HandleOwn, Turn, Prompt
    <3>3. (Coming => Coming') /\ (bot' = bot \/ Coming')
      BY <1>2, <3>2, ComingStep DEF PlacesFit
    <3> QED  BY <3>1, <3>3, <2>1
  <2>2. CASE EnsureJoined(t)
    <3>1. call = task[t].channel /\ task'[t].channel = task[t].channel
      BY <2>0, <2>2 DEF EnsureJoined, Go, TaskStates
    <3>2. task[t].channel \in Channels  BY <2>2 DEF EnsureJoined, Typed, TaskHasChannel
    <3>3. UNCHANGED <<bot, wire, inbox>>  BY <2>2 DEF EnsureJoined, discord
    <3>4. Goal # NoChannel /\ (wire = << >> => call = bot)
      BY <3>1, <3>2 DEF PlacesFit, CallFits
    <3>5. CASE wire = << >>  BY <3>1, <3>3, <3>4, <3>5
    <3>6. CASE wire # << >>
      <4>1. wire \in Seq(Places)  BY DEF Typed, TypeOK
      <4>2. Len(wire) \in DOMAIN wire  BY <4>1, <3>6, TailFacts
      <4>3. wire'[Len(wire')] # NoChannel /\ Len(wire') \in DOMAIN wire'
        BY <4>2, <3>3, <3>4, <3>6 DEF Goal
      <4> QED  BY <4>3 DEF Coming
    <3> QED  BY <3>5, <3>6
  <2>3. CASE Join(t)
    <3>1. task[t].channel \in Channels  BY <2>3 DEF Join, Typed, TaskHasChannel
    <3>2. task[t].channel \in Places /\ task[t].channel # NoChannel
      BY <3>1, VoiceAssumption DEF Places
    <3>3. Request(task[t].channel) /\ UNCHANGED <<bot, inbox>>  BY <2>3 DEF Join
    <3> QED  BY <3>2, <3>3, RequestKeeps
  <2>4. CASE Snapshot(t)
    <3>1. task'[t].channel = task[t].channel /\ task[t].pc = "joined"
      BY <2>0, <2>4 DEF Snapshot, TaskStates
    <3>2. task[t].channel = bot \/ Coming  BY <3>1 DEF PlacesFit, JoinersFit
    <3>3. UNCHANGED <<bot, wire, inbox>>  BY <2>4 DEF Snapshot, discord
    <3>4. Coming => Coming'  BY <3>3 DEF Coming
    <3> QED  BY <3>1, <3>2, <3>3, <3>4
  <2>5. task'[t].pc \in Joining  BY DEF Joining
  <2> QED  BY <2>1, <2>2, <2>3, <2>4, <2>5, TaskStep
<1> QED  BY <1>1, <1>2

LEMMA IdleNoChannel == "idle" \notin Channels /\ "absent" \notin Channels
  BY GatewayAssumption

\* What a step that resets or fails does to what removes a call.
LEMMA StepCallFits ==
  ASSUME Typed, orderly, CallFits, [Next]_vars PROVE CallFits'
<1> DEFINE LeftTold == \E k : OwnEvent(inbox, k) /\ inbox[k].new = NoChannel
<1> USE VoiceAssumption
<1>0. /\ bot \in Places /\ wire \in Seq(Places) /\ joins \in Nat /\ lost \in Nat
      /\ clears \in Nat /\ leaves \in Nat /\ call \in {"absent", "idle"} \cup Channels
  BY DEF Typed, TypeOK
<1>1. ASSUME UNCHANGED <<bot, wire, call, joins, lost, stranded>>, Resetting => Resetting',
             LeftTold => LeftTold' \/ Resetting'
      PROVE  CallFits'
  BY <1>1 DEF CallFits, Goal
<1>2. ASSUME NEW u \in Users, NEW c \in Places, UserMoves(u, c) PROVE CallFits'
  <2> DEFINE e == [who |-> u, old |-> where[u], new |-> c]
  <2>1. e \in Handlers
    <3>1. where[u] \in Places  BY DEF Typed, TypeOK
    <3> QED  BY <3>1 DEF Handlers
  <2>2. (inbox' = Append(inbox, e) \/ inbox' = inbox)
        /\ UNCHANGED <<bot, wire, call, joins, lost, stranded, clears, leaves>>
    BY <1>2 DEF UserMoves, voice, resets
  <2> HIDE DEF e
  <2>3. \A k : OwnEvent(inbox, k) => OwnEvent(inbox', k) /\ inbox'[k] = inbox[k]
    BY <2>1, <2>2, OwnAppended
  <2> QED  BY <2>2, <2>3, <1>1 DEF Resetting
<1>3. CASE DiscordAnswers
  <2> DEFINE c == Head(wire)
  <2>1. c \in Places /\ BotIsIn(c) /\ bot' = c /\ Goal' = Goal
    BY <1>3, AnswerFacts DEF BotIsIn
  <2>2. wire' = << >> => Goal' = bot'  BY DEF Goal
  <2> HIDE DEF c
  <2>3. UNCHANGED <<clears, leaves, stranded>>  BY <2>1 DEF BotIsIn, resets
  <2>4. CASE call \notin Channels
    <3>1. UNCHANGED <<call, joins, lost>>  BY <2>1, <2>4 DEF BotIsIn
    <3>2. \A k : OwnEvent(inbox, k) => OwnEvent(inbox', k) /\ inbox'[k] = inbox[k]
      BY <2>1, BotTold
    <3> QED  BY <2>1, <2>3, <2>4, <3>1, <3>2 DEF CallFits, Resetting
  <2>5. CASE call \in Channels /\ c = NoChannel
    <3>1. call' = "idle" /\ joins' = 0 /\ lost' = lost + joins
      BY <2>1, <2>5 DEF BotIsIn, DropJoins
    <3>2. CASE bot = NoChannel
      <4>1. lost' > 0  BY <3>1, <3>2, <2>5, <1>0 DEF CallFits
      <4> QED  BY <3>1, <4>1, <1>0, <2>3, <2>5, IdleNoChannel DEF CallFits
    <3>3. CASE bot # NoChannel
      <4>1. OwnEvent(inbox', Len(inbox) + 1) /\ inbox'[Len(inbox) + 1].new = NoChannel
        BY <2>1, <2>5, <3>3, BotTold
      <4> QED  BY <3>1, <4>1, <2>3, <2>5, IdleNoChannel DEF CallFits
    <3> QED  BY <3>2, <3>3
  <2>6. CASE call \in Channels /\ c # NoChannel
    <3>1. call' = c /\ UNCHANGED <<joins, lost>> /\ c \in Channels
      BY <2>1, <2>6 DEF BotIsIn, Places
    <3> QED  BY <2>1, <2>2, <2>3, <2>6, <3>1, IdleNoChannel DEF CallFits
  <2> QED  BY <2>4, <2>5, <2>6
<1>4. ASSUME NEW c \in Places, ModeratorMoves(c) PROVE CallFits'
  <2>1. BotIsIn(c) /\ bot # NoChannel /\ UNCHANGED wire /\ bot' = c
    BY <1>4 DEF ModeratorMoves, BotIsIn
  <2>2. /\ \A k : OwnEvent(inbox, k) => OwnEvent(inbox', k) /\ inbox'[k] = inbox[k]
        /\ OwnEvent(inbox', Len(inbox) + 1) /\ inbox'[Len(inbox) + 1].new = c
    BY <2>1, BotTold
  <2>3. UNCHANGED <<clears, leaves, stranded>>  BY <2>1 DEF BotIsIn, resets
  <2>4. (wire # << >> => Goal' = Goal) /\ (wire = << >> => Goal = bot /\ Goal' = c)
    BY <2>1 DEF Goal
  <2>5. CASE call \notin Channels
    <3>1. UNCHANGED <<call, joins, lost>>  BY <2>1, <2>5 DEF BotIsIn
    <3> QED  BY <2>1, <2>2, <2>3, <2>4, <2>5, <3>1 DEF CallFits, Resetting
  <2>6. CASE call \in Channels /\ c = NoChannel
    <3>1. call' = "idle" /\ joins' = 0  BY <2>1, <2>6 DEF BotIsIn, DropJoins
    <3> QED  BY <2>2, <2>3, <2>6, <3>1, IdleNoChannel DEF CallFits
  <2>7. CASE call \in Channels /\ c # NoChannel
    <3>1. call' = c /\ UNCHANGED <<joins, lost>> /\ c \in Channels
      BY <2>1, <2>7 DEF BotIsIn, Places
    <3> QED  BY <2>1, <2>3, <2>4, <2>7, <3>1, IdleNoChannel DEF CallFits
  <2> QED  BY <2>5, <2>6, <2>7
<1>5. ASSUME NEW i \in 1..MaxInbox, HandleOwn(i) \/ HandlePeer(i) PROVE CallFits'
  <2>1. 1 \in DOMAIN inbox /\ i = 1 /\ inbox' = RemoveAt(inbox, 1)
        /\ UNCHANGED <<bot, wire, call, joins, lost, stranded, leaves>>
    BY <1>5 DEF HandleOwn, HandlePeer, Turn, discord, voice
  <2>2. clears' = clears \/ clears' = clears + 1
    BY <1>5 DEF HandleOwn, HandlePeer, BeginReset
  <2>3. OwnEvent(inbox, 1) /\ inbox[1].new = NoChannel => clears' = clears + 1
    BY <1>5, <2>1 DEF HandleOwn, HandlePeer, BeginReset, OwnEvent
  <2>4. ASSUME NEW k, OwnEvent(inbox, k), inbox[k].new = NoChannel PROVE LeftTold' \/ Resetting'
    <3>1. CASE k = 1  BY <2>3, <2>4, <3>1, <1>0 DEF Resetting
    <3>2. CASE k # 1
      <4>1. OwnEvent(inbox', k - 1) /\ inbox'[k - 1] = inbox[k]
        BY <2>1, <2>4, <3>2, OwnHeadRemoved
      <4> QED  BY <4>1, <2>4
    <3> QED  BY <3>1, <3>2
  <2>5. Resetting => Resetting'  BY <2>1, <2>2, <1>0 DEF Resetting
  <2> QED  BY <2>1, <2>4, <2>5, <1>1
<1>6. CASE ResetClears
  <2>1. leaves' > 0 /\ UNCHANGED <<bot, wire, call, joins, lost, stranded>>
    BY <1>0, <1>6 DEF ResetClears, discord, voice
  <2> QED  BY <2>1, <1>1 DEF Resetting
<1>7. CASE ResetLeaves \/ JoinFails
  <2>1. UNCHANGED <<bot, inbox>> /\ joins' = 0 /\ (LeaveCall \/ LeaveRefused)
    BY <1>7, RemoveCallKinds DEF ResetLeaves, JoinFails, DropJoins
  <2>2. \/ call' = "idle" /\ stranded'
        \/ call' = "absent" /\ ~stranded' /\ Goal' = NoChannel
    BY <2>1, RemoveCallFacts
  <2> QED  BY <2>1, <2>2, IdleNoChannel DEF CallFits
<1>8. ASSUME NEW t \in Tasks, Join(t) PROVE CallFits'
  <2>1. task[t].channel \in Channels  BY <1>8 DEF Join, Typed, TaskHasChannel
  <2>2. task[t].channel \in Places /\ task[t].channel # NoChannel  BY <2>1 DEF Places
  <2>3. Request(task[t].channel) /\ UNCHANGED <<bot, inbox>> /\ joins' = 1
        /\ call' = task[t].channel /\ ~stranded'
    BY <1>8 DEF Join
  <2>4. Goal' = task[t].channel /\ wire' # << >>  BY <2>2, <2>3, RequestKeeps
  <2> QED  BY <2>1, <2>2, <2>3, <2>4, IdleNoChannel DEF CallFits
<1>9. ASSUME NEW t \in Tasks, JoinRefused(t) PROVE CallFits'
  <2>1. UNCHANGED <<bot, wire, inbox, joins, lost, stranded, clears, leaves>>
        /\ call' = IF call = "absent" THEN "idle" ELSE call
    BY <1>9 DEF JoinRefused, discord, resets
  <2>2. Goal' = Goal  BY <2>1 DEF Goal
  <2> QED  BY <2>1, <2>2, IdleNoChannel DEF CallFits, Resetting
<1>10. CASE JoinSettles
  <2>1. UNCHANGED <<bot, wire, inbox, call, lost, stranded, clears, leaves>>
        /\ joins > 0 /\ bot = call /\ joins' = joins - 1
    BY <1>10 DEF JoinSettles, discord, resets
  <2>2. bot # NoChannel  BY <2>1 DEF CallFits
  <2>3. Goal' = Goal /\ (joins' > 0 => joins > 0)  BY <2>1, <1>0 DEF Goal
  <2> QED  BY <2>1, <2>2, <2>3 DEF CallFits, Resetting
<1>11. ASSUME NEW t \in Tasks, EnqueueFails(t) PROVE CallFits'
  <2>1. UNCHANGED <<bot, wire, inbox, call, joins, lost, stranded, leaves>>
        /\ (clears' = clears \/ clears' = clears + 1)
    BY <1>11 DEF EnqueueFails, BeginReset, discord, voice
  <2>2. Resetting => Resetting'  BY <2>1, <1>0 DEF Resetting
  <2> QED  BY <2>1, <2>2, <1>1
<1>12. CASE Exit \/ Crash
  <2>1. call' = "absent" /\ joins' = 0 /\ wire' = << >> /\ bot' = NoChannel /\ ~stranded'
    BY <1>12 DEF Exit, Crash, Ends
  <2>2. Goal' = NoChannel  BY <2>1 DEF Goal
  <2> QED  BY <2>1, <2>2, IdleNoChannel DEF CallFits
<1>13. ASSUME UNCHANGED <<discord, inbox, voice, resets>> PROVE CallFits'
  BY <1>1, <1>13 DEF discord, voice, resets, Resetting
<1> QED
  BY <1>2, <1>3, <1>4, <1>5, <1>6, <1>7, <1>8, <1>9, <1>10, <1>11, <1>12, <1>13
  DEF Next, vars, discord, voice, resets, GuildCreate, PlayBegins, EnsureJoined, Snapshot,
      BootstrapVoiceState, Enqueue, EnqueueSucceeds, TrackEnds, Boot, Ready, TakeFails,
      Signal, RestartSnapshot, Save, SaveFails

\* A reset that leaves finds the bot gone, asks for it, or strands it.
LEMMA LeaveAsked ==
  ASSUME Typed, CallFits, ResetLeaves PROVE bot' = NoChannel \/ Coming' \/ stranded'
<1>1. (LeaveCall \/ LeaveRefused) /\ UNCHANGED <<bot, inbox>>
  BY RemoveCallKinds DEF ResetLeaves
<1> QED  BY <1>1, RemoveCallFacts

\* A bot that is stranded stays so until something is sent.
LEMMA StrandedStep ==
  ASSUME Typed, CallFits, stranded, [Next]_vars, ~Exit, ~Crash
  PROVE  stranded' \/ Coming' \/ bot' = NoChannel
<1>1. ASSUME NEW t \in Tasks, Join(t) PROVE Coming'
  <2>1. task[t].channel \in Channels  BY <1>1 DEF Join, Typed, TaskHasChannel
  <2>2. task[t].channel \in Places /\ task[t].channel # NoChannel
    BY <2>1, VoiceAssumption DEF Places
  <2>3. Request(task[t].channel) /\ UNCHANGED <<bot, inbox>>  BY <1>1 DEF Join
  <2> QED  BY <2>2, <2>3, RequestKeeps
<1>2. CASE ResetLeaves \/ JoinFails
  <2>1. (LeaveCall \/ LeaveRefused) /\ UNCHANGED <<bot, inbox>>
    BY <1>2, RemoveCallKinds DEF ResetLeaves, JoinFails
  <2> QED  BY <2>1, RemoveCallFacts
<1>3. CASE UNCHANGED stranded  BY <1>3
<1> QED
  BY <1>1, <1>2, <1>3
  DEF Next, vars, voice, UserMoves, GuildCreate, DiscordAnswers, BotIsIn, ModeratorMoves,
      HandleOwn, HandlePeer, ResetClears, PlayBegins, EnsureJoined, JoinRefused, JoinSettles,
      Snapshot, BootstrapVoiceState, Enqueue, EnqueueSucceeds, EnqueueFails, TrackEnds, Boot,
      Ready, TakeFails, Signal, RestartSnapshot, Save, SaveFails

LEMMA StepActive ==
  ASSUME Typed, orderly, PlacesFit, [Next]_vars PROVE ActiveFits'
<1>0. clears \in Nat /\ leaves \in Nat  BY DEF Typed, TypeOK
<1>1. ASSUME BeginReset PROVE ActiveFits'
  BY <1>0, <1>1 DEF BeginReset, ActiveFits, Resetting
<1>2. CASE Exit \/ Crash  BY <1>2 DEF Exit, Crash, Ends, ActiveFits
<1>3. ASSUME NEW i \in 1..MaxInbox, HandleOwn(i) PROVE ActiveFits'
  <2>1. i = 1 /\ (inbox[1].new = bot' \/ Coming')  BY <1>3, OwnHandled DEF PlacesFit
  <2>2. BeginReset \/ active' = inbox[1].new  BY <1>3, <2>1 DEF HandleOwn
  <2> QED  BY <2>1, <2>2, <1>1 DEF ActiveFits
<1>4. CASE ~Exit /\ ~Crash /\ \A i \in 1..MaxInbox : ~HandleOwn(i)
  <2>1. (Coming => Coming') /\ (bot' = bot \/ Coming')
    BY <1>4, ComingStep DEF PlacesFit
  <2>9. stranded => stranded' \/ Coming' \/ bot' = NoChannel
    BY <1>4, StrandedStep DEF PlacesFit
  <2>2. ASSUME UNCHANGED active, Resetting => Resetting' PROVE ActiveFits'
    BY <2>1, <2>2, <2>9 DEF PlacesFit, ActiveFits
  <2>3. ASSUME UNCHANGED <<active, resets>> PROVE ActiveFits'
    BY <2>2, <2>3 DEF Resetting, resets
  <2>4. ASSUME NEW i \in 1..MaxInbox, HandlePeer(i) PROVE ActiveFits'
    <3>1. BeginReset \/ UNCHANGED <<active, clears, leaves>>  BY <2>4 DEF HandlePeer
    <3> QED  BY <3>1, <1>1, <2>3 DEF resets
  <2>5. ASSUME NEW t \in Tasks, EnqueueFails(t) PROVE ActiveFits'
    <3>1. BeginReset \/ UNCHANGED <<active, clears, leaves>>  BY <2>5 DEF EnqueueFails
    <3> QED  BY <3>1, <1>1, <2>3 DEF resets
  <2>6. CASE ResetClears
    BY <1>0, <2>2, <2>6 DEF ResetClears, Resetting
  <2>7. CASE ResetLeaves
    <3>1. UNCHANGED active /\ (bot' = NoChannel \/ Coming' \/ stranded')
      BY <2>7, LeaveAsked DEF ResetLeaves, PlacesFit
    <3> QED  BY <3>1, <2>1 DEF PlacesFit, ActiveFits
  <2>8. ASSUME NEW t \in Tasks, Snapshot(t) PROVE ActiveFits'
    <3>1. active' = task[t].channel /\ task[t].pc = "joined"  BY <2>8 DEF Snapshot
    <3> QED  BY <3>1, <2>1 DEF PlacesFit, JoinersFit, ActiveFits
  <2> QED
    BY <1>4, <2>3, <2>4, <2>5, <2>6, <2>7, <2>8
    DEF Next, vars, resets, UserMoves, GuildCreate, DiscordAnswers, BotIsIn, ModeratorMoves,
        PlayBegins, EnsureJoined, Join, JoinRefused, JoinSettles, JoinFails,
        BootstrapVoiceState, Enqueue, EnqueueSucceeds, TrackEnds, Boot, Ready, TakeFails,
        Signal, RestartSnapshot, Save, SaveFails
<1> QED  BY <1>2, <1>3, <1>4

\* The handler of the bot's event writes its channel into the index.
LEMMA OwnIndexed ==
  ASSUME Typed, NEW i, HandleOwn(i)
  PROVE  session'.index.bot = inbox[i].new
<1>0. session \in Sessions /\ session.index \in Indexes  BY DEF Typed, TypeOK, Sessions
<1>1. CASE inbox[i].new = NoChannel
  <2>1. session'.index = EmptyIndex
    BY <1>0, <1>1, TypedFits DEF HandleOwn, SessionFits, Sessions
  <2> QED  BY <2>1, <1>1 DEF EmptyIndex
<1>2. CASE inbox[i].new # NoChannel
  <2> DEFINE s == Opened(session)
  <2>1. session' = [s EXCEPT !.index = UpdateBotChannel(@, inbox[i].new)]
    BY <1>2 DEF HandleOwn
  <2>2. s \in Sessions /\ s.index = session.index  BY OpenedIndex
  <2> HIDE DEF s
  <2>3. session'.index = UpdateBotChannel(session.index, inbox[i].new)
    BY <2>1, <2>2 DEF Sessions
  <2> QED  BY <2>3, <1>0 DEF UpdateBotChannel, Indexes
<1> QED  BY <1>1, <1>2

\* What may change the index's record of the bot's channel.
LEMMA IndexBotStep ==
  ASSUME Typed, [Next]_vars
  PROVE  \/ session'.index.bot = session.index.bot
         \/ \E i \in 1..MaxInbox : HandleOwn(i) /\ session'.index.bot = inbox[i].new
         \/ (ResetClears \/ Exit \/ Crash) /\ session'.index.bot = NoChannel
         \/ \E t \in Tasks : BootstrapVoiceState(t) /\ session'.index.bot = task[t].channel
<1> DEFINE Kept == session'.index.bot = session.index.bot
<1>0. session \in Sessions /\ session.index \in Indexes  BY DEF Typed, TypeOK, Sessions
<1>1. EmptyIndex.bot = NoChannel /\ NoSession.index.bot = NoChannel
  BY DEF EmptyIndex, NoSession
<1>2. Opened(session).index = session.index /\ Opened(session) \in Sessions
  BY OpenedIndex
<1>3. ASSUME NEW s, s \in Sessions, NEW x, session' = [s EXCEPT !.index = x]
      PROVE  session'.index = x
  BY <1>3 DEF Sessions
<1>4. ASSUME NEW i \in 1..MaxInbox, HandleOwn(i) PROVE session'.index.bot = inbox[i].new
  BY <1>4, OwnIndexed
<1>5. ASSUME NEW i \in 1..MaxInbox, HandlePeer(i) PROVE Kept
  <2> DEFINE index == ApplyPeer(session.index, inbox[i].who, inbox[i].old, inbox[i].new)
  <2>1. index.bot = session.index.bot
    BY <1>0 DEF ApplyPeer, SetPeerChannel, Indexes
  <2>2. session' = session \/ session' = [session EXCEPT !.index = index]
    BY <1>5 DEF HandlePeer
  <2> HIDE DEF index
  <2> QED  BY <2>1, <2>2, <1>0, <1>3
<1>6. CASE ResetClears  BY <1>1, <1>6 DEF ResetClears
<1>7. ASSUME NEW t \in Tasks, BootstrapVoiceState(t)
      PROVE  session'.index.bot = task[t].channel
  <2>1. session'.index = Bootstrap(task[t].channel, task[t].seen)  BY <1>7, Bootstrapped
  <2> QED  BY <2>1 DEF Bootstrap
<1>8. ASSUME NEW t \in Tasks, Enqueue(t) PROVE Kept  BY <1>2, <1>8 DEF Enqueue
<1>9. ASSUME NEW b, session' = [session EXCEPT !.track = b] PROVE Kept
  BY <1>0, <1>9 DEF Sessions
<1>10. CASE Exit \/ Crash  BY <1>1, <1>10 DEF Exit, Crash, Ends
<1>11. ASSUME UNCHANGED session PROVE Kept  BY <1>11
<1> QED
  BY <1>4, <1>5, <1>6, <1>7, <1>8, <1>9, <1>10, <1>11
  DEF Next, vars, UserMoves, GuildCreate, DiscordAnswers, BotIsIn, ModeratorMoves, ResetLeaves,
      PlayBegins, EnsureJoined, Join, JoinRefused, JoinSettles, JoinFails, Snapshot,
      EnqueueSucceeds, EnqueueFails, TrackEnds, Boot, Ready, TakeFails, Signal,
      RestartSnapshot, Save, SaveFails

LEMMA StepIndex ==
  ASSUME Typed, orderly, PlacesFit, [Next]_vars PROVE IndexFits'
<1>0. clears \in Nat /\ leaves \in Nat  BY DEF Typed, TypeOK
<1>1. CASE Exit \/ Crash
  <2>1. session' = NoSession /\ bot' = NoChannel  BY <1>1 DEF Exit, Crash, Ends
  <2>2. NoSession.index.bot = NoChannel  BY DEF NoSession, EmptyIndex
  <2> QED  BY <2>1, <2>2 DEF IndexFits
<1>2. ASSUME NEW i \in 1..MaxInbox, HandleOwn(i) PROVE IndexFits'
  <2>1. i = 1 /\ (inbox[1].new = bot' \/ Coming')  BY <1>2, OwnHandled DEF PlacesFit
  <2>2. session'.index.bot = inbox[1].new  BY <1>2, <2>1, OwnIndexed
  <2> QED  BY <2>1, <2>2 DEF IndexFits
<1>3. CASE ~Exit /\ ~Crash /\ \A i \in 1..MaxInbox : ~HandleOwn(i)
  <2>1. (Coming => Coming') /\ (bot' = bot \/ Coming')
    BY <1>3, ComingStep DEF PlacesFit
  <2>2. CASE ResetClears
    <3>1. session'.index.bot = NoChannel /\ leaves' > 0
      BY <2>2, <1>0 DEF ResetClears, NoSession, EmptyIndex
    <3> QED  BY <3>1 DEF IndexFits
  <2>3. CASE ResetLeaves
    <3>1. UNCHANGED session /\ (bot' = NoChannel \/ Coming' \/ stranded')
      BY <2>3, LeaveAsked DEF ResetLeaves, PlacesFit
    <3> QED  BY <3>1, <2>1 DEF PlacesFit, IndexFits
  <2>4. ASSUME NEW t \in Tasks, BootstrapVoiceState(t), session'.index.bot = task[t].channel
        PROVE  IndexFits'
    <3>1. task[t].pc = "bootstrap"  BY <2>4 DEF BootstrapVoiceState
    <3> QED  BY <3>1, <2>1, <2>4 DEF PlacesFit, JoinersFit, IndexFits
  <2>7. stranded => stranded' \/ Coming' \/ bot' = NoChannel
    BY <1>3, StrandedStep DEF PlacesFit
  <2>5. ASSUME session'.index.bot = session.index.bot, UNCHANGED leaves PROVE IndexFits'
    BY <2>1, <2>5, <2>7 DEF PlacesFit, IndexFits
  <2>6. ResetClears \/ ResetLeaves \/ UNCHANGED leaves
    BY <1>3
    DEF Next, vars, resets, UserMoves, GuildCreate, DiscordAnswers, BotIsIn, ModeratorMoves,
        HandlePeer, PlayBegins, EnsureJoined, Join, JoinRefused, JoinSettles, JoinFails,
        Snapshot, BootstrapVoiceState, Enqueue, EnqueueSucceeds, EnqueueFails, TrackEnds, Boot,
        Ready, TakeFails, Signal, RestartSnapshot, Save, SaveFails, BeginReset
  <2> QED  BY <1>3, <2>2, <2>3, <2>4, <2>5, <2>6, IndexBotStep
<1> QED  BY <1>1, <1>2, <1>3

LEMMA InitPlaces == Init => PlacesFit
<1> SUFFICES ASSUME Init PROVE PlacesFit  OBVIOUS
<1>1. bot = NoChannel /\ wire = << >> /\ inbox = << >> /\ call = "absent" /\ joins = 0
      /\ active = NoChannel /\ session = NoSession /\ ~stranded
  BY DEF Init
<1>2. \A k : ~OwnEvent(inbox, k)  BY <1>1 DEF OwnEvent
<1>3. OwnTrail  BY <1>2 DEF OwnTrail
<1>4. CallFits  BY <1>1, IdleNoChannel DEF CallFits, Goal
<1>5. JoinersFit  BY DEF Init, Idle, JoinersFit
<1>6. ActiveFits /\ IndexFits
  BY <1>1 DEF ActiveFits, IndexFits, NoSession, EmptyIndex
<1> QED  BY <1>3, <1>4, <1>5, <1>6 DEF PlacesFit

\* With nothing under way each record is right.
LEMMA RestAgrees ==
  ASSUME Typed, orderly => PlacesFit PROVE PlacesAgree
<1> SUFFICES ASSUME orderly, AtRest
             PROVE  IF stranded
                    THEN {active, session.index.bot} \subseteq {NoChannel, bot}
                         /\ call \notin Channels
                    ELSE /\ active = bot
                         /\ session.index.bot = bot
                         /\ IF bot = NoChannel THEN call \notin Channels ELSE call = bot
  BY DEF PlacesAgree
<1>1. wire = << >> /\ inbox = << >> /\ joins = 0 /\ lost = 0 /\ clears = 0 /\ leaves = 0
  BY DEF AtRest
<1>2. \A k : ~OwnEvent(inbox, k)  BY <1>1 DEF OwnEvent
<1>3. ~(\E k \in DOMAIN wire : wire[k] # NoChannel)  BY <1>1
<1>4. ~Coming /\ ~Resetting /\ Goal = bot  BY <1>1, <1>2, <1>3 DEF Coming, Resetting, Goal
<1>5. /\ active = bot \/ (active = NoChannel /\ stranded)
      /\ session.index.bot = bot \/ (session.index.bot = NoChannel /\ stranded)
  BY <1>1, <1>4 DEF PlacesFit, ActiveFits, IndexFits
<1>6. CallFits /\ call \in {"absent", "idle"} \cup Channels
  BY DEF PlacesFit, Typed, TypeOK
<1>7. stranded => call \notin Channels  BY <1>6, IdleNoChannel DEF CallFits
<1>8. ~stranded => IF bot = NoChannel THEN call \notin Channels ELSE call = bot
  BY <1>1, <1>2, <1>4, <1>6 DEF CallFits
<1> QED  BY <1>5, <1>7, <1>8

\* With handlers in order and nothing under way, active_voice_channels, the
\* voice index and the call are all where Discord has the bot, after any
\* history of commands, moves, kicks, failing joins and leaves, resets and
\* restarts; only after a leave that could not be sent may the bot stay with no
\* record of it, and then no record names another channel and the call is off.
THEOREM PlacesAlwaysAgree == Spec => []PlacesAgree
<1> DEFINE PlaceInv == orderly => PlacesFit
<1>1. ASSUME IInv, PlaceInv, [Next]_vars PROVE PlaceInv'
  <2>1. Typed /\ (orderly' => orderly)  BY <1>1, OrderFrozen DEF IInv
  <2>2. ASSUME orderly PROVE PlacesFit'
    <3>1. PlacesFit  BY <1>1, <2>2
    <3>2. OwnTrail' /\ CallFits'
      BY <1>1, <2>1, <2>2, <3>1, StepOwnTrail, StepCallFits DEF PlacesFit
    <3>3. JoinersFit' /\ ActiveFits' /\ IndexFits'
      BY <1>1, <2>1, <2>2, <3>1, StepJoiners, StepActive, StepIndex
    <3> QED  BY <3>2, <3>3 DEF PlacesFit
  <2> QED  BY <2>1, <2>2
<1>2. IInv /\ PlaceInv => PlacesAgree  BY RestAgrees DEF IInv
<1>3. Init => PlaceInv  BY InitPlaces
<1> HIDE DEF PlaceInv
<1> QED  BY <1>1, <1>2, <1>3, Inductive, PTL DEF Spec
=============================================================================
