------------------------ MODULE AutoMixHandoffProofs ------------------------
(***************************************************************************)
(* What holds of the AutoMix handoff in every scenario: any queue, any     *)
(* number of rearm tasks, commands and decks.                              *)
(***************************************************************************)
EXTENDS AutoMixHandoff, GuildPlayerStateProofs, FiniteSetTheorems

\* The types of the records.
Decks == [id : Nat, track : Tracks, state : DeckStates, timers : 0..2,
          slot : [incoming : Nat, gen : Nat]]
TaskStates == [pc : Steps, id : Nat, gen : Nat, next : AnyTrack, deck : Nat,
               incoming : Nat, kind : Kinds \cup EventKinds, armed : BOOLEAN]
Handed == [id : Nat, deck : Nat]
Prepareds == [origin : Nat, next : AnyTrack, id : Nat, deck : Nat, kind : Kinds,
              armed : BOOLEAN, gen : Nat, started : BOOLEAN]
Playbacks == [player : Players, automix : BOOLEAN, current : Nat, active : Nat,
              retiring : Handed, prepared : Prepareds, gen : Nat, replacing : Nat,
              due : Nat, rearm : Nat, fade : Nat]
Events == [kind : EventKinds, id : Nat, incoming : Nat, gen : Nat]

-----------------------------------------------------------------------------
(* The decks: nothing is forgotten of one, and one that is over stays so.  *)

AliveIn(ds, d) == d \in DOMAIN ds /\ ds[d].state \in {"paused", "playing"}
OverIn(ds, id) == \E d \in DOMAIN ds : ds[d].id = id /\ ds[d].state = "gone"

Keeps(ds, es) ==
    /\ DOMAIN ds \subseteq DOMAIN es
    /\ \A d \in DOMAIN ds :
         /\ es[d].id = ds[d].id
         /\ es[d].track = ds[d].track
         /\ AliveIn(es, d) => AliveIn(ds, d)
         /\ ds[d].state = "gone" => es[d].state = "gone"

\* Every deck has an id, and what is armed in its slot is a deck.
DecksFit ==
    \A d \in DOMAIN decks :
        /\ decks[d].id # None
        /\ decks[d].slot # NoArm => decks[d].slot.incoming \in DOMAIN decks

LEMMA NoArmType == NoArm \in [incoming : Nat, gen : Nat]
  BY DEF NoArm, None

LEMMA StoppedFacts ==
    ASSUME NEW ds \in Seq(Decks), NEW D
    PROVE  /\ Stopped(ds, D) \in Seq(Decks)
           /\ DOMAIN Stopped(ds, D) = DOMAIN ds
           /\ \A d \in DOMAIN ds :
                /\ Stopped(ds, D)[d].id = ds[d].id
                /\ Stopped(ds, D)[d].track = ds[d].track
                /\ Stopped(ds, D)[d].slot \in {ds[d].slot, NoArm}
                /\ Stopped(ds, D)[d].state =
                     IF d \in D /\ ds[d].state \in {"paused", "playing"} THEN "stopped"
                     ELSE ds[d].state
<1>1. DOMAIN ds = 1..Len(ds) /\ Len(ds) \in Nat /\ \A d \in DOMAIN ds : ds[d] \in Decks
  BY LenProperties, ElementOfSeq
<1>2. /\ DOMAIN Stopped(ds, D) = 1..Len(ds)
      /\ \A d \in DOMAIN ds :
           Stopped(ds, D)[d] = IF d \in D /\ ds[d].state \in {"paused", "playing"}
                               THEN [ds[d] EXCEPT !.state = "stopped", !.slot = NoArm]
                               ELSE ds[d]
  BY <1>1 DEF Stopped
<1>3. \A d \in DOMAIN ds : Stopped(ds, D)[d] \in Decks
  BY <1>1, <1>2, NoArmType, ZenonT(40) DEF Decks, DeckStates
<1>4. Stopped(ds, D) \in [1..Len(ds) -> Decks]
  BY <1>1, <1>2, <1>3 DEF Stopped
<1>5. Stopped(ds, D) \in Seq(Decks)
  BY <1>1, <1>4, SeqDef
<1> QED BY <1>1, <1>2, <1>5 DEF Decks

LEMMA ResumedFacts ==
    ASSUME NEW ds \in Seq(Decks), NEW d \in DOMAIN ds
    PROVE  /\ Resumed(ds, d) \in Seq(Decks)
           /\ DOMAIN Resumed(ds, d) = DOMAIN ds
           /\ \A e \in DOMAIN ds :
                /\ Resumed(ds, d)[e].id = ds[e].id
                /\ Resumed(ds, d)[e].track = ds[e].track
                /\ Resumed(ds, d)[e].slot = ds[e].slot
                /\ Resumed(ds, d)[e].state =
                     IF e = d /\ ds[e].state = "paused" THEN "playing" ELSE ds[e].state
<1>1. DOMAIN ds = 1..Len(ds) /\ Len(ds) \in Nat /\ \A e \in DOMAIN ds : ds[e] \in Decks
  BY LenProperties, ElementOfSeq
<1>2. CASE ds[d].state = "paused"
  <2>1. Resumed(ds, d) = [ds EXCEPT ![d].state = "playing"]
    BY <1>2 DEF Resumed
  <2>2. [ds[d] EXCEPT !.state = "playing"] \in Decks
    BY <1>1 DEF Decks, DeckStates
  <2>3. Resumed(ds, d) \in Seq(Decks) /\ DOMAIN Resumed(ds, d) = DOMAIN ds
    BY <2>1, <2>2, ExceptSeq
  <2> QED BY <1>1, <1>2, <2>1, <2>3, SMTT(30) DEF Decks
<1>3. CASE ds[d].state # "paused"
  BY <1>3 DEF Resumed
<1> QED BY <1>2, <1>3

LEMMA WithFacts ==
    ASSUME decks \in Seq(Decks), NEW new \in Decks
    PROVE  /\ With(new) \in Seq(Decks)
           /\ NextDeck \in Nat /\ NextDeck # None
           /\ NextDeck \notin DOMAIN decks
           /\ DOMAIN With(new) = DOMAIN decks \cup {NextDeck}
           /\ With(new)[NextDeck] = new
           /\ \A d \in DOMAIN decks : With(new)[d] = decks[d]
<1>1. DOMAIN decks = 1..Len(decks) /\ Len(decks) \in Nat
      /\ \A d \in DOMAIN decks : decks[d] \in Decks
  BY LenProperties, ElementOfSeq
<1>2. NextDeck = Len(decks) + 1 /\ NextDeck \in Nat
  BY <1>1 DEF NextDeck
<1>3. With(new) \in [1..NextDeck -> Decks]
  BY <1>1, <1>2 DEF With
<1>4. With(new) \in Seq(Decks)
  BY <1>2, <1>3, SeqDef
<1>5. DOMAIN With(new) = DOMAIN decks \cup {NextDeck}
  BY <1>1, <1>2, <1>3
<1> QED BY <1>1, <1>2, <1>4, <1>5 DEF With, None

-----------------------------------------------------------------------------
(* The invariant.                                                          *)

Typed ==
    /\ scenario \in Scenarios
    /\ playback \in Playbacks /\ WellFormed(playback.player)
    /\ task \in [Tasks -> TaskStates]
    /\ fades \subseteq Handed
    /\ decks \in Seq(Decks)
    /\ inbox \in Seq(Events)
    /\ live \in BOOLEAN /\ call \in BOOLEAN
    /\ dpc \in {"idle", "clear", "leave"}
    /\ rearms \in Nat /\ skips \in Nat /\ toggles \in Nat /\ disconnects \in Nat

\* What a task works with: the deck that it made for its track, the end of a deck
\* that is over, a generation it has seen.
Carrying == {"preparing", "planning", "arming", "refit", "install", "replacing", "replace",
             "starting"}
InHand == {"arming", "install", "replace"}
Prefetching == {"preparing", "planning", "arming", "refit", "install"}

TaskFits(t, ds, p) ==
    /\ t.pc # "idle" => t.id # None
    /\ t.pc \in {"degrade", "refit", "replacing"} => t.incoming # None
    /\ t.pc \in {"arming", "refit", "install"} => t.kind \in Kinds
    /\ t.pc \in Carrying => t.next # NoTrack
    /\ t.pc \in InHand => /\ t.deck \in DOMAIN ds
                          /\ ds[t.deck].track = t.next
                          /\ ds[t.deck].id = t.incoming
    /\ t.pc = "advance" => OverIn(ds, t.id)
    /\ t.pc \in {"replacing", "replace"} => t.gen # None
    /\ t.pc \in Prefetching =>
         t.gen <= p.gen /\ (p.replacing # None => t.gen < p.replacing)

TasksFit == \A h \in Tasks : TaskFits(task[h], decks, playback)

EventFits(e, ds) ==
    /\ e.id # None
    /\ e.kind \in {"late", "arm_failed"} => e.incoming # None
    /\ e.kind = "ended" => OverIn(ds, e.id)

InboxFits == \A i \in 1..Len(inbox) : EventFits(inbox[i], decks)

\* The deck that the worker is replacing was stopped, and stays so.
Replacing(t, p) == t.pc \in {"replacing", "replace"} /\ p.replacing = t.gen

PreparedFits ==
    HasPrepared(playback) =>
        /\ playback.prepared.next # NoTrack
        /\ playback.prepared.deck \in DOMAIN decks
        /\ decks[playback.prepared.deck].id = playback.prepared.id
        /\ decks[playback.prepared.deck].track = playback.prepared.next
        /\ playback.prepared.origin = playback.current
        /\ playback.prepared.next = PeekNextTrack(playback.player)
        /\ Replacing(task[Worker], playback) =>
             /\ task[Worker].next = playback.prepared.next
             /\ ~AliveIn(decks, playback.prepared.deck)

ActiveFits ==
    /\ playback.replacing <= playback.gen
    /\ playback.active # None => /\ playback.active \in DOMAIN decks
                                 /\ decks[playback.active].id = playback.current
                                 /\ decks[playback.active].track = playback.player.current
    /\ playback.due # None => playback.active # None
    /\ task[Worker].pc = "starting" => ~HasPrepared(playback)
    /\ task[Worker].pc \in {"starting", "advancing"} =>
         playback.current = None /\ playback.active = None

\* What is being faded out is the retiring deck, or was cut.
RetiringFits ==
    /\ playback.retiring # NoRetiring =>
         /\ playback.retiring.deck \in DOMAIN decks
         /\ decks[playback.retiring.deck].id = playback.retiring.id
    /\ \A f \in fades : f.deck \in DOMAIN decks /\ decks[f.deck].id = f.id
    /\ FreshIds => \A f \in fades : f.deck = playback.retiring.deck \/ ~AliveIn(decks, f.deck)

Core == /\ Typed /\ DecksFit /\ TasksFit /\ InboxFits
        /\ PreparedFits /\ ActiveFits /\ RetiringFits

-----------------------------------------------------------------------------
(* The steps of the decks.                                                 *)

DecksStep == decks' \in Seq(Decks) /\ Keeps(decks, decks') /\ DecksFit'

\* Decks are stopped, and then one of them is resumed.
LEMMA StopStep ==
    ASSUME decks \in Seq(Decks), DecksFit, NEW D, decks' = Stopped(decks, D)
    PROVE  DecksStep
<1>1. \A d \in DOMAIN decks : decks[d] \in Decks
  BY LenProperties, ElementOfSeq
<1> DEFINE es == Stopped(decks, D)
<1>2. /\ es \in Seq(Decks) /\ DOMAIN es = DOMAIN decks
      /\ \A d \in DOMAIN decks :
           /\ es[d].id = decks[d].id /\ es[d].track = decks[d].track
           /\ es[d].slot \in {decks[d].slot, NoArm}
           /\ es[d].state = IF d \in D /\ decks[d].state \in {"paused", "playing"}
                            THEN "stopped" ELSE decks[d].state
  BY StoppedFacts
<1>3. decks' = es
  OBVIOUS
<1> HIDE DEF es
<1> QED BY <1>2, <1>3 DEF DecksStep, Keeps, DecksFit, AliveIn

LEMMA ResumeStep ==
    ASSUME decks \in Seq(Decks), DecksFit, NEW D, NEW d \in DOMAIN decks,
           decks' = Resumed(Stopped(decks, D), d)
    PROVE  DecksStep
<1> DEFINE es == Stopped(decks, D)
           fs == Resumed(es, d)
<1>2. /\ es \in Seq(Decks) /\ DOMAIN es = DOMAIN decks
      /\ \A e \in DOMAIN decks :
           /\ es[e].id = decks[e].id /\ es[e].track = decks[e].track
           /\ es[e].slot \in {decks[e].slot, NoArm}
           /\ es[e].state = IF e \in D /\ decks[e].state \in {"paused", "playing"}
                            THEN "stopped" ELSE decks[e].state
  BY StoppedFacts
<1>3. decks' = fs
  OBVIOUS
<1> HIDE DEF es
<1>4. /\ fs \in Seq(Decks) /\ DOMAIN fs = DOMAIN decks
      /\ \A e \in DOMAIN decks :
           /\ fs[e].id = es[e].id /\ fs[e].track = es[e].track
           /\ fs[e].slot = es[e].slot
           /\ fs[e].state = IF e = d /\ es[e].state = "paused" THEN "playing" ELSE es[e].state
  BY <1>2, ResumedFacts
<1> HIDE DEF fs
<1>5. \A e \in DOMAIN decks :
        /\ fs[e].id = decks[e].id /\ fs[e].track = decks[e].track
        /\ fs[e].slot \in {decks[e].slot, NoArm}
        /\ AliveIn(fs, e) => AliveIn(decks, e)
        /\ decks[e].state = "gone" => fs[e].state = "gone"
  BY <1>2, <1>4 DEF AliveIn
<1> QED BY <1>2, <1>3, <1>4, <1>5 DEF DecksStep, Keeps, DecksFit

LEMMA WithStep ==
    ASSUME decks \in Seq(Decks), DecksFit, NEW id \in Nat, id # None, NEW t \in Tracks,
           NEW s \in DeckStates, decks' = With(NewDeck(id, t, s))
    PROVE  /\ DecksStep
           /\ NextDeck \in Nat /\ NextDeck # None /\ NextDeck \notin DOMAIN decks
           /\ DOMAIN decks' = DOMAIN decks \cup {NextDeck}
           /\ decks'[NextDeck].id = id /\ decks'[NextDeck].track = t
           /\ decks'[NextDeck].state = s /\ decks'[NextDeck].slot = NoArm
           /\ \A d \in DOMAIN decks : decks'[d] = decks[d]
<1> DEFINE new == NewDeck(id, t, s)
<1>1. /\ new \in Decks
      /\ new.id = id /\ new.track = t /\ new.state = s /\ new.slot = NoArm
  BY NoArmType DEF Decks, NewDeck
<1> HIDE DEF new
<1>2. decks' = With(new)
  BY DEF new
<1>3. /\ decks' \in Seq(Decks)
      /\ NextDeck \in Nat /\ NextDeck # None /\ NextDeck \notin DOMAIN decks
      /\ DOMAIN decks' = DOMAIN decks \cup {NextDeck}
      /\ decks'[NextDeck] = new
      /\ \A d \in DOMAIN decks : decks'[d] = decks[d]
  BY <1>1, <1>2, WithFacts, ZenonT(40)
<1>4. DecksStep
  BY <1>1, <1>3 DEF DecksStep, Keeps, DecksFit, AliveIn
<1> QED BY <1>1, <1>3, <1>4

LEMMA SameStep ==
    ASSUME decks \in Seq(Decks), DecksFit, decks' = decks
    PROVE  DecksStep
  BY DEF DecksStep, Keeps, DecksFit, AliveIn

\* A deck changes its state or its slot.
LEMMA OneDeckStep ==
    ASSUME decks \in Seq(Decks), DecksFit, NEW d \in DOMAIN decks, NEW new \in Decks,
           new.id = decks[d].id, new.track = decks[d].track,
           new.state \in {decks[d].state, "gone"},
           new.slot \in {NoArm, decks[d].slot},
           decks' = [decks EXCEPT ![d] = new]
    PROVE  DecksStep
<1>1. /\ decks' \in Seq(Decks) /\ DOMAIN decks' = DOMAIN decks
      /\ \A e \in DOMAIN decks : decks'[e] = IF e = d THEN new ELSE decks[e]
  BY ExceptSeq, LenProperties
<1> QED BY <1>1 DEF DecksStep, Keeps, DecksFit, AliveIn

\* The steps of the decks, by action.
LEMMA PrefetchDecks ==
    ASSUME Core, NEW h \in Tasks, Prefetch(h)
    PROVE  DecksStep
<1> USE DEF Core, Typed
<1>0. /\ task[h] \in TaskStates /\ TaskFits(task[h], decks, playback)
      /\ \A d \in DOMAIN decks : decks[d] \in Decks
  BY LenProperties, ElementOfSeq DEF TasksFit
<1>1. CASE PrefetchBegin(h) \/ SourcePrepared(h) \/ PrefetchFails(h)
  BY <1>1, SameStep DEF PrefetchBegin, SourcePrepared, PrefetchFails
<1>2. CASE PrepareIncoming(h)
  <2>1. NextDeck \in Nat /\ NextDeck # None
    BY LenProperties DEF NextDeck, None
  <2>2. task[h].next \in Tracks
    BY <1>0, <1>2 DEF TaskStates, AnyTrack, TaskFits, Carrying, PrepareIncoming
  <2> QED BY <1>2, <2>1, <2>2, WithStep DEF PrepareIncoming, DeckStates
<1>3. CASE ArmAccepted(h)
  <2> DEFINE arm == [incoming |-> task[h].deck, gen |-> task[h].gen]
  <2>1. arm \in [incoming : Nat, gen : Nat] /\ arm.incoming \in DOMAIN decks
    BY <1>0, <1>3 DEF TaskStates, TaskFits, InHand, ArmAccepted
  <2> HIDE DEF arm
  <2>2. decks' = [d \in DOMAIN decks |->
                    IF decks[d].id = task[h].id /\ decks[d].state = "playing"
                    THEN [decks[d] EXCEPT !.slot = arm] ELSE decks[d]]
    BY <1>3 DEF ArmAccepted, arm
  <2>3. DOMAIN decks = 1..Len(decks) /\ Len(decks) \in Nat
    BY LenProperties
  <2>4. \A d \in DOMAIN decks : decks'[d] \in Decks
    BY <1>0, <2>1, <2>2 DEF Decks
  <2>5. decks' \in [1..Len(decks) -> Decks]
    BY <2>2, <2>3, <2>4
  <2>6. decks' \in Seq(Decks)
    BY <2>3, <2>5, SeqDef
  <2>7. \A d \in DOMAIN decks :
          /\ decks'[d].id = decks[d].id /\ decks'[d].track = decks[d].track
          /\ decks'[d].state = decks[d].state /\ decks'[d].slot \in {decks[d].slot, arm}
    BY <1>0, <2>1, <2>2 DEF Decks
  <2> QED BY <2>1, <2>2, <2>6, <2>7 DEF DecksStep, Keeps, DecksFit, AliveIn
<1>4. CASE ArmRejected(h)
  BY <1>4, StopStep DEF ArmRejected
<1>5. CASE PrepareFallback(h)
  <2>1. /\ task[h].next \in Tracks
        /\ task[h].incoming \in Nat /\ task[h].incoming # None
    BY <1>0, <1>5 DEF TaskStates, AnyTrack, TaskFits, Carrying, PrepareFallback
  <2> QED BY <1>5, <2>1, WithStep DEF PrepareFallback, DeckStates
<1>6. CASE InstallPrepared(h)
  BY <1>6, StopStep DEF InstallPrepared
<1> QED BY <1>1, <1>2, <1>3, <1>4, <1>5, <1>6 DEF Prefetch

\* A prepared deck whose origin is a playback id is one of the decks.
LEMMA PreparedKnown ==
    ASSUME Core, HasPrepared(playback)
    PROVE  playback.prepared.deck \in DOMAIN decks
  BY DEF Core, PreparedFits

LEMMA OriginPrepared ==
    ASSUME playback.prepared.origin # None
    PROVE  HasPrepared(playback)
  BY DEF HasPrepared, NoPrepared

LEMMA StoppedTwice ==
    ASSUME NEW ds \in Seq(Decks), NEW D, NEW E
    PROVE  Stopped(Stopped(ds, D), E) = Stopped(ds, D \cup E)
<1>1. \A d \in DOMAIN ds : ds[d] \in Decks
  BY LenProperties, ElementOfSeq
<1> DEFINE es == Stopped(ds, D)
<1>2. /\ DOMAIN es = DOMAIN ds
      /\ \A d \in DOMAIN ds :
           es[d] = IF d \in D /\ ds[d].state \in {"paused", "playing"}
                   THEN [ds[d] EXCEPT !.state = "stopped", !.slot = NoArm] ELSE ds[d]
  BY DEF Stopped
<1> HIDE DEF es
<1>3. \A d \in DOMAIN ds :
         /\ d \in D /\ ds[d].state \in {"paused", "playing"} => es[d].state = "stopped"
         /\ ~(d \in D /\ ds[d].state \in {"paused", "playing"}) => es[d] = ds[d]
  BY <1>1, <1>2 DEF Decks
<1>4. Stopped(es, E) = [d \in DOMAIN ds |->
            IF d \in D \cup E /\ ds[d].state \in {"paused", "playing"}
            THEN [ds[d] EXCEPT !.state = "stopped", !.slot = NoArm] ELSE ds[d]]
  BY <1>2, <1>3 DEF Stopped
<1> QED BY <1>4 DEF es, Stopped

LEMMA TransitionDecks ==
    ASSUME Core, NEW h \in Tasks, Transition(h)
    PROVE  DecksStep
<1> USE DEF Core, Typed
<1>1. CASE TransitionBegin(h) \/ CheckTarget(h)
  BY <1>1, SameStep DEF TransitionBegin, CheckTarget
<1>2. CASE TransitionWake(h)
  <2>1. task[h].id # None
    BY <1>2 DEF TasksFit, TaskFits, TransitionWake
  <2>2. CASE playback.prepared.origin = task[h].id
    <3>1. playback.prepared.deck \in DOMAIN decks
      BY <2>1, <2>2, OriginPrepared, PreparedKnown
    <3>2. \/ \E D : decks' = Stopped(decks, D)
          \/ \E D : decks' = Resumed(Stopped(decks, D), playback.prepared.deck)
          \/ \E D : decks' = Stopped(Stopped(decks, D), {playback.active})
          \/ \E D : decks' = Resumed(Stopped(Stopped(decks, D), {playback.active}),
                                     playback.prepared.deck)
      BY <1>2 DEF TransitionWake, TransitionDropped
    <3>3. \/ \E D : decks' = Stopped(decks, D)
          \/ \E D : decks' = Resumed(Stopped(decks, D), playback.prepared.deck)
      <4>1. CASE \E D : decks' = Stopped(Stopped(decks, D), {playback.active})
        <5>1. PICK D : decks' = Stopped(Stopped(decks, D), {playback.active})
          BY <4>1
        <5>2. decks' = Stopped(decks, D \cup {playback.active})
          BY <5>1, StoppedTwice
        <5> QED BY <5>2
      <4>2. CASE \E D : decks' = Resumed(Stopped(Stopped(decks, D), {playback.active}),
                                        playback.prepared.deck)
        <5>1. PICK D : decks' = Resumed(Stopped(Stopped(decks, D), {playback.active}),
                                        playback.prepared.deck)
          BY <4>2
        <5>2. decks' = Resumed(Stopped(decks, D \cup {playback.active}),
                               playback.prepared.deck)
          BY <5>1, StoppedTwice
        <5> QED BY <5>2
      <4> QED BY <3>2, <4>1, <4>2
    <3>4. CASE \E D : decks' = Stopped(decks, D)
      BY <3>4, StopStep
    <3>5. CASE \E D : decks' = Resumed(Stopped(decks, D), playback.prepared.deck)
      BY <3>1, <3>5, ResumeStep
    <3> QED BY <3>3, <3>4, <3>5
  <2>3. CASE playback.prepared.origin # task[h].id
    BY <1>2, <2>3, StopStep DEF TransitionWake, TransitionDropped
  <2> QED BY <2>2, <2>3
<1> QED BY <1>1, <1>2 DEF Transition

LEMMA WorkerDecks ==
    ASSUME Core, WorkerOnly
    PROVE  DecksStep
<1> USE DEF Core, Typed
<1>0. Worker \in Tasks /\ task[Worker] \in TaskStates /\ TaskFits(task[Worker], decks, playback)
  BY DEF TasksFit, Tasks
<1>1. CASE TakeEvent \/ TransitionStarted \/ NextFails
  BY <1>1, SameStep DEF TakeEvent, TransitionStarted, NextFails
<1>2. CASE DegradeArmed \/ ReplacementFails
  <2>1. decks' = decks \/ \E D : decks' = Stopped(decks, D)
    BY <1>2 DEF DegradeArmed, ReplacementFails
  <2> QED BY <2>1, SameStep, StopStep
<1>3. CASE ReplacementPrepared
  <2>1. /\ task[Worker].next \in Tracks
        /\ task[Worker].incoming \in Nat /\ task[Worker].incoming # None
    BY <1>0, <1>3 DEF TaskStates, AnyTrack, TaskFits, Carrying, ReplacementPrepared
  <2> QED BY <1>3, <2>1, WithStep DEF ReplacementPrepared, DeckStates
<1>4. CASE InstallReplacement
  <2>1. decks' = decks \/ \E D : decks' = Stopped(decks, D)
    BY <1>4 DEF InstallReplacement
  <2> QED BY <2>1, SameStep, StopStep
<1>5. CASE Advance
  <2>1. CASE ~live \/ AdvancePrepared(task[Worker].id) \/ AdvanceLoop(task[Worker].id)
    <3>1. decks' = decks \/ \E D : decks' = Stopped(decks, D)
      BY <1>5, <2>1 DEF Advance, AdvancePrepared, AdvanceLoop, TakeNextTrack
    <3> QED BY <3>1, SameStep, StopStep
  <2>2. CASE AdvanceHandoff(task[Worker].id)
    <3>1. playback.prepared.deck \in DOMAIN decks
      BY <2>2, PreparedKnown DEF AdvanceHandoff, HandsOver
    <3>2. \/ decks' = decks
          \/ \E D : decks' = Resumed(Stopped(decks, D), playback.prepared.deck)
      BY <2>2 DEF AdvanceHandoff
    <3> QED BY <3>1, <3>2, SameStep, ResumeStep
  <2> QED BY <1>5, <2>1, <2>2 DEF Advance
<1>6. CASE NextStarted
  <2>1. NextDeck \in Nat /\ NextDeck # None
    BY LenProperties DEF NextDeck, None
  <2>2. task[Worker].next \in Tracks
    BY <1>0, <1>6 DEF TaskStates, AnyTrack, TaskFits, Carrying, NextStarted
  <2>3. (IF live THEN "playing" ELSE "stopped") \in DeckStates
    BY DEF DeckStates
  <2> QED BY <1>6, <2>1, <2>2, <2>3, WithStep DEF NextStarted
<1>7. CASE AdvanceAgain
  <2>1. decks' = decks \/ \E D : decks' = Stopped(decks, D)
    BY <1>7 DEF AdvanceAgain, AdvanceLoop, TakeNextTrack
  <2> QED BY <2>1, SameStep, StopStep
<1> QED BY <1>1, <1>2, <1>3, <1>4, <1>5, <1>6, <1>7 DEF WorkerOnly

LEMMA RearmDecks ==
    ASSUME Core, NEW r \in Rearmers, RearmBegin(r) \/ RearmStep(r)
    PROVE  DecksStep
<1> USE DEF Core, Typed
<1>1. decks' = decks \/ \E D : decks' = Stopped(decks, D)
  BY DEF RearmBegin, RearmStep, RearmClaim, RearmCheck, RearmTransition, RearmOutside
<1> QED BY <1>1, SameStep, StopStep

LEMMA SessionDecks ==
    ASSUME Core, FadeEnds \/ Commands \/ BeginDisconnect \/ ClearSession
    PROVE  DecksStep
<1> USE DEF Core, Typed
<1>1. decks' = decks \/ \E D : decks' = Stopped(decks, D)
  BY DEF FadeEnds, Commands, Skip, Toggle, EnqueueTrack, BeginDisconnect, ClearSession
<1> QED BY <1>1, SameStep, StopStep

\* What a deck becomes when it ends, loses its arm or its timer fires.
LEMMA DeckUpdates ==
    ASSUME NEW k \in Decks
    PROVE  /\ [k EXCEPT !.state = "gone", !.slot = NoArm] \in Decks
           /\ [k EXCEPT !.state = "gone", !.slot = NoArm].id = k.id
           /\ [k EXCEPT !.state = "gone", !.slot = NoArm].track = k.track
           /\ [k EXCEPT !.state = "gone", !.slot = NoArm].state = "gone"
           /\ [k EXCEPT !.state = "gone", !.slot = NoArm].slot = NoArm
           /\ k.timers < 2 => /\ [k EXCEPT !.timers = @ + 1] \in Decks
                              /\ [k EXCEPT !.timers = @ + 1].id = k.id
                              /\ [k EXCEPT !.timers = @ + 1].track = k.track
                              /\ [k EXCEPT !.timers = @ + 1].state = k.state
                              /\ [k EXCEPT !.timers = @ + 1].slot = k.slot
<1>1. [k EXCEPT !.state = "gone", !.slot = NoArm] \in Decks
  BY NoArmType DEF Decks, DeckStates
<1>2. ASSUME k.timers < 2
      PROVE  [k EXCEPT !.timers = k.timers + 1] \in Decks
  <2>1. k.timers + 1 \in 0..2
    BY <1>2 DEF Decks
  <2> QED BY <2>1 DEF Decks
<1> QED BY <1>1, <1>2 DEF Decks

LEMMA LeaveDecks ==
    ASSUME Core, LeaveCall
    PROVE  DecksStep
<1> USE DEF Core, Typed
<1>1. DOMAIN decks = 1..Len(decks) /\ Len(decks) \in Nat /\ \A d \in DOMAIN decks : decks[d] \in Decks
  BY LenProperties, ElementOfSeq
<1>2. /\ DOMAIN decks' = DOMAIN decks
      /\ \A d \in DOMAIN decks : decks'[d] = [decks[d] EXCEPT !.state = "gone", !.slot = NoArm]
  BY DEF LeaveCall
<1>3. ASSUME NEW d \in DOMAIN decks
      PROVE  /\ decks'[d] \in Decks /\ decks'[d].id = decks[d].id
             /\ decks'[d].track = decks[d].track
             /\ decks'[d].state = "gone" /\ decks'[d].slot = NoArm
  <2>1. decks[d] \in Decks
    BY <1>1
  <2> DEFINE new == [decks[d] EXCEPT !.state = "gone", !.slot = NoArm]
  <2>2. /\ new \in Decks /\ new.id = decks[d].id /\ new.track = decks[d].track
        /\ new.state = "gone" /\ new.slot = NoArm
    BY <2>1, DeckUpdates
  <2>3. decks'[d] = new
    BY <1>2
  <2> QED BY <2>2, <2>3
<1>4. decks' \in [1..Len(decks) -> Decks]
  BY <1>1, <1>2, <1>3 DEF LeaveCall
<1>5. decks' \in Seq(Decks)
  BY <1>1, <1>4, SeqDef
<1> QED BY <1>2, <1>3, <1>5 DEF DecksStep, Keeps, DecksFit, AliveIn

\* A deck whose slot is emptied, and one that it resumes.
LEMMA SpentStep ==
    ASSUME decks \in Seq(Decks), DecksFit, NEW d \in DOMAIN decks, NEW e,
           e \in DOMAIN decks => decks' = Resumed([decks EXCEPT ![d].slot = NoArm], e),
           e \notin DOMAIN decks => decks' = [decks EXCEPT ![d].slot = NoArm]
    PROVE  DecksStep
<1> DEFINE es == [decks EXCEPT ![d].slot = NoArm]
<1>1. decks[d] \in Decks
  BY LenProperties, ElementOfSeq
<1>2. [decks[d] EXCEPT !.slot = NoArm] \in Decks
  BY <1>1, NoArmType DEF Decks
<1>3. /\ es \in Seq(Decks) /\ DOMAIN es = DOMAIN decks
      /\ \A c \in DOMAIN decks :
           /\ es[c].id = decks[c].id /\ es[c].track = decks[c].track
           /\ es[c].state = decks[c].state /\ es[c].slot \in {decks[c].slot, NoArm}
  <2> DEFINE new == [decks[d] EXCEPT !.slot = NoArm]
  <2>1. es = [decks EXCEPT ![d] = new]
    OBVIOUS
  <2>2. /\ new \in Decks /\ new.id = decks[d].id /\ new.track = decks[d].track
        /\ new.state = decks[d].state /\ new.slot = NoArm
    BY <1>1, <1>2 DEF Decks
  <2> HIDE DEF new, es
  <2>3. /\ es \in Seq(Decks) /\ DOMAIN es = DOMAIN decks
        /\ \A c \in DOMAIN decks : es[c] = IF c = d THEN new ELSE decks[c]
    BY <2>1, <2>2, ExceptSeq, LenProperties
  <2> QED BY <2>2, <2>3
<1>4. CASE e \in DOMAIN decks
  <2> DEFINE fs == Resumed(es, e)
  <2>1. decks' = fs
    BY <1>4
  <2> HIDE DEF es
  <2>2. /\ fs \in Seq(Decks) /\ DOMAIN fs = DOMAIN decks
        /\ \A c \in DOMAIN decks :
             /\ fs[c].id = es[c].id /\ fs[c].track = es[c].track /\ fs[c].slot = es[c].slot
             /\ fs[c].state = IF c = e /\ es[c].state = "paused" THEN "playing" ELSE es[c].state
    BY <1>3, <1>4, ResumedFacts
  <2> HIDE DEF fs
  <2>3. \A c \in DOMAIN decks :
          /\ fs[c].id = decks[c].id /\ fs[c].track = decks[c].track
          /\ fs[c].slot \in {decks[c].slot, NoArm}
          /\ AliveIn(fs, c) => AliveIn(decks, c)
          /\ decks[c].state = "gone" => fs[c].state = "gone"
    BY <1>3, <2>2 DEF AliveIn
  <2> QED BY <2>1, <2>2, <2>3, SMTT(30) DEF DecksStep, Keeps, DecksFit
<1>5. CASE e \notin DOMAIN decks
  <2>1. decks' = es
    BY <1>5
  <2> HIDE DEF es
  <2> QED BY <1>3, <2>1 DEF DecksStep, Keeps, DecksFit, AliveIn
<1> QED BY <1>4, <1>5

LEMMA RuntimeDecks ==
    ASSUME Core, NEW d \in DOMAIN decks, DeckTimer(d) \/ DeckEnded(d) \/ ArmFires(d)
    PROVE  DecksStep
<1> USE DEF Core, Typed
<1>0. decks[d] \in Decks
  BY LenProperties, ElementOfSeq
<1>1. CASE DeckTimer(d)
  <2> DEFINE new == [decks[d] EXCEPT !.timers = @ + 1]
  <2>1. /\ new \in Decks /\ new.id = decks[d].id /\ new.track = decks[d].track
        /\ new.state = decks[d].state /\ new.slot = decks[d].slot
    BY <1>0, <1>1, DeckUpdates DEF DeckTimer
  <2>2. decks' = [decks EXCEPT ![d] = new]
    BY <1>1 DEF DeckTimer
  <2> HIDE DEF new
  <2> QED BY <2>1, <2>2, OneDeckStep
<1>2. CASE DeckEnded(d)
  <2> DEFINE new == [decks[d] EXCEPT !.state = "gone", !.slot = NoArm]
  <2>1. /\ new \in Decks /\ new.id = decks[d].id /\ new.track = decks[d].track
        /\ new.state = "gone" /\ new.slot = NoArm
    BY <1>0, NoArmType DEF Decks, DeckStates
  <2>2. decks' = [decks EXCEPT ![d] = new]
    BY <1>2 DEF DeckEnded
  <2> HIDE DEF new
  <2> QED BY <2>1, <2>2, OneDeckStep
<1>3. CASE ArmFires(d)
  <2>1. decks[d].slot.incoming \in DOMAIN decks
    BY <1>3 DEF ArmFires, DecksFit
  <2>2. \/ decks' = [decks EXCEPT ![d].slot = NoArm]
        \/ decks' = Resumed([decks EXCEPT ![d].slot = NoArm], decks[d].slot.incoming)
    BY <1>3 DEF ArmFires
  <2>3. -1 \notin DOMAIN decks
    BY LenProperties
  <2>4. CASE decks' = [decks EXCEPT ![d].slot = NoArm]
    BY <2>3, <2>4, SpentStep
  <2>5. CASE decks' = Resumed([decks EXCEPT ![d].slot = NoArm], decks[d].slot.incoming)
    BY <2>1, <2>5, SpentStep
  <2> QED BY <2>2, <2>4, <2>5
<1> QED BY <1>1, <1>2, <1>3

\* No step forgets a deck or revives one.
LEMMA DecksKept ==
    ASSUME Core, [Next]_vars
    PROVE  DecksStep
<1>1. CASE UNCHANGED vars
  BY <1>1, SameStep DEF vars, Core, Typed
<1> QED BY <1>1, PrefetchDecks, TransitionDecks, WorkerDecks, RearmDecks, SessionDecks,
           LeaveDecks, RuntimeDecks DEF Next

-----------------------------------------------------------------------------
(* The steps of the playback record.  A generation is never taken back, and *)
(* what is newly being replaced is newer than every prefetch under way.    *)

GenKeeps(p, q) ==
    /\ p.gen <= q.gen
    /\ q.replacing <= q.gen
    /\ q.replacing \in {None, p.replacing} \/ p.gen < q.replacing

PlaybackStep ==
    /\ playback' \in Playbacks /\ WellFormed(playback'.player) /\ GenKeeps(playback, playback')
    /\ ~DegradeArmed => playback'.replacing \in {None, playback.replacing}

LEMMA Nothings ==
    /\ NoPrepared \in Prepareds /\ NoRetiring \in Handed
    /\ NoPrepared.origin = None /\ NoPrepared.deck = None /\ NoPrepared.id = None
    /\ NoRetiring.deck = None /\ NoRetiring.id = None
    /\ ~NoPrepared.armed /\ ~NoPrepared.started
    /\ None \in Nat
  BY DEF NoPrepared, NoRetiring, Prepareds, Handed, AnyTrack, None, Kinds

LEMMA InvalidateFacts ==
    ASSUME NEW p \in Playbacks
    PROVE  /\ Invalidate(p) \in Playbacks
           /\ Invalidate(p).gen = p.gen + 1 /\ Invalidate(p).replacing = None
           /\ Invalidate(p).due = None /\ Invalidate(p).prepared = NoPrepared
           /\ Invalidate(p).player = p.player /\ Invalidate(p).active = p.active
           /\ Invalidate(p).current = p.current /\ Invalidate(p).retiring = p.retiring
           /\ Invalidate(p).fade = p.fade /\ Invalidate(p).automix = p.automix
<1> DEFINE g == p.gen + 1
<1>1. g \in Nat
  BY DEF Playbacks
<1>2. Invalidate(p) = [p EXCEPT !.gen = g, !.replacing = None, !.due = None, !.rearm = None,
                                !.prepared = NoPrepared]
  BY DEF Invalidate
<1> HIDE DEF g
<1>3. /\ Invalidate(p) \in Playbacks
      /\ Invalidate(p).gen = g /\ Invalidate(p).replacing = None
      /\ Invalidate(p).due = None /\ Invalidate(p).prepared = NoPrepared
      /\ Invalidate(p).player = p.player /\ Invalidate(p).active = p.active
      /\ Invalidate(p).current = p.current /\ Invalidate(p).retiring = p.retiring
      /\ Invalidate(p).fade = p.fade /\ Invalidate(p).automix = p.automix
  BY <1>1, <1>2, Nothings DEF Playbacks
<1> QED BY <1>3 DEF g

LEMMA PromoteFacts ==
    ASSUME NEW p \in Playbacks, NEW player \in Players, WellFormed(player),
           NEW origin \in Nat
    PROVE  /\ Promote(p, player, origin) \in Playbacks
           /\ Promote(p, player, origin).player = ReplaceCurrent(player, p.prepared.next)
           /\ WellFormed(Promote(p, player, origin).player)
           /\ Promote(p, player, origin).active = p.prepared.deck
           /\ Promote(p, player, origin).current = p.prepared.id
           /\ Promote(p, player, origin).retiring = [id |-> origin, deck |-> p.active]
           /\ Promote(p, player, origin).due = None
           /\ Promote(p, player, origin).prepared = NoPrepared
           /\ Promote(p, player, origin).gen = p.gen
           /\ Promote(p, player, origin).replacing = p.replacing
           /\ Promote(p, player, origin).automix = p.automix
<1>1. /\ p.prepared.next \in AnyTrack /\ p.prepared.deck \in Nat /\ p.prepared.id \in Nat
      /\ p.active \in Nat
  BY DEF Playbacks, Prepareds
<1>2. /\ ReplaceCurrent(player, p.prepared.next) \in Players
      /\ WellFormed(ReplaceCurrent(player, p.prepared.next))
  BY <1>1, UpdatesWellFormed DEF AnyTrack
<1>3. [id |-> origin, deck |-> p.active] \in Handed
  BY <1>1 DEF Handed
<1> QED BY <1>1, <1>2, <1>3, Nothings DEF Promote, Playbacks

LEMMA ForgetFacts ==
    ASSUME NEW p \in Playbacks, NEW id
    PROVE  /\ ForgetRetiring(p, id) \in Playbacks
           /\ ForgetRetiring(p, id).retiring =
                IF p.retiring.id = id THEN NoRetiring ELSE p.retiring
           /\ ForgetRetiring(p, id).player = p.player
           /\ ForgetRetiring(p, id).active = p.active
           /\ ForgetRetiring(p, id).current = p.current
           /\ ForgetRetiring(p, id).due = p.due
           /\ ForgetRetiring(p, id).prepared = p.prepared
           /\ ForgetRetiring(p, id).gen = p.gen
           /\ ForgetRetiring(p, id).replacing = p.replacing
           /\ ForgetRetiring(p, id).automix = p.automix
           /\ ForgetRetiring(p, id).fade = p.fade
  BY Nothings DEF ForgetRetiring, Playbacks

LEMMA PeekType ==
    ASSUME NEW p \in Players
    PROVE  PeekNextTrack(p) \in AnyTrack
<1>1. CASE p.looping
  BY <1>1 DEF PeekNextTrack, AnyTrack, Players
<1>2. CASE ~p.looping /\ p.queue = <<>>
  BY <1>2 DEF PeekNextTrack, AnyTrack
<1>3. CASE ~p.looping /\ p.queue # <<>> /\ p.shuffle
  <2>1. p.queue[SelectedShuffleIndex(p)] \in Tracks
    BY <1>3, SelectedInQueue, ElementOfSeq DEF Players
  <2> QED BY <1>3, <2>1 DEF PeekNextTrack, AnyTrack
<1>4. CASE ~p.looping /\ p.queue # <<>> /\ ~p.shuffle
  <2>1. Head(p.queue) \in Tracks
    BY <1>4, HeadTailProperties DEF Players
  <2> QED BY <1>4, <2>1 DEF PeekNextTrack, AnyTrack
<1> QED BY <1>1, <1>2, <1>3, <1>4

LEMMA SamePlayback ==
    ASSUME Core, playback' = playback
    PROVE  PlaybackStep
<1>1. playback.gen \in Nat /\ playback.replacing <= playback.gen
  BY DEF Core, Typed, ActiveFits, Playbacks
<1> QED BY <1>1 DEF Core, Typed, PlaybackStep, GenKeeps

\* A generation taken.
LEMMA NextGen ==
    ASSUME NEW p \in Playbacks
    PROVE  /\ [p EXCEPT !.gen = @ + 1] \in Playbacks
           /\ [p EXCEPT !.gen = @ + 1].gen = p.gen + 1
           /\ [p EXCEPT !.gen = @ + 1].replacing = p.replacing
           /\ [p EXCEPT !.gen = @ + 1].player = p.player
<1> DEFINE g == p.gen + 1
<1>1. g \in Nat
  BY DEF Playbacks
<1> HIDE DEF g
<1>2. /\ [p EXCEPT !.gen = g] \in Playbacks
      /\ [p EXCEPT !.gen = g].gen = g
      /\ [p EXCEPT !.gen = g].replacing = p.replacing
      /\ [p EXCEPT !.gen = g].player = p.player
  BY <1>1 DEF Playbacks
<1> QED BY <1>2 DEF g

LEMMA PrefetchPlayback ==
    ASSUME Core, NEW h \in Tasks, Prefetch(h)
    PROVE  PlaybackStep
<1> USE DEF Core, Typed
<1>0. /\ task[h] \in TaskStates
      /\ playback.gen \in Nat /\ playback.replacing \in Nat /\ playback.replacing <= playback.gen
  BY DEF ActiveFits, Playbacks
<1>1. CASE PrefetchBegin(h)
  <2>1. CASE playback' = playback
    BY <2>1, SamePlayback
  <2>2. CASE playback' = [playback EXCEPT !.gen = @ + 1]
    <3>1. playback' \in Playbacks /\ playback'.gen = playback.gen + 1
          /\ playback'.replacing = playback.replacing /\ playback'.player = playback.player
      BY <2>2, NextGen
    <3> QED BY <1>0, <3>1 DEF PlaybackStep, GenKeeps
  <2> QED BY <1>1, <2>1, <2>2 DEF PrefetchBegin
<1>2. CASE \/ SourcePrepared(h) \/ PrepareIncoming(h) \/ PrefetchFails(h)
           \/ ArmAccepted(h) \/ ArmRejected(h) \/ PrepareFallback(h)
  BY <1>2, SamePlayback DEF SourcePrepared, PrepareIncoming, PrefetchFails, ArmAccepted,
                            ArmRejected, PrepareFallback
<1>3. CASE InstallPrepared(h)
  <2> DEFINE new == [origin |-> task[h].id, next |-> task[h].next, id |-> task[h].incoming,
                     deck |-> task[h].deck, kind |-> task[h].kind, armed |-> task[h].armed,
                     gen |-> IF task[h].armed THEN task[h].gen ELSE None, started |-> FALSE]
  <2>1. new \in Prepareds
    <3>1. task[h].kind \in Kinds
      BY <1>3 DEF InstallPrepared, TasksFit, TaskFits
    <3> QED BY <1>0, <3>1 DEF TaskStates, Prepareds, None
  <2> HIDE DEF new
  <2>2. playback' = playback \/ playback' = [playback EXCEPT !.prepared = new]
    BY <1>3 DEF InstallPrepared, new
  <2>3. CASE playback' = [playback EXCEPT !.prepared = new]
    <3>1. playback' \in Playbacks /\ playback'.gen = playback.gen
          /\ playback'.replacing = playback.replacing /\ playback'.player = playback.player
      BY <2>1, <2>3 DEF Playbacks
    <3> QED BY <1>0, <3>1 DEF PlaybackStep, GenKeeps
  <2> QED BY <2>2, <2>3, SamePlayback
<1> QED BY <1>1, <1>2, <1>3 DEF Prefetch

LEMMA TransitionPlayback ==
    ASSUME Core, NEW h \in Tasks, Transition(h)
    PROVE  PlaybackStep
<1> USE DEF Core, Typed
<1>0. /\ task[h] \in TaskStates /\ task[h].id \in Nat
      /\ playback.gen \in Nat /\ playback.replacing \in Nat /\ playback.replacing <= playback.gen
  BY DEF ActiveFits, Playbacks, TaskStates
<1>1. CASE TransitionBegin(h)
  <2>1. CASE playback' = playback
    BY <2>1, SamePlayback
  <2>2. ASSUME NEW due \in Nat, playback' = [playback EXCEPT !.gen = @ + 1, !.due = due]
        PROVE  PlaybackStep
    <3> DEFINE p == [playback EXCEPT !.gen = @ + 1]
    <3>0. p \in Playbacks /\ p.gen = playback.gen + 1
          /\ p.replacing = playback.replacing /\ p.player = playback.player
      BY NextGen
    <3>2. playback' = [p EXCEPT !.due = due]
      BY <2>2
    <3> HIDE DEF p
    <3>1. playback' \in Playbacks /\ playback'.gen = playback.gen + 1
          /\ playback'.replacing = playback.replacing /\ playback'.player = playback.player
      BY <2>2, <3>0, <3>2 DEF Playbacks
    <3> QED BY <1>0, <3>1 DEF PlaybackStep, GenKeeps
  <2>3. playback.due \in Nat
    BY DEF Playbacks
  <2>4. \/ playback' = playback
        \/ \E due \in {playback.due, task[h].id} :
              playback' = [playback EXCEPT !.gen = @ + 1, !.due = due]
    BY <1>1 DEF TransitionBegin
  <2> QED BY <1>0, <2>1, <2>2, <2>3, <2>4
<1>2. CASE CheckTarget(h)
  BY <1>2, SamePlayback DEF CheckTarget
<1>3. CASE TransitionWake(h)
  <2>1. CASE playback' = [playback EXCEPT !.prepared = NoPrepared]
    <3>1. playback' \in Playbacks /\ playback'.gen = playback.gen
          /\ playback'.replacing = playback.replacing /\ playback'.player = playback.player
      BY <2>1, Nothings DEF Playbacks
    <3> QED BY <1>0, <3>1 DEF PlaybackStep, GenKeeps
  <2>2. CASE playback' = [playback EXCEPT !.prepared = NoPrepared,
                                          !.active = playback.prepared.deck]
    <3>1. playback.prepared.deck \in Nat
      BY DEF Playbacks, Prepareds
    <3>2. playback' \in Playbacks /\ playback'.gen = playback.gen
          /\ playback'.replacing = playback.replacing /\ playback'.player = playback.player
      BY <2>2, <3>1, Nothings DEF Playbacks
    <3> QED BY <1>0, <3>2 DEF PlaybackStep, GenKeeps
  <2>3. ASSUME NEW player \in PrepareNextTrack(playback.player),
               \/ playback' = ForgetRetiring(Promote(playback, player, task[h].id), task[h].id)
               \/ playback' = [Promote(playback, player, task[h].id) EXCEPT !.fade = task[h].id]
        PROVE  PlaybackStep
    <3>1. player \in Players /\ WellFormed(player)
      BY PrepareNextWellFormed DEF Playbacks
    <3> DEFINE q == Promote(playback, player, task[h].id)
    <3>2. /\ q \in Playbacks /\ WellFormed(q.player)
          /\ q.gen = playback.gen /\ q.replacing = playback.replacing
      BY <1>0, <3>1, PromoteFacts
    <3> HIDE DEF q
    <3>3. CASE playback' = ForgetRetiring(q, task[h].id)
      BY <1>0, <3>2, <3>3, ForgetFacts DEF PlaybackStep, GenKeeps
    <3>4. CASE playback' = [q EXCEPT !.fade = task[h].id]
      <4>1. playback' \in Playbacks /\ playback'.gen = q.gen
            /\ playback'.replacing = q.replacing /\ playback'.player = q.player
        BY <1>0, <3>2, <3>4 DEF Playbacks
      <4> QED BY <1>0, <3>2, <4>1 DEF PlaybackStep, GenKeeps
    <3> QED BY <2>3, <3>3, <3>4 DEF q
  <2> QED BY <1>3, <2>1, <2>2, <2>3 DEF TransitionWake, TransitionDropped
<1> QED BY <1>1, <1>2, <1>3 DEF Transition

\* The record after the next track was taken.
LEMMA TakeFacts ==
    ASSUME NEW p \in Playbacks, NEW player \in Players
    PROVE  LET q == [Invalidate(p) EXCEPT !.active = None, !.current = None, !.player = player]
           IN /\ q \in Playbacks
              /\ q.gen = p.gen + 1 /\ q.replacing = None /\ q.player = player
              /\ q.active = None /\ q.current = None /\ q.due = None
              /\ q.prepared = NoPrepared /\ q.retiring = p.retiring
<1> DEFINE i == Invalidate(p)
<1>1. /\ i \in Playbacks
      /\ i.gen = p.gen + 1 /\ i.replacing = None /\ i.due = None
      /\ i.prepared = NoPrepared /\ i.retiring = p.retiring
  BY InvalidateFacts
<1> HIDE DEF i
<1> DEFINE q == [i EXCEPT !.active = None, !.current = None, !.player = player]
<1>2. /\ q \in Playbacks
      /\ q.gen = i.gen /\ q.replacing = i.replacing /\ q.player = player
      /\ q.active = None /\ q.current = None /\ q.due = i.due
      /\ q.prepared = i.prepared /\ q.retiring = i.retiring
  BY <1>1, Nothings DEF Playbacks
<1> HIDE DEF q
<1>3. /\ q \in Playbacks
      /\ q.gen = p.gen + 1 /\ q.replacing = None /\ q.player = player
      /\ q.active = None /\ q.current = None /\ q.due = None
      /\ q.prepared = NoPrepared /\ q.retiring = p.retiring
  BY <1>1, <1>2
<1> QED BY <1>3 DEF q, i

\* A record whose generation and replacement are those of an invalidation.
LEMMA FreshGen ==
    ASSUME Core, playback' \in Playbacks, WellFormed(playback'.player),
           playback'.gen = playback.gen + 1, playback'.replacing = None
    PROVE  PlaybackStep
<1>1. playback.gen \in Nat
  BY DEF Core, Typed, Playbacks
<1> QED BY <1>1 DEF PlaybackStep, GenKeeps, None

LEMMA SameGen ==
    ASSUME Core, playback' \in Playbacks, WellFormed(playback'.player),
           playback'.gen = playback.gen, playback'.replacing \in {None, playback.replacing}
    PROVE  PlaybackStep
<1>1. playback.gen \in Nat /\ playback.replacing <= playback.gen
  BY DEF Core, Typed, Playbacks, ActiveFits
<1> QED BY <1>1 DEF PlaybackStep, GenKeeps, None

LEMMA TakePlayback ==
    ASSUME Core, TakeNextTrack
    PROVE  PlaybackStep
<1>1. PICK player \in PrepareNextTrack(playback.player) :
        playback' = [Invalidate(playback) EXCEPT !.active = None, !.current = None,
                                                 !.player = player]
  BY DEF TakeNextTrack
<1>2. player \in Players /\ WellFormed(player) /\ playback \in Playbacks
  BY PrepareNextWellFormed DEF Core, Typed, Playbacks
<1>3. /\ playback' \in Playbacks /\ playback'.gen = playback.gen + 1
      /\ playback'.replacing = None /\ playback'.player = player
  BY <1>1, <1>2, TakeFacts
<1> QED BY <1>2, <1>3, FreshGen

\* What DegradeArmed makes of the record.
LEMMA DegradeFacts ==
    ASSUME NEW p \in Playbacks
    PROVE  /\ LET q == [p EXCEPT !.prepared.armed = FALSE, !.prepared.gen = None,
                                 !.prepared.started = TRUE]
              IN /\ q \in Playbacks /\ q.gen = p.gen /\ q.replacing = p.replacing
                 /\ q.player = p.player /\ q.active = p.active /\ q.current = p.current
                 /\ q.due = p.due /\ q.retiring = p.retiring /\ q.automix = p.automix
                 /\ q.prepared.deck = p.prepared.deck /\ q.prepared.next = p.prepared.next
                 /\ q.prepared.origin = p.prepared.origin /\ q.prepared.id = p.prepared.id
           /\ LET q == [p EXCEPT !.gen = @ + 1, !.replacing = p.gen + 1,
                                 !.prepared.armed = FALSE, !.prepared.gen = None,
                                 !.prepared.started = FALSE]
              IN /\ q \in Playbacks /\ q.gen = p.gen + 1 /\ q.replacing = p.gen + 1
                 /\ q.player = p.player /\ q.active = p.active /\ q.current = p.current
                 /\ q.due = p.due /\ q.retiring = p.retiring /\ q.automix = p.automix
                 /\ q.prepared.deck = p.prepared.deck /\ q.prepared.next = p.prepared.next
                 /\ q.prepared.origin = p.prepared.origin /\ q.prepared.id = p.prepared.id
<1> DEFINE a == [p.prepared EXCEPT !.armed = FALSE, !.gen = None, !.started = TRUE]
           b == [p.prepared EXCEPT !.armed = FALSE, !.gen = None, !.started = FALSE]
           g == p.gen + 1
<1>1. g \in Nat
  BY DEF Playbacks
<1>2. \A x \in {a, b} : /\ x \in Prepareds
                        /\ x.deck = p.prepared.deck /\ x.next = p.prepared.next
                        /\ x.origin = p.prepared.origin /\ x.id = p.prepared.id
  BY Nothings, ZenonT(40) DEF Playbacks, Prepareds
<1>3. /\ [p EXCEPT !.prepared.armed = FALSE, !.prepared.gen = None, !.prepared.started = TRUE]
           = [p EXCEPT !.prepared = a]
      /\ [p EXCEPT !.gen = @ + 1, !.replacing = p.gen + 1, !.prepared.armed = FALSE,
                   !.prepared.gen = None, !.prepared.started = FALSE]
           = [p EXCEPT !.gen = g, !.replacing = g, !.prepared = b]
  BY DEF Playbacks
<1> HIDE DEF a, b, g
<1> DEFINE q == [p EXCEPT !.prepared = a]
           r == [p EXCEPT !.gen = g, !.replacing = g, !.prepared = b]
<1>4. /\ q \in Playbacks /\ q.gen = p.gen /\ q.replacing = p.replacing
      /\ q.player = p.player /\ q.active = p.active /\ q.current = p.current
      /\ q.due = p.due /\ q.retiring = p.retiring /\ q.automix = p.automix
      /\ q.prepared = a
  BY <1>2 DEF Playbacks
<1>5. /\ r \in Playbacks /\ r.gen = g /\ r.replacing = g
      /\ r.player = p.player /\ r.active = p.active /\ r.current = p.current
      /\ r.due = p.due /\ r.retiring = p.retiring /\ r.automix = p.automix
      /\ r.prepared = b
  BY <1>1, <1>2 DEF Playbacks
<1> HIDE DEF q, r
<1>6. /\ q \in Playbacks /\ q.gen = p.gen /\ q.replacing = p.replacing
      /\ q.player = p.player /\ q.active = p.active /\ q.current = p.current
      /\ q.due = p.due /\ q.retiring = p.retiring /\ q.automix = p.automix
      /\ q.prepared.deck = p.prepared.deck /\ q.prepared.next = p.prepared.next
      /\ q.prepared.origin = p.prepared.origin /\ q.prepared.id = p.prepared.id
  BY <1>2, <1>4
<1>7. /\ r \in Playbacks /\ r.gen = p.gen + 1 /\ r.replacing = p.gen + 1
      /\ r.player = p.player /\ r.active = p.active /\ r.current = p.current
      /\ r.due = p.due /\ r.retiring = p.retiring /\ r.automix = p.automix
      /\ r.prepared.deck = p.prepared.deck /\ r.prepared.next = p.prepared.next
      /\ r.prepared.origin = p.prepared.origin /\ r.prepared.id = p.prepared.id
  BY <1>2, <1>5 DEF g
<1> QED BY <1>3, <1>6, <1>7 DEF q, r

\* What InstallReplacement makes of it.
LEMMA ReplacedFacts ==
    ASSUME NEW p \in Playbacks, NEW d \in Nat
    PROVE  LET q == [p EXCEPT !.prepared.deck = d, !.prepared.kind = "crossfade",
                              !.replacing = None]
           IN /\ q \in Playbacks /\ q.gen = p.gen /\ q.replacing = None
              /\ q.player = p.player /\ q.active = p.active /\ q.current = p.current
              /\ q.due = p.due /\ q.retiring = p.retiring /\ q.automix = p.automix
              /\ q.prepared.deck = d /\ q.prepared.next = p.prepared.next
              /\ q.prepared.origin = p.prepared.origin /\ q.prepared.id = p.prepared.id
<1> DEFINE a == [p.prepared EXCEPT !.deck = d, !.kind = "crossfade"]
<1>2. /\ a \in Prepareds /\ a.deck = d /\ a.next = p.prepared.next
      /\ a.origin = p.prepared.origin /\ a.id = p.prepared.id
  BY DEF Playbacks, Prepareds, Kinds, TransitionKinds
<1>3. [p EXCEPT !.prepared.deck = d, !.prepared.kind = "crossfade", !.replacing = None]
           = [p EXCEPT !.prepared = a, !.replacing = None]
  BY DEF Playbacks
<1> HIDE DEF a
<1> DEFINE q == [p EXCEPT !.prepared = a, !.replacing = None]
<1>4. /\ q \in Playbacks /\ q.gen = p.gen /\ q.replacing = None
      /\ q.player = p.player /\ q.active = p.active /\ q.current = p.current
      /\ q.due = p.due /\ q.retiring = p.retiring /\ q.automix = p.automix
      /\ q.prepared = a
  BY <1>2, Nothings DEF Playbacks
<1> HIDE DEF q
<1>5. /\ q \in Playbacks /\ q.gen = p.gen /\ q.replacing = None
      /\ q.player = p.player /\ q.active = p.active /\ q.current = p.current
      /\ q.due = p.due /\ q.retiring = p.retiring /\ q.automix = p.automix
      /\ q.prepared.deck = d /\ q.prepared.next = p.prepared.next
      /\ q.prepared.origin = p.prepared.origin /\ q.prepared.id = p.prepared.id
  BY <1>2, <1>4
<1> QED BY <1>3, <1>5 DEF q

\* What AdvanceHandoff makes of it.
LEMMA HandoffFacts ==
    ASSUME NEW p \in Playbacks, NEW player \in Players, WellFormed(player), NEW id \in Nat
    PROVE  LET q == [ForgetRetiring(Promote(p, player, id), id) EXCEPT !.replacing = None]
           IN /\ q \in Playbacks /\ WellFormed(q.player)
              /\ q.player = ReplaceCurrent(player, p.prepared.next)
              /\ q.gen = p.gen /\ q.replacing = None /\ q.active = p.prepared.deck
              /\ q.current = p.prepared.id /\ q.due = None /\ q.prepared = NoPrepared
              /\ q.retiring = NoRetiring /\ q.automix = p.automix
<1> DEFINE a == Promote(p, player, id)
<1>1. /\ a \in Playbacks
      /\ a.player = ReplaceCurrent(player, p.prepared.next) /\ WellFormed(a.player)
      /\ a.active = p.prepared.deck /\ a.current = p.prepared.id
      /\ a.retiring = [id |-> id, deck |-> p.active] /\ a.due = None
      /\ a.prepared = NoPrepared /\ a.gen = p.gen /\ a.automix = p.automix
  BY PromoteFacts
<1> HIDE DEF a
<1> DEFINE b == ForgetRetiring(a, id)
<1>2. /\ b \in Playbacks /\ b.retiring = NoRetiring
      /\ b.player = a.player /\ b.active = a.active /\ b.current = a.current
      /\ b.due = a.due /\ b.prepared = a.prepared /\ b.gen = a.gen /\ b.automix = a.automix
  BY <1>1, ForgetFacts
<1> HIDE DEF b
<1> DEFINE q == [b EXCEPT !.replacing = None]
<1>3. /\ q \in Playbacks /\ q.replacing = None /\ q.retiring = b.retiring
      /\ q.player = b.player /\ q.active = b.active /\ q.current = b.current
      /\ q.due = b.due /\ q.prepared = b.prepared /\ q.gen = b.gen /\ q.automix = b.automix
  BY <1>2, Nothings DEF Playbacks
<1> HIDE DEF q
<1>4. /\ q \in Playbacks /\ WellFormed(q.player)
      /\ q.player = ReplaceCurrent(player, p.prepared.next)
      /\ q.gen = p.gen /\ q.replacing = None /\ q.active = p.prepared.deck
      /\ q.current = p.prepared.id /\ q.due = None /\ q.prepared = NoPrepared
      /\ q.retiring = NoRetiring /\ q.automix = p.automix
  BY <1>1, <1>2, <1>3
<1> QED BY <1>4 DEF q, b, a

LEMMA WorkerPlayback ==
    ASSUME Core, WorkerOnly
    PROVE  PlaybackStep
<1> USE DEF Core, Typed
<1>0. /\ Worker \in Tasks /\ task[Worker] \in TaskStates
      /\ playback.gen \in Nat /\ playback.replacing \in Nat /\ playback.replacing <= playback.gen
  BY DEF ActiveFits, Playbacks, Tasks
<1>1. CASE TakeEvent \/ TransitionStarted \/ ReplacementPrepared
  BY <1>1, SamePlayback DEF TakeEvent, TransitionStarted, ReplacementPrepared
<1>2. CASE DegradeArmed
  <2> DEFINE q == [playback EXCEPT !.prepared.armed = FALSE, !.prepared.gen = None,
                                   !.prepared.started = TRUE]
             r == [playback EXCEPT !.gen = @ + 1, !.replacing = playback.gen + 1,
                                   !.prepared.armed = FALSE, !.prepared.gen = None,
                                   !.prepared.started = FALSE]
  <2>1. /\ q \in Playbacks /\ q.gen = playback.gen /\ q.replacing = playback.replacing
        /\ q.player = playback.player
        /\ r \in Playbacks /\ r.gen = playback.gen + 1 /\ r.replacing = playback.gen + 1
        /\ r.player = playback.player
    BY DegradeFacts
  <2>2. playback' \in {playback, q, r}
    BY <1>2 DEF DegradeArmed
  <2> HIDE DEF q, r
  <2>3. CASE playback' = playback
    BY <2>3, SamePlayback
  <2>4. CASE playback' = q
    BY <2>1, <2>4, SameGen
  <2>5. CASE playback' = r
    BY <1>0, <1>2, <2>1, <2>5 DEF PlaybackStep, GenKeeps
  <2> QED BY <2>2, <2>3, <2>4, <2>5
<1>3. CASE ReplacementFails
  <2> DEFINE g == playback.gen + 1
             q == [playback EXCEPT !.gen = g, !.replacing = None, !.due = None,
                                   !.prepared = NoPrepared]
  <2>1. playback' \in {playback, q}
    BY <1>3 DEF ReplacementFails
  <2>2. g \in Nat
    BY <1>0
  <2> HIDE DEF g
  <2>3. /\ q \in Playbacks /\ q.gen = g /\ q.replacing = None /\ q.player = playback.player
    BY <2>2, Nothings DEF Playbacks
  <2> HIDE DEF q
  <2> QED BY <2>1, <2>3, SamePlayback, FreshGen DEF g
<1>4. CASE InstallReplacement
  <2> DEFINE q == [playback EXCEPT !.prepared.deck = task[Worker].deck,
                                   !.prepared.kind = "crossfade", !.replacing = None]
  <2>1. playback' \in {playback, q}
    BY <1>4 DEF InstallReplacement
  <2>2. q \in Playbacks /\ q.gen = playback.gen /\ q.replacing = None /\ q.player = playback.player
    <3>1. task[Worker].deck \in Nat /\ playback \in Playbacks
      BY <1>0 DEF TaskStates
    <3> HIDE DEF Core, Typed
    <3> QED BY <3>1, ReplacedFacts
  <2> HIDE DEF q
  <2> QED BY <2>1, <2>2, SamePlayback, SameGen
<1>5. CASE Advance
  <2>1. CASE playback' = playback
    BY <2>1, SamePlayback
  <2>2. CASE AdvancePrepared(task[Worker].id)
    <3> DEFINE g == playback.gen + 1
               q == [playback EXCEPT !.gen = g, !.replacing = None, !.prepared = NoPrepared]
    <3>1. playback' = q
      BY <2>2 DEF AdvancePrepared
    <3>2. g \in Nat
      BY <1>0
    <3> HIDE DEF g
    <3>3. q \in Playbacks /\ q.gen = g /\ q.replacing = None /\ q.player = playback.player
      BY <3>2, Nothings DEF Playbacks
    <3> HIDE DEF q
    <3> QED BY <3>1, <3>3, FreshGen DEF g
  <2>3. CASE AdvanceHandoff(task[Worker].id) /\ playback' # playback
    <3>1. PICK player \in PrepareNextTrack(playback.player) :
            playback' = [ForgetRetiring(Promote(playback, player, task[Worker].id),
                                        task[Worker].id) EXCEPT !.replacing = None]
      BY <2>3 DEF AdvanceHandoff
    <3>2. player \in Players /\ WellFormed(player) /\ task[Worker].id \in Nat
      BY <1>0, PrepareNextWellFormed DEF Playbacks, TaskStates
    <3>3. /\ playback' \in Playbacks /\ WellFormed(playback'.player)
          /\ playback'.gen = playback.gen /\ playback'.replacing = None
      BY <3>1, <3>2, HandoffFacts
    <3> QED BY <3>3, SameGen
  <2>4. CASE TakeNextTrack
    BY <2>4, TakePlayback
  <2> QED BY <1>5, <2>1, <2>2, <2>3, <2>4 DEF Advance, AdvanceLoop
<1>6. CASE NextStarted
  <2> DEFINE player == ReplaceCurrent(playback.player, task[Worker].next)
             q == [playback EXCEPT !.player = player, !.current = NextDeck, !.active = NextDeck]
  <2>1. playback' \in {playback, q}
    BY <1>6 DEF NextStarted
  <2>2. NextDeck \in Nat
    BY LenProperties DEF NextDeck
  <2>3. player \in Players /\ WellFormed(player)
    BY <1>0, UpdatesWellFormed DEF TaskStates, AnyTrack, Playbacks
  <2> HIDE DEF player
  <2>4. q \in Playbacks /\ q.gen = playback.gen /\ q.replacing = playback.replacing
        /\ q.player = player
    BY <2>2, <2>3 DEF Playbacks
  <2> HIDE DEF q
  <2> QED BY <2>1, <2>3, <2>4, SamePlayback, SameGen
<1>7. CASE NextFails
  <2> DEFINE player == ClearCurrent(DisableLoop(playback.player))
             q == [playback EXCEPT !.player = player, !.current = None]
  <2>1. playback' \in {playback, q}
    BY <1>7 DEF NextFails
  <2>2. DisableLoop(playback.player) \in Players /\ WellFormed(DisableLoop(playback.player))
    BY UpdatesWellFormed DEF Playbacks
  <2>3. player \in Players /\ WellFormed(player)
    BY <2>2, UpdatesWellFormed
  <2> HIDE DEF player
  <2>4. q \in Playbacks /\ q.gen = playback.gen /\ q.replacing = playback.replacing
        /\ q.player = player
    BY <2>3, Nothings DEF Playbacks
  <2> HIDE DEF q
  <2> QED BY <2>1, <2>3, <2>4, SamePlayback, SameGen
<1>8. CASE AdvanceAgain
  BY <1>8, SamePlayback, TakePlayback DEF AdvanceAgain, AdvanceLoop
<1> QED BY <1>1, <1>2, <1>3, <1>4, <1>5, <1>6, <1>7, <1>8 DEF WorkerOnly

LEMMA RearmPlayback ==
    ASSUME Core, NEW r \in Rearmers, RearmBegin(r) \/ RearmStep(r)
    PROVE  PlaybackStep
<1> USE DEF Core, Typed
<1>0. /\ task[r] \in TaskStates /\ playback.rearm \in Nat /\ task[r].id \in Nat
  BY DEF Playbacks, Tasks, TaskStates
<1>1. CASE RearmBegin(r) \/ RearmTransition(r)
  BY <1>1, SamePlayback DEF RearmBegin, RearmTransition
<1>2. ASSUME NEW rearm \in Nat, NEW due \in Nat,
             playback' = [playback EXCEPT !.rearm = rearm, !.due = due]
      PROVE  PlaybackStep
  <2>1. /\ playback' \in Playbacks /\ playback'.gen = playback.gen
        /\ playback'.replacing = playback.replacing /\ playback'.player = playback.player
    BY <1>2 DEF Playbacks
  <2> QED BY <2>1, SameGen
<1>3. CASE RearmClaim(r)
  <2>1. \/ playback' = playback
        \/ playback' = [playback EXCEPT !.rearm = task[r].id,
                          !.due = IF @ = task[r].id /\ ~HasPrepared(playback) THEN None ELSE @]
    BY <1>3 DEF RearmClaim
  <2>2. (IF playback.due = task[r].id /\ ~HasPrepared(playback) THEN None ELSE playback.due) \in Nat
    BY Nothings DEF Playbacks
  <2> QED BY <1>0, <1>2, <2>1, <2>2, SamePlayback
<1>4. CASE RearmCheck(r)
  <2> DEFINE rearm == IF playback.rearm = task[r].id THEN None ELSE playback.rearm
  <2>1. rearm \in Nat
    BY <1>0, Nothings
  <2>2. playback' = [playback EXCEPT !.rearm = rearm]
    BY <1>4 DEF RearmCheck
  <2> HIDE DEF rearm
  <2>3. /\ playback' \in Playbacks /\ playback'.gen = playback.gen
        /\ playback'.replacing = playback.replacing /\ playback'.player = playback.player
    BY <2>1, <2>2 DEF Playbacks
  <2> QED BY <2>3, SameGen
<1>5. CASE RearmOutside(r)
  <2>1. playback' = playback \/ playback' = Invalidate(playback)
    BY <1>5 DEF RearmOutside
  <2> QED BY <2>1, SamePlayback, InvalidateFacts, FreshGen
<1> QED BY <1>1, <1>3, <1>4, <1>5 DEF RearmStep

\* The record after a skip and after the session was cleared.
LEMMA Skipped ==
    ASSUME playback \in Playbacks, WellFormed(playback.player), Skip \/ ClearSession
    PROVE  /\ playback' \in Playbacks /\ WellFormed(playback'.player)
           /\ playback'.gen = playback.gen + 1 /\ playback'.replacing = None
           /\ playback'.active = None /\ playback'.due = None
           /\ playback'.prepared = NoPrepared /\ playback'.retiring = NoRetiring
           /\ playback'.current \in {playback.current, None}
<1> DEFINE i == Invalidate(playback)
<1>1. /\ playback.player \in Players /\ playback.current \in Nat
      /\ i \in Playbacks /\ i.gen = playback.gen + 1 /\ i.replacing = None
      /\ i.due = None /\ i.prepared = NoPrepared
      /\ i.player = playback.player /\ i.current = playback.current
  BY InvalidateFacts DEF Playbacks
<1>2. CASE Skip
  <2> DEFINE player == DisableLoop(playback.player)
  <2>1. player \in Players /\ WellFormed(player)
    BY <1>1, UpdatesWellFormed
  <2>2. playback' = [i EXCEPT !.player = DisableLoop(@), !.active = None,
                              !.retiring = NoRetiring, !.fade = None]
    BY <1>2 DEF Skip
  <2> HIDE DEF i
  <2>3. playback' = [i EXCEPT !.player = player, !.active = None,
                              !.retiring = NoRetiring, !.fade = None]
    BY <1>1, <2>2
  <2> HIDE DEF player
  <2>4. /\ playback' \in Playbacks /\ playback'.player = player
        /\ playback'.gen = i.gen /\ playback'.replacing = i.replacing
        /\ playback'.active = None /\ playback'.due = i.due
        /\ playback'.prepared = i.prepared /\ playback'.retiring = NoRetiring
        /\ playback'.current = i.current
    BY <1>1, <2>1, <2>3, Nothings DEF Playbacks
  <2> QED BY <1>1, <2>1, <2>4
<1>3. CASE ClearSession
  <2> DEFINE player == ClearPlayer(playback.player)
  <2>1. player \in Players /\ WellFormed(player)
    BY <1>1, UpdatesWellFormed
  <2>2. playback' = [i EXCEPT !.player = player, !.active = None,
                        !.retiring = NoRetiring, !.fade = None, !.current = None]
    BY <1>3 DEF ClearSession, ClearPlayer
  <2> HIDE DEF player, i
  <2>4. /\ playback' \in Playbacks /\ playback'.player = player
        /\ playback'.gen = i.gen /\ playback'.replacing = i.replacing
        /\ playback'.active = None /\ playback'.due = i.due
        /\ playback'.prepared = i.prepared /\ playback'.retiring = NoRetiring
        /\ playback'.current = None
    BY <1>1, <2>1, <2>2, Nothings DEF Playbacks
  <2> QED BY <1>1, <2>1, <2>4
<1> QED BY <1>2, <1>3

\* Toggles change the modes only.
LEMMA ToggledFacts ==
    ASSUME NEW p \in Playbacks, WellFormed(p.player), NEW q \in ToggledModes(p)
    PROVE  /\ q \in Playbacks /\ WellFormed(q.player)
           /\ q.gen = p.gen /\ q.replacing = p.replacing /\ q.active = p.active
           /\ q.current = p.current /\ q.due = p.due /\ q.prepared = p.prepared
           /\ q.retiring = p.retiring /\ q.fade = p.fade
           /\ q.player.current = p.player.current
<1>0. p.player \in Players
  BY DEF Playbacks
<1>1. ASSUME NEW player \in Players, WellFormed(player), NEW a \in BOOLEAN,
             player.current = p.player.current,
             q = [p EXCEPT !.automix = a, !.player = player]
      PROVE  /\ q \in Playbacks /\ WellFormed(q.player)
             /\ q.gen = p.gen /\ q.replacing = p.replacing /\ q.active = p.active
             /\ q.current = p.current /\ q.due = p.due /\ q.prepared = p.prepared
             /\ q.retiring = p.retiring /\ q.fade = p.fade
             /\ q.player.current = p.player.current
  BY <1>1 DEF Playbacks
<1>2. /\ DisableLoop(p.player) \in Players /\ WellFormed(DisableLoop(p.player))
      /\ DisableLoop(p.player).current = p.player.current
  <2>1. DisableLoop(p.player).current = p.player.current
    BY <1>0 DEF DisableLoop, Players
  <2> QED BY <1>0, <2>1, UpdatesWellFormed
<1>3. ASSUME NEW x \in Players, WellFormed(x)
      PROVE  /\ ToggleLoop(x) \in Players /\ WellFormed(ToggleLoop(x))
             /\ ToggleLoop(x).current = x.current
  <2>1. ToggleLoop(x).current = x.current
    BY <1>3 DEF ToggleLoop, Players
  <2> QED BY <1>3, <2>1, UpdatesWellFormed
<1>4. CASE q = [p EXCEPT !.automix = ~@,
                        !.player = IF p.automix THEN @ ELSE DisableLoop(@)]
  <2>1. (~p.automix) \in BOOLEAN
    OBVIOUS
  <2>2. CASE p.automix
    BY <1>0, <1>1, <1>4, <2>1, <2>2
  <2>3. CASE ~p.automix
    BY <1>1, <1>2, <1>4, <2>1, <2>3
  <2> QED BY <2>2, <2>3
<1>5. CASE q = [p EXCEPT !.automix = FALSE,
                        !.player = ToggleLoop(IF p.automix THEN DisableLoop(@) ELSE @)]
  <2>1. CASE p.automix
    BY <1>1, <1>2, <1>3, <1>5, <2>1
  <2>2. CASE ~p.automix
    BY <1>0, <1>1, <1>3, <1>5, <2>2
  <2> QED BY <2>1, <2>2
<1>6. CASE \E player \in ToggleShuffle(p.player) : q = [p EXCEPT !.player = player]
  <2>1. PICK player \in ToggleShuffle(p.player) : q = [p EXCEPT !.player = player]
    BY <1>6
  <2>2. player \in Players /\ WellFormed(player)
    BY <1>0, SetShuffleWellFormed DEF ToggleShuffle, Players
  <2>3. player.current = p.player.current
    BY <1>0 DEF ToggleShuffle, SetShuffleEnabled, EnsureShuffleChoice, Players
  <2>4. q = [p EXCEPT !.automix = p.automix, !.player = player] /\ p.automix \in BOOLEAN
    BY <2>1 DEF Playbacks
  <2> QED BY <1>1, <2>2, <2>3, <2>4
<1> QED BY <1>4, <1>5, <1>6 DEF ToggledModes

LEMMA SessionPlayback ==
    ASSUME Core, FadeEnds \/ Commands \/ BeginDisconnect \/ ClearSession \/ LeaveCall
    PROVE  PlaybackStep
<1> USE DEF Core, Typed
<1>1. CASE FadeEnds
  <2>1. \/ playback' = playback
        \/ \E f \in fades : playback' = ForgetRetiring(playback, f.id)
    BY <1>1 DEF FadeEnds
  <2> QED BY <2>1, SamePlayback, SameGen, ForgetFacts
<1>2. CASE Skip \/ ClearSession
  <2>1. /\ playback' \in Playbacks /\ WellFormed(playback'.player)
        /\ playback'.gen = playback.gen + 1 /\ playback'.replacing = None
    BY <1>2, Skipped
  <2> QED BY <2>1, FreshGen
<1>3. CASE Toggle
  <2>1. PICK q \in ToggledModes(playback) : playback' = Invalidate(q)
    BY <1>3 DEF Toggle
  <2>2. q \in Playbacks /\ WellFormed(q.player) /\ q.gen = playback.gen
    BY ToggledFacts
  <2>3. /\ playback' \in Playbacks /\ playback'.gen = q.gen + 1
        /\ playback'.replacing = None /\ playback'.player = q.player
    BY <2>1, <2>2, InvalidateFacts
  <2> QED BY <2>2, <2>3, FreshGen
<1>4. ASSUME NEW t \in Tracks, EnqueueTrack(t)
      PROVE  PlaybackStep
  <2>1. PICK player \in Enqueue(playback.player, t) :
          playback' = [playback EXCEPT !.player = player]
    BY <1>4 DEF EnqueueTrack
  <2>2. player \in Players /\ WellFormed(player)
    BY EnqueueWellFormed DEF Playbacks
  <2>3. /\ playback' \in Playbacks /\ playback'.gen = playback.gen
        /\ playback'.replacing = playback.replacing /\ playback'.player = player
    BY <2>1, <2>2 DEF Playbacks
  <2> QED BY <2>2, <2>3, SameGen
<1>5. CASE BeginDisconnect \/ LeaveCall
  BY <1>5, SamePlayback DEF BeginDisconnect, LeaveCall
<1> QED BY <1>1, <1>2, <1>3, <1>4, <1>5 DEF Commands

LEMMA PlaybackKept ==
    ASSUME Core, [Next]_vars
    PROVE  PlaybackStep
<1>1. CASE UNCHANGED vars
  BY <1>1, SamePlayback DEF vars
<1>2. ASSUME NEW d \in DOMAIN decks, DeckTimer(d) \/ DeckEnded(d) \/ ArmFires(d)
      PROVE  PlaybackStep
  BY <1>2, SamePlayback DEF DeckTimer, DeckEnded, ArmFires
<1> QED BY <1>1, <1>2, PrefetchPlayback, TransitionPlayback, WorkerPlayback, RearmPlayback,
           SessionPlayback DEF Next

-----------------------------------------------------------------------------
(* The steps of the tasks: one of them moves, the others keep what they    *)
(* work with.                                                              *)

TasksStep == task' \in [Tasks -> TaskStates] /\ TasksFit'

LEMMA OverKept ==
    ASSUME NEW ds, NEW es, Keeps(ds, es), NEW id, OverIn(ds, id)
    PROVE  OverIn(es, id)
  BY DEF Keeps, OverIn

LEMMA TaskKept ==
    ASSUME NEW t \in TaskStates, NEW ds, NEW es, NEW p \in Playbacks, NEW q \in Playbacks,
           TaskFits(t, ds, p), Keeps(ds, es), GenKeeps(p, q)
    PROVE  TaskFits(t, es, q)
<1>1. /\ t.pc # "idle" => t.id # None
      /\ t.pc \in {"degrade", "refit", "replacing"} => t.incoming # None
      /\ t.pc \in {"arming", "refit", "install"} => t.kind \in Kinds
      /\ t.pc \in Carrying => t.next # NoTrack
      /\ t.pc \in {"replacing", "replace"} => t.gen # None
  BY DEF TaskFits
<1>2. t.pc \in InHand => /\ t.deck \in DOMAIN es
                         /\ es[t.deck].track = t.next
                         /\ es[t.deck].id = t.incoming
  BY DEF TaskFits, Keeps
<1>3. t.pc = "advance" => OverIn(es, t.id)
  BY OverKept DEF TaskFits
<1>4. ASSUME t.pc \in Prefetching
      PROVE  t.gen <= q.gen /\ (q.replacing # None => t.gen < q.replacing)
  <2>1. t.gen <= p.gen /\ (p.replacing # None => t.gen < p.replacing)
    BY <1>4 DEF TaskFits
  <2>2. {t.gen, p.gen, q.gen, p.replacing, q.replacing} \subseteq Nat
    BY DEF TaskStates, Playbacks
  <2> QED BY <2>1, <2>2 DEF GenKeeps
<1> QED BY <1>1, <1>2, <1>3, <1>4 DEF TaskFits

\* One task moves.
LEMMA OneTaskStep ==
    ASSUME Core, DecksStep, PlaybackStep, NEW h \in Tasks, NEW new \in TaskStates,
           task' = [task EXCEPT ![h] = new], TaskFits(new, decks', playback')
    PROVE  TasksStep
<1>1. task' \in [Tasks -> TaskStates]
  BY DEF Core, Typed
<1>2. ASSUME NEW g \in Tasks
      PROVE  TaskFits(task'[g], decks', playback')
  <2>1. CASE g = h
    BY <2>1 DEF Core, Typed
  <2>2. CASE g # h
    <3>1. task'[g] = task[g] /\ task[g] \in TaskStates /\ TaskFits(task[g], decks, playback)
      BY <2>2 DEF Core, Typed, TasksFit
    <3>2. playback \in Playbacks /\ playback' \in Playbacks
      BY DEF Core, Typed, PlaybackStep
    <3>3. TaskFits(task[g], decks', playback')
      BY <3>1, <3>2, TaskKept DEF DecksStep, PlaybackStep
    <3> QED BY <3>1, <3>3
  <2> QED BY <2>1, <2>2
<1> QED BY <1>1, <1>2 DEF TasksStep, TasksFit

LEMMA SameTasks ==
    ASSUME Core, DecksStep, PlaybackStep, task' = task
    PROVE  TasksStep
<1>1. ASSUME NEW g \in Tasks
      PROVE  TaskFits(task[g], decks', playback')
  <2>1. task[g] \in TaskStates /\ TaskFits(task[g], decks, playback)
    BY DEF Core, Typed, TasksFit
  <2>2. playback \in Playbacks /\ playback' \in Playbacks
    BY DEF Core, Typed, PlaybackStep
  <2> QED BY <2>1, <2>2, TaskKept DEF DecksStep, PlaybackStep
<1> QED BY <1>1 DEF TasksStep, TasksFit, Core, Typed

\* A task that is idle or in a step that needs nothing but its playback id.
Plain == {"prefetch", "transition", "checking", "sleeping", "confirm", "advancing", "positioned",
          "rearmed", "window"}

LEMMA IdleFacts == Idle \in TaskStates /\ \A ds, p : TaskFits(Idle, ds, p)
  BY DEF Idle, TaskStates, TaskFits, Steps, AnyTrack, None, Kinds, Carrying, InHand, Prefetching

LEMMA FinishStep ==
    ASSUME Core, DecksStep, PlaybackStep, NEW h \in Tasks, Finish(h)
    PROVE  TasksStep
  BY IdleFacts, OneTaskStep DEF Finish

\* It goes on to another step.
LEMMA GotoFacts ==
    ASSUME task \in [Tasks -> TaskStates], NEW h \in Tasks, NEW pc \in Steps, Goto(h, pc)
    PROVE  LET new == [task[h] EXCEPT !.pc = pc]
           IN /\ new \in TaskStates /\ task' = [task EXCEPT ![h] = new]
              /\ new.pc = pc /\ new.id = task[h].id /\ new.gen = task[h].gen
              /\ new.next = task[h].next /\ new.deck = task[h].deck
              /\ new.incoming = task[h].incoming /\ new.kind = task[h].kind
  BY DEF Goto, TaskStates

LEMMA PlainStep ==
    ASSUME Core, DecksStep, PlaybackStep, NEW h \in Tasks, NEW pc \in Plain,
           task[h].id # None, Goto(h, pc)
    PROVE  TasksStep
<1> DEFINE new == [task[h] EXCEPT !.pc = pc]
<1>1. /\ new \in TaskStates /\ task' = [task EXCEPT ![h] = new]
      /\ new.pc = pc /\ new.id # None
  <2>1. pc \in Steps /\ task \in [Tasks -> TaskStates]
    BY DEF Core, Typed, Plain, Steps
  <2> QED BY <2>1, GotoFacts
<1> HIDE DEF new
<1>2. TaskFits(new, decks', playback')
  BY <1>1 DEF TaskFits, Plain, Carrying, InHand, Prefetching
<1> QED BY <1>1, <1>2, OneTaskStep

LEMMA ReturnStep ==
    ASSUME Core, DecksStep, PlaybackStep, NEW h \in Tasks, task[h].pc # "idle", Return(h)
    PROVE  TasksStep
<1>1. CASE h = Worker
  BY <1>1, FinishStep DEF Return
<1>2. CASE h # Worker
  <2> DEFINE new == [Idle EXCEPT !.pc = "rearmed", !.id = task[h].id]
  <2>1. task[h].id # None /\ task[h].id \in Nat
    BY DEF Core, Typed, TasksFit, TaskFits, TaskStates
  <2>2. new \in TaskStates /\ new.pc = "rearmed" /\ new.id # None
    BY <2>1 DEF Idle, TaskStates, Steps, AnyTrack, None, Kinds
  <2>3. task' = [task EXCEPT ![h] = new]
    BY <1>2 DEF Return
  <2> HIDE DEF new
  <2>4. TaskFits(new, decks', playback')
    BY <2>2 DEF TaskFits, Carrying, InHand, Prefetching
  <2> QED BY <2>2, <2>3, <2>4, OneTaskStep
<1> QED BY <1>1, <1>2

LEMMA PrefetchTasks ==
    ASSUME Core, DecksStep, PlaybackStep, NEW h \in Tasks, Prefetch(h)
    PROVE  TasksStep
<1>0. /\ task \in [Tasks -> TaskStates] /\ task[h] \in TaskStates
      /\ TaskFits(task[h], decks, playback)
      /\ playback \in Playbacks /\ playback' \in Playbacks
      /\ decks \in Seq(Decks) /\ DecksFit
      /\ Keeps(decks, decks') /\ GenKeeps(playback, playback')
  BY DEF Core, Typed, TasksFit, DecksStep, PlaybackStep
<1>1. CASE PrefetchBegin(h)
  <2>1. CASE Return(h)
    BY <1>1, <2>1, ReturnStep DEF PrefetchBegin
  <2>2. CASE ~Return(h)
    <3> DEFINE next == PeekNextTrack(playback.player)
               g == playback.gen + 1
               new == [task[h] EXCEPT !.pc = "preparing", !.gen = g, !.next = next]
    <3>1. /\ playback' = [playback EXCEPT !.gen = @ + 1]
          /\ playback.replacing = None /\ next # NoTrack /\ task[h].pc = "prefetch"
          /\ task' = [task EXCEPT ![h].pc = "preparing", ![h].gen = playback.gen + 1,
                                  ![h].next = PeekNextTrack(playback.player)]
      BY <1>1, <2>2 DEF PrefetchBegin
    <3>2. g \in Nat /\ next \in AnyTrack
      BY <1>0, PeekType DEF Playbacks
    <3>3. task' = [task EXCEPT ![h] = new]
      BY <1>0, <3>1
    <3>4. playback'.gen = g /\ playback'.replacing = None
      BY <1>0, <3>1, NextGen
    <3> HIDE DEF g, next
    <3>5. /\ new \in TaskStates /\ new.pc = "preparing" /\ new.gen = g /\ new.next = next
          /\ new.id = task[h].id
      BY <1>0, <3>2 DEF TaskStates, Steps
    <3> HIDE DEF new
    <3>6. task[h].id # None
      BY <1>0, <3>1 DEF TaskFits
    <3>7. TaskFits(new, decks', playback')
      BY <3>1, <3>2, <3>4, <3>5, <3>6 DEF TaskFits, Carrying, InHand, Prefetching
    <3> QED BY <3>3, <3>5, <3>7, OneTaskStep
  <2> QED BY <2>1, <2>2
<1>2. CASE SourcePrepared(h)
  <2>1. CASE Return(h)
    BY <1>2, <2>1, ReturnStep DEF SourcePrepared
  <2>2. CASE ~Return(h)
    <3> DEFINE new == [task[h] EXCEPT !.pc = "planning"]
    <3>1. Goto(h, "planning") /\ task[h].pc = "preparing"
      BY <1>2, <2>2 DEF SourcePrepared
    <3>2. /\ new \in TaskStates /\ task' = [task EXCEPT ![h] = new]
          /\ new.pc = "planning" /\ new.id = task[h].id /\ new.gen = task[h].gen
          /\ new.next = task[h].next
      <4>1. "planning" \in Steps
        BY DEF Steps
      <4> QED BY <1>0, <3>1, <4>1, GotoFacts
    <3>3. TaskFits(task[h], decks', playback')
      BY <1>0, TaskKept
    <3> HIDE DEF new
    <3>4. TaskFits(new, decks', playback')
      BY <3>1, <3>2, <3>3 DEF TaskFits, Carrying, InHand, Prefetching
    <3> QED BY <3>2, <3>4, OneTaskStep
  <2> QED BY <2>1, <2>2
<1>3. CASE PrefetchFails(h) \/ InstallPrepared(h)
  BY <1>3, ReturnStep DEF PrefetchFails, InstallPrepared
<1>4. CASE PrepareIncoming(h)
  <2>1. PICK kind \in scenario.kinds :
          /\ decks' = With(NewDeck(NextDeck, task[h].next, "paused"))
          /\ task' = [task EXCEPT ![h].pc = IF kind = "beatmatched" THEN "arming" ELSE "install",
                                  ![h].kind = kind, ![h].deck = NextDeck,
                                  ![h].incoming = NextDeck]
    BY <1>4 DEF PrepareIncoming
  <2>2. kind \in TransitionKinds
    BY HandoffAssumption DEF Core, Typed, TransitionKinds
  <2>3. NextDeck \in Nat /\ NextDeck # None
    BY <1>0, LenProperties DEF NextDeck, None
  <2>4. task[h].next \in Tracks /\ task[h].id # None /\ task[h].pc = "planning"
    BY <1>0, <1>4 DEF TaskStates, AnyTrack, TaskFits, Carrying, PrepareIncoming
  <2>5. /\ NextDeck \in DOMAIN decks' /\ decks'[NextDeck].id = NextDeck
        /\ decks'[NextDeck].track = task[h].next
    BY <1>0, <2>1, <2>3, <2>4, WithStep DEF DeckStates
  <2> DEFINE pc == IF kind = "beatmatched" THEN "arming" ELSE "install"
             n == NextDeck
             new == [task[h] EXCEPT !.pc = pc, !.kind = kind, !.deck = n, !.incoming = n]
  <2>6. task' = [task EXCEPT ![h] = new]
    BY <1>0, <2>1
  <2>7. pc \in {"arming", "install"} /\ n \in Nat /\ n = NextDeck
    BY <2>3
  <2> HIDE DEF pc, n
  <2>8. /\ new \in TaskStates /\ new.pc = pc /\ new.kind = kind /\ new.deck = n
        /\ new.incoming = n /\ new.next = task[h].next /\ new.id = task[h].id
        /\ new.gen = task[h].gen
    BY <1>0, <2>2, <2>7 DEF TaskStates, Steps, Kinds
  <2> HIDE DEF new
  <2>9. TaskFits(task[h], decks', playback')
    BY <1>0, TaskKept
  <2>10. /\ task[h].gen <= playback'.gen
         /\ playback'.replacing # None => task[h].gen < playback'.replacing
    BY <2>4, <2>9 DEF TaskFits, Prefetching
  <2>11. task[h].next # NoTrack
    BY <2>4, NoTrackAssumption
  <2>12. /\ new.pc \in {"arming", "install"} /\ new.id # None /\ new.kind \in Kinds
         /\ new.next # NoTrack
         /\ new.deck \in DOMAIN decks' /\ decks'[new.deck].track = new.next
         /\ decks'[new.deck].id = new.incoming
         /\ new.gen <= playback'.gen
         /\ playback'.replacing # None => new.gen < playback'.replacing
    BY <2>2, <2>4, <2>5, <2>7, <2>8, <2>10, <2>11 DEF Kinds
  <2>13. TaskFits(new, decks', playback')
    BY <2>12 DEF TaskFits
  <2> QED BY <2>6, <2>8, <2>13, OneTaskStep
<1>5. CASE ArmAccepted(h)
  <2> DEFINE new == [task[h] EXCEPT !.pc = "install", !.armed = TRUE]
  <2>1. task' = [task EXCEPT ![h] = new] /\ task[h].pc = "arming"
    BY <1>0, <1>5 DEF ArmAccepted
  <2>2. /\ new \in TaskStates /\ new.pc = "install" /\ new.kind = task[h].kind
        /\ new.deck = task[h].deck /\ new.incoming = task[h].incoming
        /\ new.next = task[h].next /\ new.id = task[h].id /\ new.gen = task[h].gen
    BY <1>0 DEF TaskStates, Steps
  <2> HIDE DEF new
  <2>3. TaskFits(task[h], decks', playback')
    BY <1>0, TaskKept
  <2>4. TaskFits(new, decks', playback')
    BY <2>1, <2>2, <2>3 DEF TaskFits, Carrying, InHand, Prefetching
  <2> QED BY <2>1, <2>2, <2>4, OneTaskStep
<1>6. CASE ArmRejected(h)
  <2> DEFINE new == [task[h] EXCEPT !.pc = "refit"]
  <2>1. Goto(h, "refit") /\ task[h].pc = "arming"
    BY <1>6 DEF ArmRejected
  <2>2. /\ new \in TaskStates /\ task' = [task EXCEPT ![h] = new]
        /\ new.pc = "refit" /\ new.kind = task[h].kind /\ new.incoming = task[h].incoming
        /\ new.next = task[h].next /\ new.id = task[h].id /\ new.gen = task[h].gen
    <3>1. "refit" \in Steps
      BY DEF Steps
    <3> QED BY <1>0, <2>1, <3>1, GotoFacts
  <2> HIDE DEF new
  <2>3. TaskFits(task[h], decks', playback')
    BY <1>0, TaskKept
  <2>4. task[h].incoming # None
    BY <1>0, <2>1 DEF TaskFits, InHand, DecksFit
  <2>5. TaskFits(new, decks', playback')
    BY <2>1, <2>2, <2>3, <2>4 DEF TaskFits, Carrying, InHand, Prefetching
  <2> QED BY <2>2, <2>5, OneTaskStep
<1>7. CASE PrepareFallback(h)
  <2> DEFINE n == NextDeck
             new == [task[h] EXCEPT !.pc = "install", !.deck = n, !.kind = "crossfade"]
  <2>1. task' = [task EXCEPT ![h] = new] /\ task[h].pc = "refit"
    BY <1>0, <1>7 DEF PrepareFallback
  <2>2. task[h].next \in Tracks /\ task[h].incoming \in Nat /\ task[h].incoming # None
    BY <1>0, <2>1 DEF TaskStates, AnyTrack, TaskFits, Carrying
  <2>3. /\ n \in Nat /\ n \in DOMAIN decks' /\ decks'[n].id = task[h].incoming
        /\ decks'[n].track = task[h].next
    BY <1>0, <1>7, <2>2, WithStep DEF PrepareFallback, DeckStates
  <2> HIDE DEF n
  <2>4. /\ new \in TaskStates /\ new.pc = "install" /\ new.kind = "crossfade" /\ new.deck = n
        /\ new.incoming = task[h].incoming /\ new.next = task[h].next /\ new.id = task[h].id
        /\ new.gen = task[h].gen
    BY <1>0, <2>3 DEF TaskStates, Steps, Kinds, TransitionKinds
  <2> HIDE DEF new
  <2>5. TaskFits(task[h], decks', playback')
    BY <1>0, TaskKept
  <2>6. TaskFits(new, decks', playback')
    BY <2>1, <2>3, <2>4, <2>5
       DEF TaskFits, Carrying, InHand, Prefetching, Kinds, TransitionKinds
  <2> QED BY <2>1, <2>4, <2>6, OneTaskStep
<1> QED BY <1>1, <1>2, <1>3, <1>4, <1>5, <1>6, <1>7 DEF Prefetch

LEMMA TransitionTasks ==
    ASSUME Core, DecksStep, PlaybackStep, NEW h \in Tasks, Transition(h)
    PROVE  TasksStep
<1>0. /\ task \in [Tasks -> TaskStates] /\ task[h] \in TaskStates
      /\ TaskFits(task[h], decks, playback) /\ playback \in Playbacks
  BY DEF Core, Typed, TasksFit
<1>1. CASE TransitionBegin(h)
  <2>1. CASE Finish(h)
    BY <2>1, FinishStep
  <2>2. CASE ~Finish(h)
    <3> DEFINE pc == IF playback.prepared.armed THEN "checking" ELSE "sleeping"
               d == playback.active
               new == [task[h] EXCEPT !.pc = pc, !.deck = d]
    <3>1. task' = [task EXCEPT ![h] = new] /\ task[h].pc = "transition"
      BY <1>0, <1>1, <2>2 DEF TransitionBegin
    <3>2. d \in Nat /\ pc \in {"checking", "sleeping"}
      BY <1>0 DEF Playbacks
    <3> HIDE DEF d, pc
    <3>3. new \in TaskStates /\ new.pc = pc /\ new.id = task[h].id
      BY <1>0, <3>2 DEF TaskStates, Steps
    <3> HIDE DEF new
    <3>4. new.id # None
      BY <1>0, <3>1, <3>3 DEF TaskFits
    <3>5. TaskFits(new, decks', playback')
      BY <3>2, <3>3, <3>4 DEF TaskFits, Carrying, InHand, Prefetching
    <3> QED BY <3>1, <3>3, <3>5, OneTaskStep
  <2> QED BY <2>1, <2>2
<1>2. CASE CheckTarget(h)
  <2>1. task[h].id # None /\ "sleeping" \in Plain
    BY <1>0, <1>2 DEF CheckTarget, TaskFits, Plain
  <2> QED BY <1>2, <2>1, FinishStep, PlainStep DEF CheckTarget
<1>3. CASE TransitionWake(h)
  BY <1>3, FinishStep DEF TransitionWake
<1> QED BY <1>1, <1>2, <1>3 DEF Transition

\* The next track, when there is one, is in the worker's hand while it is started.
LEMMA TakeTasks ==
    ASSUME Core, DecksStep, PlaybackStep, TakeNextTrack, task[Worker].pc # "idle"
    PROVE  TasksStep
<1>0. /\ Worker \in Tasks /\ task \in [Tasks -> TaskStates] /\ task[Worker] \in TaskStates
      /\ TaskFits(task[Worker], decks, playback) /\ playback \in Playbacks
  BY DEF Core, Typed, TasksFit, Tasks
<1>1. PICK player \in PrepareNextTrack(playback.player) :
        IF player.current = NoTrack THEN Finish(Worker)
        ELSE task' = [task EXCEPT ![Worker].pc = "starting", ![Worker].next = player.current]
  BY DEF TakeNextTrack
<1>2. CASE player.current = NoTrack
  BY <1>0, <1>1, <1>2, FinishStep
<1>3. CASE player.current # NoTrack
  <2> DEFINE next == player.current
             new == [task[Worker] EXCEPT !.pc = "starting", !.next = next]
  <2>1. task' = [task EXCEPT ![Worker] = new]
    BY <1>0, <1>1, <1>3
  <2>2. next \in AnyTrack /\ next # NoTrack
    BY <1>0, <1>3, PrepareNextWellFormed DEF Core, Typed, Playbacks, Players, AnyTrack
  <2> HIDE DEF next
  <2>3. /\ new \in TaskStates /\ new.pc = "starting" /\ new.id = task[Worker].id
        /\ new.next = next
    BY <1>0, <2>2 DEF TaskStates, Steps
  <2> HIDE DEF new
  <2>4. new.id # None
    BY <1>0, <2>3 DEF TaskFits
  <2>5. TaskFits(new, decks', playback')
    BY <2>2, <2>3, <2>4 DEF TaskFits, Carrying, InHand, Prefetching
  <2> QED BY <1>0, <2>1, <2>3, <2>5, OneTaskStep
<1> QED BY <1>2, <1>3

LEMMA WorkerTasks ==
    ASSUME Core, DecksStep, PlaybackStep, WorkerOnly
    PROVE  TasksStep
<1>0. /\ Worker \in Tasks /\ task \in [Tasks -> TaskStates] /\ task[Worker] \in TaskStates
      /\ TaskFits(task[Worker], decks, playback)
      /\ playback \in Playbacks /\ decks \in Seq(Decks) /\ DecksFit
      /\ Keeps(decks, decks') /\ GenKeeps(playback, playback') /\ inbox \in Seq(Events)
  BY DEF Core, Typed, TasksFit, DecksStep, PlaybackStep, Tasks
<1>1. CASE TakeEvent
  <2> DEFINE e == Head(inbox)
             pc == HandlerOf(e.kind)
             new == [Idle EXCEPT !.pc = pc, !.id = e.id, !.kind = e.kind,
                                 !.incoming = e.incoming, !.gen = e.gen]
  <2>1. /\ inbox # <<>> /\ task' = [task EXCEPT ![Worker] = new]
    BY <1>1 DEF TakeEvent
  <2>2. e \in Events /\ EventFits(e, decks)
    <3>1. Len(inbox) \in Nat /\ Len(inbox) # 0 /\ e = inbox[1] /\ e \in Events
      BY <1>0, <2>1, HeadTailProperties, EmptySeq, LenProperties
    <3>2. 1 \in 1..Len(inbox)
      BY <3>1
    <3> QED BY <3>1, <3>2 DEF Core, InboxFits
  <2> HIDE DEF e
  <2>3. /\ pc \in {"prefetch", "transition", "confirm", "degrade", "advance"}
        /\ pc = "degrade" => e.kind \in {"late", "arm_failed"}
        /\ pc = "advance" => e.kind = "ended"
    BY <2>2 DEF HandlerOf, Events, EventKinds
  <2> HIDE DEF pc
  <2>4. /\ new \in TaskStates /\ new.pc = pc /\ new.id = e.id /\ new.incoming = e.incoming
    BY <2>2, <2>3 DEF Idle, TaskStates, Steps, AnyTrack, None, Events
  <2> HIDE DEF new
  <2>5. /\ new.id # None
        /\ new.pc = "degrade" => new.incoming # None
        /\ new.pc = "advance" => OverIn(decks', new.id)
    BY <1>0, <2>2, <2>3, <2>4, OverKept DEF EventFits
  <2>6. TaskFits(new, decks', playback')
    BY <2>3, <2>4, <2>5 DEF TaskFits, Carrying, InHand, Prefetching
  <2> QED BY <1>0, <2>1, <2>4, <2>6, OneTaskStep
<1>2. CASE TransitionStarted
  <2>1. task[Worker].id # None /\ "transition" \in Plain
    BY <1>0, <1>2 DEF TransitionStarted, TaskFits, Plain
  <2> QED BY <1>0, <1>2, <2>1, FinishStep, PlainStep DEF TransitionStarted
<1>3. CASE DegradeArmed
  <2>1. task[Worker].id # None /\ "transition" \in Plain /\ task[Worker].incoming # None
    BY <1>0, <1>3 DEF DegradeArmed, TaskFits, Plain
  <2>2. CASE Finish(Worker) \/ Goto(Worker, "transition")
    BY <1>0, <2>1, <2>2, FinishStep, PlainStep
  <2>3. CASE ~(Finish(Worker) \/ Goto(Worker, "transition"))
    <3> DEFINE g == playback.gen + 1
               next == playback.prepared.next
               new == [task[Worker] EXCEPT !.pc = "replacing", !.gen = g, !.next = next]
    <3>1. task' = [task EXCEPT ![Worker] = new] /\ HasPrepared(playback)
      BY <1>0, <1>3, <2>3 DEF DegradeArmed, ArmedFor
    <3>2. g \in Nat /\ g # None /\ next \in AnyTrack /\ next # NoTrack
      BY <1>0, <3>1 DEF Playbacks, Prepareds, None, Core, PreparedFits
    <3> HIDE DEF g, next
    <3>3. /\ new \in TaskStates /\ new.pc = "replacing" /\ new.gen = g /\ new.next = next
          /\ new.id = task[Worker].id /\ new.incoming = task[Worker].incoming
      BY <1>0, <3>2 DEF TaskStates, Steps
    <3> HIDE DEF new
    <3>4. TaskFits(new, decks', playback')
      BY <2>1, <3>2, <3>3 DEF TaskFits, Carrying, InHand, Prefetching
    <3> QED BY <1>0, <3>1, <3>3, <3>4, OneTaskStep
  <2> QED BY <2>2, <2>3
<1>4. CASE ReplacementPrepared
  <2> DEFINE n == NextDeck
             new == [task[Worker] EXCEPT !.pc = "replace", !.deck = n]
  <2>1. task' = [task EXCEPT ![Worker] = new] /\ task[Worker].pc = "replacing"
    BY <1>0, <1>4 DEF ReplacementPrepared
  <2>2. /\ task[Worker].next \in Tracks
        /\ task[Worker].incoming \in Nat /\ task[Worker].incoming # None
    BY <1>0, <2>1 DEF TaskStates, AnyTrack, TaskFits, Carrying
  <2>3. /\ n \in Nat /\ n \in DOMAIN decks' /\ decks'[n].id = task[Worker].incoming
        /\ decks'[n].track = task[Worker].next
    BY <1>0, <1>4, <2>2, WithStep DEF ReplacementPrepared, DeckStates
  <2> HIDE DEF n
  <2>4. /\ new \in TaskStates /\ new.pc = "replace" /\ new.deck = n
        /\ new.incoming = task[Worker].incoming /\ new.next = task[Worker].next
        /\ new.id = task[Worker].id /\ new.gen = task[Worker].gen
    BY <1>0, <2>3 DEF TaskStates, Steps
  <2> HIDE DEF new
  <2>5. TaskFits(new, decks', playback')
    BY <1>0, <2>1, <2>3, <2>4 DEF TaskFits, Carrying, InHand, Prefetching
  <2> QED BY <1>0, <2>1, <2>4, <2>5, OneTaskStep
<1>5. CASE ReplacementFails \/ NextStarted
  BY <1>0, <1>5, FinishStep DEF ReplacementFails, NextStarted
<1>6. CASE InstallReplacement
  <2>1. task[Worker].id # None /\ "transition" \in Plain
    BY <1>0, <1>6 DEF InstallReplacement, TaskFits, Plain
  <2> QED BY <1>0, <1>6, <2>1, FinishStep, PlainStep DEF InstallReplacement
<1>7. CASE Advance
  <2>1. task[Worker].pc # "idle" /\ (Finish(Worker) \/ TakeNextTrack)
    BY <1>7 DEF Advance, AdvancePrepared, AdvanceHandoff, AdvanceLoop
  <2> QED BY <1>0, <2>1, FinishStep, TakeTasks
<1>8. CASE NextFails
  <2>1. task[Worker].id # None /\ "advancing" \in Plain
    BY <1>0, <1>8 DEF NextFails, TaskFits, Plain
  <2> QED BY <1>0, <1>8, <2>1, FinishStep, PlainStep DEF NextFails
<1>9. CASE AdvanceAgain
  <2>1. task[Worker].pc # "idle" /\ (Finish(Worker) \/ TakeNextTrack)
    BY <1>9 DEF AdvanceAgain, AdvanceLoop
  <2> QED BY <1>0, <2>1, FinishStep, TakeTasks
<1> QED BY <1>1, <1>2, <1>3, <1>4, <1>5, <1>6, <1>7, <1>8, <1>9 DEF WorkerOnly

LEMMA RearmTasks ==
    ASSUME Core, DecksStep, PlaybackStep, NEW r \in Rearmers, RearmBegin(r) \/ RearmStep(r)
    PROVE  TasksStep
<1>0. /\ r \in Tasks /\ task \in [Tasks -> TaskStates] /\ task[r] \in TaskStates
      /\ TaskFits(task[r], decks, playback) /\ playback \in Playbacks
  BY DEF Core, Typed, TasksFit, Tasks
<1>1. CASE RearmBegin(r)
  <2> DEFINE id == playback.current
             new == [Idle EXCEPT !.pc = "positioned", !.id = id]
  <2>1. task' = [task EXCEPT ![r] = new] /\ id # None
    BY <1>1 DEF RearmBegin
  <2>2. id \in Nat
    BY <1>0 DEF Playbacks
  <2> HIDE DEF id
  <2>3. new \in TaskStates /\ new.pc = "positioned" /\ new.id = id
    BY <2>2 DEF Idle, TaskStates, Steps, AnyTrack, None, Kinds
  <2> HIDE DEF new
  <2>4. TaskFits(new, decks', playback')
    BY <2>1, <2>3 DEF TaskFits, Carrying, InHand, Prefetching
  <2> QED BY <1>0, <2>1, <2>3, <2>4, OneTaskStep
<1>2. CASE RearmClaim(r) \/ RearmCheck(r) \/ RearmTransition(r) \/ RearmOutside(r)
  <2>1. /\ task[r].pc # "idle"
        /\ \/ Finish(r) \/ Goto(r, "prefetch") \/ Goto(r, "window") \/ Goto(r, "transition")
    BY <1>2 DEF RearmClaim, RearmCheck, RearmTransition, RearmOutside
  <2>2. task[r].id # None /\ {"prefetch", "window", "transition"} \subseteq Plain
    BY <1>0, <2>1 DEF TaskFits, Plain
  <2> QED BY <1>0, <2>1, <2>2, FinishStep, PlainStep
<1> QED BY <1>1, <1>2 DEF RearmStep

LEMMA TasksKept ==
    ASSUME Core, [Next]_vars, DecksStep, PlaybackStep
    PROVE  TasksStep
<1>1. CASE UNCHANGED vars
  BY <1>1, SameTasks DEF vars
<1>2. ASSUME NEW d \in DOMAIN decks, DeckTimer(d) \/ DeckEnded(d) \/ ArmFires(d)
      PROVE  TasksStep
  BY <1>2, SameTasks DEF DeckTimer, DeckEnded, ArmFires
<1>3. CASE FadeEnds \/ Commands \/ BeginDisconnect \/ ClearSession \/ LeaveCall
  BY <1>3, SameTasks DEF FadeEnds, Commands, Skip, Toggle, EnqueueTrack, BeginDisconnect,
                         ClearSession, LeaveCall
<1> QED BY <1>1, <1>2, <1>3, PrefetchTasks, TransitionTasks, WorkerTasks, RearmTasks DEF Next

-----------------------------------------------------------------------------
(* The steps of the inbox.                                                 *)

InboxStep == inbox' \in Seq(Events) /\ InboxFits'

LEMMA EventKept ==
    ASSUME NEW e, NEW ds, NEW es, Keeps(ds, es), EventFits(e, ds)
    PROVE  EventFits(e, es)
  BY OverKept DEF EventFits

LEMMA SameInbox ==
    ASSUME Core, DecksStep, inbox' = inbox
    PROVE  InboxStep
<1>1. \A i \in 1..Len(inbox) : EventFits(inbox[i], decks')
  BY EventKept DEF Core, InboxFits, DecksStep
<1> QED BY <1>1 DEF InboxStep, InboxFits, Core, Typed

LEMMA EmitStep ==
    ASSUME Core, DecksStep, NEW e \in Events, EventFits(e, decks'), Emit(e)
    PROVE  InboxStep
<1>1. /\ inbox \in Seq(Events) /\ inbox' = Append(inbox, e)
      /\ \A i \in 1..Len(inbox) : EventFits(inbox[i], decks')
  BY EventKept DEF Core, Typed, InboxFits, DecksStep, Emit
<1>2. /\ inbox' \in Seq(Events) /\ Len(inbox) \in Nat /\ Len(inbox') = Len(inbox) + 1
      /\ \A i \in 1..Len(inbox) : inbox'[i] = inbox[i]
      /\ inbox'[Len(inbox) + 1] = e
  BY <1>1, AppendProperties, LenProperties
<1>3. ASSUME NEW i \in 1..Len(inbox')
      PROVE  EventFits(inbox'[i], decks')
  <2>1. i \in 1..Len(inbox) \/ i = Len(inbox) + 1
    BY <1>2
  <2> QED BY <1>1, <1>2, <2>1
<1> QED BY <1>2, <1>3 DEF InboxStep, InboxFits

LEMMA TakeStep ==
    ASSUME Core, DecksStep, TakeEvent
    PROVE  InboxStep
<1>1. /\ inbox \in Seq(Events) /\ inbox # <<>> /\ inbox' = Tail(inbox)
      /\ \A i \in 1..Len(inbox) : EventFits(inbox[i], decks')
  BY EventKept DEF Core, Typed, InboxFits, DecksStep, TakeEvent
<1>2. /\ inbox' \in Seq(Events) /\ Len(inbox) \in Nat /\ Len(inbox') = Len(inbox) - 1
      /\ \A i \in 1..Len(inbox') : inbox'[i] = inbox[i + 1]
  BY <1>1, HeadTailProperties, LenProperties
<1>3. ASSUME NEW i \in 1..Len(inbox')
      PROVE  EventFits(inbox'[i], decks')
  <2>1. i + 1 \in 1..Len(inbox)
    BY <1>2
  <2> QED BY <1>1, <1>2, <2>1
<1> QED BY <1>2, <1>3 DEF InboxStep, InboxFits

LEMMA EventType ==
    ASSUME NEW kind \in EventKinds, NEW id \in Nat, NEW in \in Nat, NEW gen \in Nat
    PROVE  /\ Event(kind, id, in, gen) \in Events
           /\ Event(kind, id, in, gen).kind = kind /\ Event(kind, id, in, gen).id = id
           /\ Event(kind, id, in, gen).incoming = in
  BY DEF Event, Events

LEMMA RuntimeInbox ==
    ASSUME Core, DecksStep, NEW d \in DOMAIN decks, DeckTimer(d) \/ DeckEnded(d) \/ ArmFires(d)
    PROVE  InboxStep
<1>0. /\ \A e \in DOMAIN decks : decks[e] \in Decks /\ decks[e].id \in Nat /\ decks[e].id # None
                                 /\ decks[e].slot.gen \in Nat
      /\ decks \in Seq(Decks)
  <2>1. decks \in Seq(Decks) /\ \A e \in DOMAIN decks : decks[e].id # None
    BY DEF Core, Typed, DecksFit
  <2>2. \A e \in DOMAIN decks : decks[e] \in Decks
    BY <2>1, LenProperties, ElementOfSeq
  <2> QED BY <2>1, <2>2 DEF Decks
<1>1. CASE DeckTimer(d)
  <2>1. PICK kind \in {"prefetch_due", "transition_due"} :
          Emit(Event(kind, decks[d].id, None, None))
    BY <1>1 DEF DeckTimer
  <2> DEFINE e == Event(kind, decks[d].id, None, None)
  <2>2. e \in Events /\ e.kind = kind /\ e.id # None
    <3>1. kind \in EventKinds /\ decks[d].id \in Nat /\ None \in Nat
      BY <1>0, Nothings DEF EventKinds
    <3> QED BY <1>0, <3>1, EventType
  <2>3. Emit(e)
    BY <2>1
  <2> HIDE DEF e
  <2>4. EventFits(e, decks')
    BY <2>2 DEF EventFits
  <2> QED BY <2>2, <2>3, <2>4, EmitStep
<1>2. CASE DeckEnded(d)
  <2> DEFINE e == Event("ended", decks[d].id, None, None)
  <2>1. Emit(e) /\ decks' = [decks EXCEPT ![d].state = "gone", ![d].slot = NoArm]
    BY <1>2 DEF DeckEnded
  <2>2. e \in Events /\ e.kind = "ended" /\ e.id = decks[d].id
    <3>1. "ended" \in EventKinds /\ decks[d].id \in Nat /\ None \in Nat
      BY <1>0, Nothings DEF EventKinds
    <3> QED BY <3>1, EventType
  <2> HIDE DEF e
  <2>3. d \in DOMAIN decks' /\ decks'[d].id = decks[d].id /\ decks'[d].state = "gone"
    BY <1>0, <2>1 DEF Decks
  <2>4. EventFits(e, decks')
    BY <1>0, <2>2, <2>3 DEF EventFits, OverIn
  <2> QED BY <2>1, <2>2, <2>4, EmitStep
<1>3. CASE ArmFires(d)
  <2>1. decks[d].slot.incoming \in DOMAIN decks
    BY <1>3 DEF ArmFires, Core, DecksFit
  <2>2. PICK kind \in {"started", "late", "arm_failed"} :
          Emit(Event(kind, decks[d].id, decks[decks[d].slot.incoming].id, decks[d].slot.gen))
    BY <1>3 DEF ArmFires
  <2> DEFINE id == decks[d].id
             in == decks[decks[d].slot.incoming].id
             gen == decks[d].slot.gen
             e == Event(kind, id, in, gen)
  <2>6. Emit(e)
    BY <2>2
  <2>7. id \in Nat /\ id # None /\ in \in Nat /\ in # None /\ gen \in Nat
    BY <1>0, <2>1
  <2> HIDE DEF id, in, gen
  <2>3. e \in Events /\ e.kind = kind /\ e.id # None /\ e.incoming # None
    <3>1. kind \in EventKinds
      BY DEF EventKinds
    <3> QED BY <2>7, <3>1, EventType
  <2>4. Emit(e)
    BY <2>6
  <2> HIDE DEF e
  <2>5. EventFits(e, decks')
    BY <2>3 DEF EventFits
  <2> QED BY <2>3, <2>4, <2>5, EmitStep
<1> QED BY <1>1, <1>2, <1>3

LEMMA InboxKept ==
    ASSUME Core, [Next]_vars, DecksStep
    PROVE  InboxStep
<1>1. CASE UNCHANGED vars
  BY <1>1, SameInbox DEF vars
<1>2. ASSUME NEW h \in Tasks, Prefetch(h) \/ Transition(h)
      PROVE  InboxStep
  BY <1>2, SameInbox DEF Prefetch, PrefetchBegin, SourcePrepared, PrepareIncoming, PrefetchFails,
     ArmAccepted, ArmRejected, PrepareFallback, InstallPrepared, Transition, TransitionBegin,
     CheckTarget, TransitionWake
<1>3. CASE WorkerOnly
  BY <1>3, SameInbox, TakeStep DEF WorkerOnly, TransitionStarted, DegradeArmed,
     ReplacementPrepared, ReplacementFails, InstallReplacement, Advance, NextStarted, NextFails,
     AdvanceAgain
<1>4. ASSUME NEW r \in Rearmers, RearmBegin(r) \/ RearmStep(r)
      PROVE  InboxStep
  BY <1>4, SameInbox DEF RearmBegin, RearmStep, RearmClaim, RearmCheck, RearmTransition,
                         RearmOutside
<1>5. CASE FadeEnds \/ Commands \/ BeginDisconnect \/ ClearSession \/ LeaveCall
  BY <1>5, SameInbox DEF FadeEnds, Commands, Skip, Toggle, EnqueueTrack, BeginDisconnect,
                         ClearSession, LeaveCall
<1> QED BY <1>1, <1>2, <1>3, <1>4, <1>5, RuntimeInbox DEF Next

-----------------------------------------------------------------------------
(* The rest of the types.                                                  *)

RestTyped ==
    /\ scenario \in Scenarios /\ fades \subseteq Handed
    /\ live \in BOOLEAN /\ call \in BOOLEAN /\ dpc \in {"idle", "clear", "leave"}
    /\ rearms \in Nat /\ skips \in Nat /\ toggles \in Nat /\ disconnects \in Nat

LEMMA RestKept ==
    ASSUME Core, [Next]_vars
    PROVE  RestTyped'
<1> USE DEF Core, Typed, RestTyped, sessionVars, budgets
<1>1. CASE UNCHANGED vars
  BY <1>1 DEF vars
<1>2. ASSUME NEW h \in Tasks, Prefetch(h)
      PROVE  RestTyped'
  BY <1>2 DEF Prefetch, PrefetchBegin, SourcePrepared, PrepareIncoming, PrefetchFails,
     ArmAccepted, ArmRejected, PrepareFallback, InstallPrepared
<1>3. ASSUME NEW h \in Tasks, Transition(h)
      PROVE  RestTyped'
  <2>1. [id |-> task[h].id, deck |-> playback.active] \in Handed
    BY DEF TaskStates, Playbacks, Handed
  <2>2. fades' = fades \/ fades' = fades \cup {[id |-> task[h].id, deck |-> playback.active]}
    BY <1>3 DEF Transition, TransitionBegin, CheckTarget, TransitionWake, TransitionDropped
  <2>3. UNCHANGED <<sessionVars, budgets>>
    BY <1>3 DEF Transition, TransitionBegin, CheckTarget, TransitionWake
  <2> QED BY <2>1, <2>2, <2>3
<1>4. CASE WorkerOnly
  BY <1>4 DEF WorkerOnly, TakeEvent, TransitionStarted, DegradeArmed, ReplacementPrepared,
     ReplacementFails, InstallReplacement, Advance, NextStarted, NextFails, AdvanceAgain
<1>5. ASSUME NEW r \in Rearmers, RearmBegin(r) \/ RearmStep(r)
      PROVE  RestTyped'
  BY <1>5 DEF RearmBegin, RearmStep, RearmClaim, RearmCheck, RearmTransition, RearmOutside
<1>6. CASE FadeEnds \/ Commands \/ BeginDisconnect \/ ClearSession \/ LeaveCall
  <2>1. CASE FadeEnds \/ \E t \in Tracks : EnqueueTrack(t)
    BY <2>1 DEF FadeEnds, EnqueueTrack
  <2>2. CASE BeginDisconnect \/ LeaveCall
    <3>1. disconnects + 1 \in Nat
      OBVIOUS
    <3> QED BY <2>2, <3>1 DEF BeginDisconnect, LeaveCall
  <2>4. CASE Skip
    <3>1. fades' \subseteq fades /\ skips' = skips + 1
      BY <2>4 DEF Skip
    <3> QED BY <2>4, <3>1 DEF Skip
  <2>5. CASE Toggle
    <3>1. toggles + 1 \in Nat
      OBVIOUS
    <3> QED BY <2>5, <3>1 DEF Toggle
  <2>3. CASE ClearSession
    BY <2>3 DEF ClearSession
  <2> QED BY <1>6, <2>1, <2>2, <2>3, <2>4, <2>5 DEF Commands
<1>7. ASSUME NEW d \in DOMAIN decks, DeckTimer(d) \/ DeckEnded(d) \/ ArmFires(d)
      PROVE  RestTyped'
  BY <1>7 DEF DeckTimer, DeckEnded, ArmFires
<1> QED BY <1>1, <1>2, <1>3, <1>4, <1>5, <1>6, <1>7 DEF Next

-----------------------------------------------------------------------------
(* The prepared deck.                                                      *)

\* The worker takes up no replacement and no start.
Quiet ==
    /\ task'[Worker].pc \in {"replacing", "replace"} =>
         /\ task[Worker].pc \in {"replacing", "replace"}
         /\ task'[Worker].gen = task[Worker].gen
         /\ task'[Worker].next = task[Worker].next
    /\ task'[Worker].pc \in {"starting", "advancing"} => task'[Worker].pc = task[Worker].pc

LEMMA IdleQuiet ==
    ASSUME task'[Worker].pc \notin {"replacing", "replace", "starting", "advancing"}
    PROVE  Quiet
  BY DEF Quiet

LEMMA SameQuiet ==
    ASSUME task'[Worker] = task[Worker]
    PROVE  Quiet
  BY DEF Quiet

\* A task that moves to another step.
LEMMA MoveQuiet ==
    ASSUME Core, NEW h \in Tasks, NEW new,
           new.pc \notin {"replacing", "replace", "starting", "advancing"},
           task' = [task EXCEPT ![h] = new]
    PROVE  Quiet
<1>1. Worker \in Tasks /\ task \in [Tasks -> TaskStates]
  BY DEF Core, Typed, Tasks
<1>2. CASE h = Worker
  <2>1. task'[Worker] = new
    BY <1>1, <1>2
  <2> QED BY <2>1, IdleQuiet
<1>3. CASE h # Worker
  <2>1. task'[Worker] = task[Worker]
    BY <1>1, <1>3
  <2> QED BY <2>1, SameQuiet
<1> QED BY <1>2, <1>3

LEMMA FinishQuiet ==
    ASSUME Core, NEW h \in Tasks, Finish(h)
    PROVE  Quiet
<1>1. Idle.pc \notin {"replacing", "replace", "starting", "advancing"}
  BY DEF Idle
<1> QED BY <1>1, MoveQuiet DEF Finish

LEMMA GotoQuiet ==
    ASSUME Core, NEW h \in Tasks, NEW pc \in Steps, Goto(h, pc),
           pc \notin {"replacing", "replace", "starting", "advancing"}
    PROVE  Quiet
<1> DEFINE new == [task[h] EXCEPT !.pc = pc]
<1>1. task' = [task EXCEPT ![h] = new] /\ new.pc = pc
  BY GotoFacts DEF Core, Typed
<1> HIDE DEF new
<1> QED BY <1>1, MoveQuiet

LEMMA ReturnQuiet ==
    ASSUME Core, NEW h \in Tasks, Return(h)
    PROVE  Quiet
<1>1. CASE h = Worker
  BY <1>1, FinishQuiet DEF Return
<1>2. CASE h # Worker
  <2>1. Worker \in Tasks /\ task \in [Tasks -> TaskStates]
    BY DEF Core, Typed, Tasks
  <2>2. task'[Worker] = task[Worker]
    BY <1>2, <2>1 DEF Return
  <2> QED BY <2>2, SameQuiet
<1> QED BY <1>1, <1>2

LEMMA PrefetchQuiet ==
    ASSUME Core, NEW h \in Tasks, Prefetch(h)
    PROVE  Quiet
<1>0. task \in [Tasks -> TaskStates] /\ task[h] \in TaskStates
  BY DEF Core, Typed
<1>1. CASE Return(h)
  BY <1>1, ReturnQuiet
<1>2. CASE ~Return(h)
  <2>1. PICK new : /\ task' = [task EXCEPT ![h] = new]
                   /\ new.pc \in {"preparing", "planning", "arming", "refit", "install"}
    <3>1. CASE PrefetchBegin(h)
      <4> DEFINE g == playback.gen + 1
                 next == PeekNextTrack(playback.player)
                 new == [task[h] EXCEPT !.pc = "preparing", !.gen = g, !.next = next]
      <4>1. task' = [task EXCEPT ![h] = new]
        BY <1>0, <1>2, <3>1 DEF PrefetchBegin
      <4> HIDE DEF g, next
      <4>2. new.pc = "preparing"
        BY <1>0 DEF TaskStates
      <4> HIDE DEF new
      <4> QED BY <4>1, <4>2
    <3>2. CASE SourcePrepared(h)
      <4>1. task' = [task EXCEPT ![h] = [task[h] EXCEPT !.pc = "planning"]]
        BY <1>0, <1>2, <3>2 DEF SourcePrepared, Goto
      <4>2. [task[h] EXCEPT !.pc = "planning"].pc = "planning"
        BY <1>0 DEF TaskStates
      <4> QED BY <4>1, <4>2
    <3>3. CASE PrepareIncoming(h)
      <4>1. PICK kind \in scenario.kinds :
              task' = [task EXCEPT ![h].pc = IF kind = "beatmatched" THEN "arming" ELSE "install",
                                   ![h].kind = kind, ![h].deck = NextDeck,
                                   ![h].incoming = NextDeck]
        BY <3>3 DEF PrepareIncoming
      <4> DEFINE pc == IF kind = "beatmatched" THEN "arming" ELSE "install"
                 new == [task[h] EXCEPT !.pc = pc, !.kind = kind, !.deck = NextDeck,
                                        !.incoming = NextDeck]
      <4>2. task' = [task EXCEPT ![h] = new]
        BY <1>0, <4>1
      <4>3. pc \in {"arming", "install"}
        OBVIOUS
      <4> HIDE DEF pc
      <4>4. new.pc = pc
        BY <1>0 DEF TaskStates
      <4> HIDE DEF new
      <4> QED BY <4>2, <4>3, <4>4
    <3>4. CASE ArmAccepted(h)
      <4>1. task' = [task EXCEPT ![h] = [task[h] EXCEPT !.pc = "install", !.armed = TRUE]]
        BY <1>0, <3>4 DEF ArmAccepted
      <4>2. [task[h] EXCEPT !.pc = "install", !.armed = TRUE].pc = "install"
        BY <1>0 DEF TaskStates
      <4> QED BY <4>1, <4>2
    <3>5. CASE ArmRejected(h)
      <4>1. task' = [task EXCEPT ![h] = [task[h] EXCEPT !.pc = "refit"]]
        BY <1>0, <3>5 DEF ArmRejected, Goto
      <4>2. [task[h] EXCEPT !.pc = "refit"].pc = "refit"
        BY <1>0 DEF TaskStates
      <4> QED BY <4>1, <4>2
    <3>6. CASE PrepareFallback(h)
      <4> DEFINE new == [task[h] EXCEPT !.pc = "install", !.deck = NextDeck,
                                        !.kind = "crossfade"]
      <4>1. task' = [task EXCEPT ![h] = new]
        BY <1>0, <3>6 DEF PrepareFallback
      <4>2. new.pc = "install"
        BY <1>0 DEF TaskStates
      <4> HIDE DEF new
      <4> QED BY <4>1, <4>2
    <3> QED BY <1>2, <3>1, <3>2, <3>3, <3>4, <3>5, <3>6
            DEF Prefetch, PrefetchFails, InstallPrepared
  <2> QED BY <2>1, MoveQuiet
<1> QED BY <1>1, <1>2

LEMMA TransitionQuiet ==
    ASSUME Core, NEW h \in Tasks, Transition(h)
    PROVE  Quiet
<1>0. task \in [Tasks -> TaskStates] /\ task[h] \in TaskStates
  BY DEF Core, Typed
<1>1. CASE Finish(h)
  BY <1>1, FinishQuiet
<1>2. CASE CheckTarget(h) /\ Goto(h, "sleeping")
  BY <1>2, GotoQuiet DEF Steps
<1>3. CASE TransitionBegin(h) /\ ~Finish(h)
  <2> DEFINE pc == IF playback.prepared.armed THEN "checking" ELSE "sleeping"
             new == [task[h] EXCEPT !.pc = pc, !.deck = playback.active]
  <2>1. task' = [task EXCEPT ![h] = new]
    BY <1>0, <1>3 DEF TransitionBegin
  <2>2. pc \in {"checking", "sleeping"}
    OBVIOUS
  <2> HIDE DEF pc
  <2>3. new.pc = pc
    BY <1>0 DEF TaskStates
  <2> HIDE DEF new
  <2> QED BY <2>1, <2>2, <2>3, MoveQuiet
<1> QED BY <1>1, <1>2, <1>3 DEF Transition, CheckTarget, TransitionWake

LEMMA WorkerQuiet ==
    ASSUME Core, WorkerOnly
    PROVE  Quiet \/ DegradeArmed \/ TakeNextTrack \/ NextFails
<1>0. /\ Worker \in Tasks /\ task \in [Tasks -> TaskStates] /\ task[Worker] \in TaskStates
      /\ inbox \in Seq(Events)
  BY DEF Core, Typed, Tasks
<1>1. CASE TakeEvent
  <2> DEFINE e == Head(inbox)
             pc == HandlerOf(e.kind)
             new == [Idle EXCEPT !.pc = pc, !.id = e.id, !.kind = e.kind,
                                 !.incoming = e.incoming, !.gen = e.gen]
  <2>1. inbox # <<>> /\ task' = [task EXCEPT ![Worker] = new]
    BY <1>1 DEF TakeEvent
  <2>2. e \in Events
    BY <1>0, <2>1, HeadTailProperties
  <2> HIDE DEF e
  <2>3. pc \in {"prefetch", "transition", "confirm", "degrade", "advance"}
    BY <2>2 DEF HandlerOf, Events, EventKinds
  <2> HIDE DEF pc
  <2>4. new.pc = pc
    BY DEF Idle
  <2> HIDE DEF new
  <2> QED BY <1>0, <2>1, <2>3, <2>4, MoveQuiet
<1>2. CASE Finish(Worker)
  BY <1>0, <1>2, FinishQuiet
<1>3. CASE Goto(Worker, "transition")
  BY <1>0, <1>3, GotoQuiet DEF Steps
<1>4. CASE ReplacementPrepared
  <2> DEFINE new == [task[Worker] EXCEPT !.pc = "replace", !.deck = NextDeck]
  <2>1. task' = [task EXCEPT ![Worker] = new] /\ task[Worker].pc = "replacing"
    BY <1>0, <1>4 DEF ReplacementPrepared
  <2>2. new.pc = "replace" /\ new.gen = task[Worker].gen /\ new.next = task[Worker].next
    BY <1>0 DEF TaskStates
  <2>3. task'[Worker] = new
    BY <1>0, <2>1
  <2> HIDE DEF new
  <2> QED BY <2>1, <2>2, <2>3 DEF Quiet
<1> QED BY <1>1, <1>2, <1>3, <1>4
        DEF WorkerOnly, TransitionStarted, ReplacementFails, InstallReplacement, Advance,
            AdvancePrepared, AdvanceHandoff, AdvanceLoop, NextStarted, AdvanceAgain

LEMMA RearmQuiet ==
    ASSUME Core, NEW r \in Rearmers, RearmBegin(r) \/ RearmStep(r)
    PROVE  Quiet
<1>0. r \in Tasks /\ r # Worker /\ Worker \in Tasks /\ task \in [Tasks -> TaskStates]
  BY HandoffAssumption DEF Core, Typed, Tasks
<1>1. task'[Worker] = task[Worker]
  BY <1>0 DEF RearmBegin, RearmStep, RearmClaim, RearmCheck, RearmTransition, RearmOutside,
              Finish, Goto
<1> QED BY <1>1, SameQuiet

\* The deck is given up,
LEMMA PreparedGone ==
    ASSUME playback'.prepared = NoPrepared
    PROVE  PreparedFits'
  BY DEF PreparedFits, HasPrepared

\* or it stays, with the current track and the next one,
LEMMA PreparedKept ==
    ASSUME Core, DecksStep, PlaybackStep, TasksStep, Quiet,
           playback'.prepared.deck = playback.prepared.deck,
           playback'.prepared.next = playback.prepared.next,
           playback'.prepared.id = playback.prepared.id,
           playback'.prepared.origin = playback.prepared.origin,
           HasPrepared(playback') => HasPrepared(playback),
           playback'.current = playback.current,
           playback'.replacing \in {None, playback.replacing},
           HasPrepared(playback) =>
             PeekNextTrack(playback'.player) = PeekNextTrack(playback.player)
    PROVE  PreparedFits'
<1>1. SUFFICES ASSUME HasPrepared(playback')
               PROVE  PreparedFits'
  BY DEF PreparedFits
<1> DEFINE d == playback.prepared.deck
<1>2. /\ playback.prepared.next # NoTrack
      /\ d \in DOMAIN decks /\ decks[d].id = playback.prepared.id
      /\ decks[d].track = playback.prepared.next
      /\ playback.prepared.origin = playback.current
      /\ playback.prepared.next = PeekNextTrack(playback.player)
      /\ Replacing(task[Worker], playback) =>
             task[Worker].next = playback.prepared.next /\ ~AliveIn(decks, d)
  BY <1>1 DEF Core, PreparedFits
<1>3. d \in DOMAIN decks' /\ decks'[d].id = decks[d].id /\ decks'[d].track = decks[d].track
      /\ (AliveIn(decks', d) => AliveIn(decks, d))
  BY <1>2 DEF DecksStep, Keeps
<1>4. ASSUME Replacing(task'[Worker], playback')
      PROVE  Replacing(task[Worker], playback) /\ task'[Worker].next = task[Worker].next
  <2>1. Worker \in Tasks /\ task'[Worker].gen # None
    BY <1>4 DEF TasksStep, TasksFit, TaskFits, Tasks, Replacing
  <2>2. playback'.replacing = playback.replacing
    BY <1>4, <2>1 DEF Replacing
  <2> QED BY <1>4, <2>2 DEF Quiet, Replacing
<1> HIDE DEF d
<1>5. playback'.prepared.deck = d
  BY DEF d
<1> QED BY <1>1, <1>2, <1>3, <1>4, <1>5 DEF PreparedFits

LEMMA PreparedAlike ==
    ASSUME Core, DecksStep, PlaybackStep, TasksStep, Quiet,
           playback'.prepared = playback.prepared,
           playback'.current = playback.current,
           playback'.replacing = playback.replacing,
           HasPrepared(playback) =>
             PeekNextTrack(playback'.player) = PeekNextTrack(playback.player)
    PROVE  PreparedFits'
<1>1. /\ playback'.prepared.deck = playback.prepared.deck
      /\ playback'.prepared.next = playback.prepared.next
      /\ playback'.prepared.id = playback.prepared.id
      /\ playback'.prepared.origin = playback.prepared.origin
  OBVIOUS
<1>2. HasPrepared(playback') => HasPrepared(playback)
  BY DEF HasPrepared
<1> QED BY <1>1, <1>2, PreparedKept

\* or nothing of the record changes.
LEMMA PreparedSame ==
    ASSUME Core, DecksStep, PlaybackStep, TasksStep, Quiet, playback' = playback
    PROVE  PreparedFits'
  BY PreparedKept

LEMMA NextGenKeeps ==
    ASSUME NEW p \in Playbacks
    PROVE  /\ [p EXCEPT !.gen = @ + 1].prepared = p.prepared
           /\ [p EXCEPT !.gen = @ + 1].current = p.current
           /\ [p EXCEPT !.gen = @ + 1].active = p.active
           /\ [p EXCEPT !.gen = @ + 1].due = p.due
           /\ [p EXCEPT !.gen = @ + 1].retiring = p.retiring
           /\ [p EXCEPT !.gen = @ + 1].automix = p.automix
  BY DEF Playbacks

LEMMA PrefetchPrepared ==
    ASSUME Core, DecksStep, PlaybackStep, TasksStep, NEW h \in Tasks, Prefetch(h)
    PROVE  PreparedFits'
<1>0. Quiet /\ playback \in Playbacks
  BY PrefetchQuiet DEF Core, Typed
<1>1. CASE playback' = playback
  BY <1>0, <1>1, PreparedSame
<1>2. CASE playback' = [playback EXCEPT !.gen = @ + 1]
  <2>1. /\ playback'.prepared = playback.prepared /\ playback'.current = playback.current
        /\ playback'.replacing = playback.replacing /\ playback'.player = playback.player
    BY <1>0, <1>2, NextGen, NextGenKeeps
  <2> QED BY <1>0, <2>1, PreparedAlike
<1>3. CASE InstallPrepared(h) /\ playback' # playback
  <2> DEFINE t == task[h]
             new == [origin |-> t.id, next |-> t.next, id |-> t.incoming,
                     deck |-> t.deck, kind |-> t.kind, armed |-> t.armed,
                     gen |-> IF t.armed THEN t.gen ELSE None, started |-> FALSE]
  <2>1. /\ t.pc = "install" /\ StillWanted(h) /\ PeekNextTrack(playback.player) = t.next
        /\ playback' = [playback EXCEPT !.prepared = new]
    BY <1>3 DEF InstallPrepared
  <2>2. /\ playback'.prepared.deck = t.deck /\ playback'.prepared.next = t.next
        /\ playback'.prepared.id = t.incoming /\ playback'.prepared.origin = t.id
        /\ playback'.current = playback.current /\ playback'.player = playback.player
        /\ playback'.replacing = playback.replacing
    BY <1>0, <2>1 DEF Playbacks
  <2>3. TaskFits(t, decks, playback) /\ t \in TaskStates
    BY DEF Core, Typed, TasksFit
  <2>4. /\ t.next # NoTrack /\ t.deck \in DOMAIN decks
        /\ decks[t.deck].track = t.next /\ decks[t.deck].id = t.incoming
    BY <2>1, <2>3 DEF TaskFits, Carrying, InHand
  <2>5. playback.replacing = None
    <3>1. t.gen = playback.gen
      BY <2>1 DEF StillWanted
    <3>2. playback.replacing # None => t.gen < playback.replacing
      BY <2>1, <2>3 DEF TaskFits, Prefetching
    <3>3. playback.replacing <= playback.gen /\ {t.gen, playback.replacing} \subseteq Nat
      BY <1>0, <2>3 DEF Core, ActiveFits, Playbacks, TaskStates
    <3> QED BY <3>1, <3>2, <3>3
  <2>6. ~Replacing(task'[Worker], playback')
    BY <2>2, <2>5 DEF Replacing, TasksStep, TasksFit, TaskFits, Tasks
  <2>7. t.id = playback.current
    BY <2>1 DEF StillWanted
  <2> HIDE DEF t
  <2>8. /\ t.deck \in DOMAIN decks' /\ decks'[t.deck].track = t.next
        /\ decks'[t.deck].id = t.incoming
    BY <2>4 DEF DecksStep, Keeps
  <2> QED BY <2>1, <2>2, <2>4, <2>6, <2>7, <2>8 DEF PreparedFits
<1> QED BY <1>1, <1>2, <1>3 DEF Prefetch, PrefetchBegin, SourcePrepared, PrepareIncoming,
           PrefetchFails, ArmAccepted, ArmRejected, PrepareFallback

LEMMA TransitionPrepared ==
    ASSUME Core, DecksStep, PlaybackStep, TasksStep, NEW h \in Tasks, Transition(h)
    PROVE  PreparedFits'
<1>0. Quiet /\ playback \in Playbacks /\ task[h].id \in Nat
  BY TransitionQuiet DEF Core, Typed, TaskStates
<1>1. CASE TransitionBegin(h)
  <2>1. CASE playback' = playback
    BY <1>0, <2>1, PreparedSame
  <2>2. CASE playback' # playback
    <3>1. PICK due \in {playback.due, task[h].id} :
            playback' = [playback EXCEPT !.gen = @ + 1, !.due = due]
      BY <1>1, <2>2 DEF TransitionBegin
    <3> DEFINE p == [playback EXCEPT !.gen = @ + 1]
    <3>2. /\ p \in Playbacks /\ p.prepared = playback.prepared /\ p.current = playback.current
          /\ p.replacing = playback.replacing /\ p.player = playback.player
      BY <1>0, NextGen, NextGenKeeps
    <3>3. playback' = [p EXCEPT !.due = due]
      BY <3>1
    <3> HIDE DEF p
    <3>4. /\ playback'.prepared = playback.prepared /\ playback'.current = playback.current
          /\ playback'.replacing = playback.replacing /\ playback'.player = playback.player
      BY <3>2, <3>3 DEF Playbacks
    <3> QED BY <1>0, <3>4, PreparedAlike
  <2> QED BY <2>1, <2>2
<1>2. CASE CheckTarget(h)
  BY <1>0, <1>2, PreparedSame DEF CheckTarget
<1>3. CASE TransitionWake(h)
  <2>1. CASE \/ playback' = [playback EXCEPT !.prepared = NoPrepared]
             \/ playback' = [playback EXCEPT !.prepared = NoPrepared,
                                             !.active = playback.prepared.deck]
    <3>1. playback'.prepared = NoPrepared
      BY <1>0, <2>1 DEF Playbacks
    <3> QED BY <3>1, PreparedGone
  <2>2. ASSUME NEW player \in PrepareNextTrack(playback.player),
               \/ playback' = ForgetRetiring(Promote(playback, player, task[h].id), task[h].id)
               \/ playback' = [Promote(playback, player, task[h].id) EXCEPT !.fade = task[h].id]
        PROVE  PreparedFits'
    <3>1. player \in Players /\ WellFormed(player)
      BY <1>0, PrepareNextWellFormed DEF Core, Typed, Playbacks
    <3> DEFINE q == Promote(playback, player, task[h].id)
    <3>2. q \in Playbacks /\ q.prepared = NoPrepared
      BY <1>0, <3>1, PromoteFacts
    <3>3. playback' = ForgetRetiring(q, task[h].id) \/ playback' = [q EXCEPT !.fade = task[h].id]
      BY <2>2
    <3> HIDE DEF q
    <3>4. playback'.prepared = NoPrepared
      BY <3>2, <3>3, ForgetFacts DEF Playbacks
    <3> QED BY <3>4, PreparedGone
  <2> QED BY <1>3, <2>1, <2>2 DEF TransitionWake, TransitionDropped
<1> QED BY <1>1, <1>2, <1>3 DEF Transition

\* TakeNextTrack leaves neither an active nor a prepared deck.
LEMMA Taken ==
    ASSUME Core, TakeNextTrack
    PROVE  /\ playback'.active = None /\ playback'.current = None /\ playback'.due = None
           /\ playback'.prepared = NoPrepared /\ playback'.retiring = playback.retiring
<1>1. PICK player \in PrepareNextTrack(playback.player) :
        playback' = [Invalidate(playback) EXCEPT !.active = None, !.current = None,
                                                 !.player = player]
  BY DEF TakeNextTrack
<1>2. player \in Players /\ playback \in Playbacks
  BY PrepareNextWellFormed DEF Core, Typed, Playbacks
<1> QED BY <1>1, <1>2, TakeFacts

LEMMA WorkerPrepared ==
    ASSUME Core, DecksStep, PlaybackStep, TasksStep, WorkerOnly
    PROVE  PreparedFits'
<1>0. /\ playback \in Playbacks /\ Worker \in Tasks /\ task \in [Tasks -> TaskStates]
      /\ task[Worker] \in TaskStates /\ TaskFits(task[Worker], decks, playback)
      /\ decks \in Seq(Decks)
  BY DEF Core, Typed, Tasks, TasksFit
<1>1. CASE DegradeArmed
  <2> DEFINE t == task[Worker]
             q == [playback EXCEPT !.prepared.armed = FALSE, !.prepared.gen = None,
                                   !.prepared.started = TRUE]
             r == [playback EXCEPT !.gen = @ + 1, !.replacing = playback.gen + 1,
                                   !.prepared.armed = FALSE, !.prepared.gen = None,
                                   !.prepared.started = FALSE]
  <2>1. CASE Finish(Worker) /\ playback' = playback
    BY <1>0, <2>1, FinishQuiet, PreparedSame
  <2>2. CASE Goto(Worker, "transition") /\ playback' = q /\ HasPrepared(playback)
    <3>1. Quiet
      BY <1>0, <2>2, GotoQuiet DEF Steps
    <3>2. /\ playback'.prepared.deck = playback.prepared.deck
          /\ playback'.prepared.next = playback.prepared.next
          /\ playback'.prepared.id = playback.prepared.id
          /\ playback'.prepared.origin = playback.prepared.origin
          /\ playback'.current = playback.current /\ playback'.replacing = playback.replacing
          /\ playback'.player = playback.player
      BY <1>0, <2>2, DegradeFacts
    <3> QED BY <2>2, <3>1, <3>2, PreparedKept
  <2>3. CASE /\ playback' = r /\ HasPrepared(playback)
             /\ decks' = Stopped(decks, {playback.prepared.deck})
             /\ task' = [task EXCEPT ![Worker].pc = "replacing", ![Worker].gen = playback.gen + 1,
                                     ![Worker].next = playback.prepared.next]
    <3> DEFINE d == playback.prepared.deck
    <3>1. /\ playback'.prepared.deck = d
          /\ playback'.prepared.next = playback.prepared.next
          /\ playback'.prepared.id = playback.prepared.id
          /\ playback'.prepared.origin = playback.prepared.origin
          /\ playback'.current = playback.current /\ playback'.player = playback.player
      BY <1>0, <2>3, DegradeFacts
    <3>2. /\ playback.prepared.next # NoTrack
          /\ d \in DOMAIN decks /\ decks[d].id = playback.prepared.id
          /\ decks[d].track = playback.prepared.next
          /\ playback.prepared.origin = playback.current
          /\ playback.prepared.next = PeekNextTrack(playback.player)
      BY <2>3 DEF Core, PreparedFits
    <3>3. /\ d \in DOMAIN decks' /\ decks'[d].id = decks[d].id
          /\ decks'[d].track = decks[d].track
      BY <3>2 DEF DecksStep, Keeps
    <3>4. ~AliveIn(decks', d)
      BY <1>0, <2>3, <3>2, StoppedFacts DEF AliveIn
    <3>5. task'[Worker].next = playback.prepared.next
      BY <1>0, <2>3 DEF TaskStates
    <3> HIDE DEF d
    <3> QED BY <3>1, <3>2, <3>3, <3>4, <3>5 DEF PreparedFits
  <2> QED BY <1>1, <2>1, <2>2, <2>3 DEF DegradeArmed, ArmedFor
<1>2. CASE TakeNextTrack
  BY <1>2, Taken, PreparedGone
<1>3. CASE NextStarted \/ NextFails
  <2>1. playback.prepared = NoPrepared
    BY <1>3 DEF NextStarted, NextFails, Core, ActiveFits, HasPrepared
  <2>2. playback'.prepared = playback.prepared
    BY <1>0, <1>3 DEF NextStarted, NextFails, Playbacks
  <2> QED BY <2>1, <2>2, PreparedGone
<1>4. CASE InstallReplacement /\ Quiet
  <2>1. CASE playback' = playback
    BY <1>4, <2>1, PreparedSame
  <2>2. CASE playback' # playback
    <3> DEFINE t == task[Worker]
    <3>1. /\ t.pc = "replace" /\ playback.prepared.origin = t.id
          /\ playback.prepared.id = t.incoming /\ playback.replacing = t.gen
          /\ playback' = [playback EXCEPT !.prepared.deck = t.deck,
                                          !.prepared.kind = "crossfade", !.replacing = None]
      BY <1>4, <2>2 DEF InstallReplacement
    <3>2. /\ t.id # None /\ t.deck \in DOMAIN decks /\ t.deck \in Nat
          /\ decks[t.deck].track = t.next /\ decks[t.deck].id = t.incoming
      BY <1>0, <3>1 DEF TaskFits, InHand, TaskStates
    <3>3. HasPrepared(playback)
      BY <3>1, <3>2, OriginPrepared
    <3>4. /\ playback.prepared.next # NoTrack
          /\ playback.prepared.origin = playback.current
          /\ playback.prepared.next = PeekNextTrack(playback.player)
          /\ t.next = playback.prepared.next
      BY <3>1, <3>3 DEF Core, PreparedFits, Replacing
    <3>5. /\ playback'.prepared.deck = t.deck
          /\ playback'.prepared.next = playback.prepared.next
          /\ playback'.prepared.id = playback.prepared.id
          /\ playback'.prepared.origin = playback.prepared.origin
          /\ playback'.current = playback.current /\ playback'.player = playback.player
          /\ playback'.replacing = None
      BY <1>0, <3>1, <3>2, ReplacedFacts, ZenonT(40)
    <3>6. ~Replacing(task'[Worker], playback')
      BY <1>0, <3>5 DEF Replacing, TasksStep, TasksFit, TaskFits
    <3> HIDE DEF t
    <3>7. /\ t.deck \in DOMAIN decks' /\ decks'[t.deck].track = t.next
          /\ decks'[t.deck].id = t.incoming
      BY <3>2 DEF DecksStep, Keeps
    <3> QED BY <3>1, <3>4, <3>5, <3>6, <3>7 DEF PreparedFits
  <2> QED BY <2>1, <2>2
<1>5. CASE AdvancePrepared(task[Worker].id)
  <2>1. playback'.prepared = NoPrepared
    BY <1>0, <1>5 DEF AdvancePrepared, Playbacks
  <2> QED BY <2>1, PreparedGone
<1>6. CASE AdvanceHandoff(task[Worker].id) /\ playback' # playback
  <2>1. PICK player \in PrepareNextTrack(playback.player) :
          playback' = [ForgetRetiring(Promote(playback, player, task[Worker].id),
                                      task[Worker].id) EXCEPT !.replacing = None]
    BY <1>6 DEF AdvanceHandoff
  <2>2. player \in Players /\ WellFormed(player) /\ task[Worker].id \in Nat
    BY <1>0, PrepareNextWellFormed DEF Core, Typed, Playbacks, TaskStates
  <2> QED BY <1>0, <2>1, <2>2, HandoffFacts, PreparedGone
<1>7. CASE ReplacementFails /\ playback' # playback
  <2>1. playback'.prepared = NoPrepared
    BY <1>0, <1>7 DEF ReplacementFails, Playbacks
  <2> QED BY <2>1, PreparedGone
<1>8. CASE Quiet /\ playback' = playback
  BY <1>8, PreparedSame
<1> QED BY <1>1, <1>2, <1>3, <1>4, <1>5, <1>6, <1>7, <1>8, WorkerQuiet
        DEF WorkerOnly, TakeEvent, TransitionStarted, ReplacementPrepared, ReplacementFails,
            Advance, AdvanceLoop, AdvanceAgain

LEMMA RearmPrepared ==
    ASSUME Core, DecksStep, PlaybackStep, TasksStep, NEW r \in Rearmers,
           RearmBegin(r) \/ RearmStep(r)
    PROVE  PreparedFits'
<1>0. Quiet /\ playback \in Playbacks
  BY RearmQuiet DEF Core, Typed
<1>1. CASE playback' = playback
  BY <1>0, <1>1, PreparedSame
<1>2. CASE playback' = Invalidate(playback)
  BY <1>0, <1>2, InvalidateFacts, PreparedGone
<1>3. CASE RearmClaim(r) \/ RearmCheck(r)
  <2>1. CASE playback' # playback
    <3>1. \/ playback' = [playback EXCEPT !.rearm = task[r].id,
                !.due = IF @ = task[r].id /\ ~HasPrepared(playback) THEN None ELSE @]
          \/ playback' = [playback EXCEPT !.rearm = IF @ = task[r].id THEN None ELSE @]
      BY <1>3, <2>1 DEF RearmClaim, RearmCheck
    <3>2. /\ playback'.prepared = playback.prepared /\ playback'.current = playback.current
          /\ playback'.replacing = playback.replacing /\ playback'.player = playback.player
      BY <1>0, <3>1 DEF Playbacks
    <3> QED BY <1>0, <3>2, PreparedAlike
  <2> QED BY <1>1, <2>1
<1> QED BY <1>1, <1>2, <1>3 DEF RearmBegin, RearmStep, RearmTransition, RearmOutside

LEMMA SessionPrepared ==
    ASSUME Core, DecksStep, PlaybackStep, TasksStep,
           FadeEnds \/ Commands \/ BeginDisconnect \/ ClearSession \/ LeaveCall
    PROVE  PreparedFits'
<1>0. /\ playback \in Playbacks /\ WellFormed(playback.player) /\ task' = task
      /\ playback.player \in Players
  BY DEF Core, Typed, FadeEnds, Commands, Skip, Toggle, EnqueueTrack, BeginDisconnect,
         ClearSession, LeaveCall, Playbacks
<1>q. Quiet
  BY <1>0, SameQuiet
<1>1. CASE playback' = playback
  BY <1>1, <1>q, PreparedSame
<1>2. CASE FadeEnds /\ playback' # playback
  <2>1. PICK f \in fades : playback' = ForgetRetiring(playback, f.id)
    BY <1>2 DEF FadeEnds
  <2>2. /\ playback'.prepared = playback.prepared /\ playback'.current = playback.current
        /\ playback'.replacing = playback.replacing /\ playback'.player = playback.player
    BY <1>0, <2>1, ForgetFacts
  <2> QED BY <1>q, <2>2, PreparedAlike
<1>3. CASE Skip \/ ClearSession
  BY <1>0, <1>3, Skipped, PreparedGone
<1>4. CASE Toggle
  <2>1. PICK q \in ToggledModes(playback) : playback' = Invalidate(q)
    BY <1>4 DEF Toggle
  <2>2. q \in Playbacks
    BY <1>0, ToggledFacts
  <2> QED BY <2>1, <2>2, InvalidateFacts, PreparedGone
<1>5. ASSUME NEW t \in Tracks, EnqueueTrack(t)
      PROVE  PreparedFits'
  <2>1. PICK player \in Enqueue(playback.player, t) :
          playback' = [playback EXCEPT !.player = player]
    BY <1>5 DEF EnqueueTrack
  <2>2. playback.player.current # NoTrack
    BY <1>5 DEF EnqueueTrack
  <2>3. /\ playback'.prepared = playback.prepared /\ playback'.current = playback.current
        /\ playback'.replacing = playback.replacing /\ playback'.player = player
    BY <1>0, <2>1 DEF Playbacks
  <2>4. HasPrepared(playback) => PeekNextTrack(player) = PeekNextTrack(playback.player)
    <3>1. HasPrepared(playback) => PeekNextTrack(playback.player) # NoTrack
      BY DEF Core, PreparedFits
    <3> QED BY <1>0, <2>2, <3>1, EnqueueKeepsPeek
  <2> QED BY <1>q, <2>3, <2>4, PreparedAlike
<1> QED BY <1>1, <1>2, <1>3, <1>4, <1>5 DEF Commands, BeginDisconnect, LeaveCall, FadeEnds

LEMMA PreparedFitsKept ==
    ASSUME Core, [Next]_vars, DecksStep, PlaybackStep, TasksStep
    PROVE  PreparedFits'
<1>1. CASE UNCHANGED vars
  BY <1>1, SameQuiet, PreparedSame DEF vars
<1>2. ASSUME NEW d \in DOMAIN decks, DeckTimer(d) \/ DeckEnded(d) \/ ArmFires(d)
      PROVE  PreparedFits'
  BY <1>2, SameQuiet, PreparedSame DEF DeckTimer, DeckEnded, ArmFires
<1> QED BY <1>1, <1>2, PrefetchPrepared, TransitionPrepared, WorkerPrepared, RearmPrepared,
           SessionPrepared DEF Next

-----------------------------------------------------------------------------
(* The active deck.                                                        *)

\* The worker starts nothing that it was not starting.
StartsNothing == task'[Worker].pc \in {"starting", "advancing"} => task'[Worker].pc = task[Worker].pc

\* It stays, with the current track,
LEMMA ActiveKept ==
    ASSUME Core, DecksStep, PlaybackStep, StartsNothing,
           playback'.active = playback.active,
           playback'.current = playback.current,
           playback'.player.current = playback.player.current,
           playback'.due \in {None, playback.due} \/ playback.active # None,
           task'[Worker].pc = "starting" => playback'.prepared \in {NoPrepared, playback.prepared}
    PROVE  ActiveFits'
<1>1. playback'.active # None =>
        /\ playback'.active \in DOMAIN decks'
        /\ decks'[playback'.active].id = playback'.current
        /\ decks'[playback'.active].track = playback'.player.current
  BY DEF Core, ActiveFits, DecksStep, Keeps
<1>2. playback'.due # None => playback'.active # None
  BY DEF Core, ActiveFits
<1>3. task'[Worker].pc = "starting" => ~HasPrepared(playback')
  BY DEF Core, ActiveFits, HasPrepared, StartsNothing
<1>4. task'[Worker].pc \in {"starting", "advancing"} =>
        playback'.current = None /\ playback'.active = None
  BY DEF Core, ActiveFits, StartsNothing
<1>5. playback'.replacing <= playback'.gen
  BY DEF PlaybackStep, GenKeeps
<1> QED BY <1>1, <1>2, <1>3, <1>4, <1>5 DEF ActiveFits

LEMMA ActiveSame ==
    ASSUME Core, DecksStep, PlaybackStep, StartsNothing, playback' = playback
    PROVE  ActiveFits'
  BY ActiveKept

\* or the session is left without one,
LEMMA ActiveGone ==
    ASSUME PlaybackStep, playback'.active = None, playback'.due = None,
           playback'.prepared = NoPrepared,
           task'[Worker].pc \in {"starting", "advancing"} => playback'.current = None
    PROVE  ActiveFits'
  BY DEF PlaybackStep, GenKeeps, ActiveFits, HasPrepared

\* or the prepared deck takes its place.
LEMMA ActivePromoted ==
    ASSUME Core, DecksStep, PlaybackStep, StartsNothing,
           HasPrepared(playback), playback.active # None,
           playback'.active = playback.prepared.deck,
           playback'.current = playback.prepared.id,
           playback'.player.current = playback.prepared.next,
           playback'.due = None
    PROVE  ActiveFits'
<1> DEFINE d == playback.prepared.deck
<1>1. /\ d \in DOMAIN decks /\ decks[d].id = playback.prepared.id
      /\ decks[d].track = playback.prepared.next
  BY DEF Core, PreparedFits
<1>2. /\ d \in DOMAIN decks' /\ decks'[d].id = playback.prepared.id
      /\ decks'[d].track = playback.prepared.next
  BY <1>1 DEF DecksStep, Keeps
<1>3. task'[Worker].pc \notin {"starting", "advancing"}
  BY DEF Core, ActiveFits, StartsNothing
<1>4. playback'.replacing <= playback'.gen
  BY DEF PlaybackStep, GenKeeps
<1> HIDE DEF d
<1>5. playback'.active = d
  BY DEF d
<1> QED BY <1>2, <1>3, <1>4, <1>5 DEF ActiveFits

LEMMA QuietStarts ==
    ASSUME Quiet
    PROVE  StartsNothing
  BY DEF Quiet, StartsNothing

LEMMA ReplacedCurrent ==
    ASSUME NEW p \in Players, NEW t
    PROVE  ReplaceCurrent(p, t).current = t
  BY DEF ReplaceCurrent, Players

LEMMA PrefetchActive ==
    ASSUME Core, DecksStep, PlaybackStep, NEW h \in Tasks, Prefetch(h)
    PROVE  ActiveFits'
<1>0. StartsNothing /\ playback \in Playbacks
  BY PrefetchQuiet, QuietStarts DEF Core, Typed
<1>1. CASE playback' = playback
  BY <1>0, <1>1, ActiveSame
<1>2. CASE playback' = [playback EXCEPT !.gen = @ + 1]
  <2>1. /\ playback'.prepared = playback.prepared /\ playback'.current = playback.current
        /\ playback'.active = playback.active /\ playback'.player = playback.player
        /\ playback'.due = playback.due
    BY <1>0, <1>2, NextGen, NextGenKeeps
  <2> QED BY <1>0, <2>1, ActiveKept
<1>3. CASE InstallPrepared(h) /\ playback' # playback
  <2>1. PICK new : playback' = [playback EXCEPT !.prepared = new]
    BY <1>3 DEF InstallPrepared
  <2>2. /\ playback'.active = playback.active
        /\ playback'.current = playback.current /\ playback'.player = playback.player
        /\ playback'.due = playback.due
    BY <1>0, <2>1 DEF Playbacks
  <2>3. task'[Worker].pc # "starting"
    BY <1>0, <1>3 DEF InstallPrepared, OperationFree, StartsNothing
  <2> QED BY <1>0, <2>2, <2>3, ActiveKept
<1> QED BY <1>1, <1>2, <1>3 DEF Prefetch, PrefetchBegin, SourcePrepared, PrepareIncoming,
           PrefetchFails, ArmAccepted, ArmRejected, PrepareFallback

\* The prepared deck is promoted when the transition wakes up: only then does
\* the active deck change.
LEMMA WakeFacts ==
    ASSUME Core, NEW h \in Tasks, TransitionWake(h)
    PROVE  \/ /\ playback' = [playback EXCEPT !.prepared = NoPrepared]
              /\ decks' = Stopped(decks, {playback.prepared.deck})
              /\ fades' = fades
           \/ /\ playback.prepared.origin = task[h].id /\ playback.current = task[h].id
              /\ HasPrepared(playback) /\ playback.active # None
              /\ \E player \in PrepareNextTrack(playback.player) :
                   \/ /\ playback' = ForgetRetiring(Promote(playback, player, task[h].id),
                                                    task[h].id)
                      /\ decks' = Resumed(Stopped(Stopped(decks, CutShort(playback)),
                                                  {playback.active}), playback.prepared.deck)
                      /\ fades' = fades
                   \/ /\ playback' = [Promote(playback, player, task[h].id)
                                       EXCEPT !.fade = task[h].id]
                      /\ \/ decks' = Stopped(decks, CutShort(playback))
                         \/ decks' = Resumed(Stopped(decks, CutShort(playback)),
                                             playback.prepared.deck)
                      /\ fades' = fades \cup {[id |-> task[h].id, deck |-> playback.active]}
<1>1. task[h].id # None
  BY DEF TransitionWake, Core, TasksFit, TaskFits
<1>2. CASE TransitionDropped(h, playback)
  BY <1>2 DEF TransitionDropped
<1>3. CASE ~TransitionDropped(h, playback)
  <2>1. /\ playback.current = task[h].id /\ playback.due = task[h].id
        /\ playback.prepared.origin = task[h].id
    BY <1>3 DEF TransitionWake
  <2>2. playback.active # None
    BY <1>1, <2>1 DEF Core, ActiveFits
  <2>3. HasPrepared(playback)
    BY <1>1, <2>1, OriginPrepared
  <2> QED BY <1>3, <2>1, <2>2, <2>3 DEF TransitionWake
<1> QED BY <1>2, <1>3

LEMMA TransitionActive ==
    ASSUME Core, DecksStep, PlaybackStep, NEW h \in Tasks, Transition(h)
    PROVE  ActiveFits'
<1>0. StartsNothing /\ playback \in Playbacks /\ task[h].id \in Nat
  BY TransitionQuiet, QuietStarts DEF Core, Typed, TaskStates
<1>1. CASE TransitionBegin(h)
  <2>1. CASE playback' = playback
    BY <1>0, <2>1, ActiveSame
  <2>2. CASE playback' # playback
    <3>1. PICK due \in {playback.due, task[h].id} :
            /\ playback' = [playback EXCEPT !.gen = @ + 1, !.due = due]
            /\ due = playback.due \/ playback.active # None
      BY <1>1, <2>2 DEF TransitionBegin
    <3> DEFINE p == [playback EXCEPT !.gen = @ + 1]
    <3>2. /\ p \in Playbacks /\ p.prepared = playback.prepared /\ p.current = playback.current
          /\ p.active = playback.active /\ p.player = playback.player
      BY <1>0, NextGen, NextGenKeeps
    <3>3. playback' = [p EXCEPT !.due = due]
      BY <3>1
    <3> HIDE DEF p
    <3>4. /\ playback'.prepared = playback.prepared /\ playback'.current = playback.current
          /\ playback'.active = playback.active /\ playback'.player = playback.player
          /\ playback'.due = due
      BY <3>2, <3>3 DEF Playbacks
    <3> QED BY <1>0, <3>1, <3>4, ActiveKept
  <2> QED BY <2>1, <2>2
<1>2. CASE CheckTarget(h)
  BY <1>0, <1>2, ActiveSame DEF CheckTarget
<1>3. CASE TransitionWake(h)
  <2>1. CASE playback' = [playback EXCEPT !.prepared = NoPrepared]
    <3>1. /\ playback'.prepared = NoPrepared /\ playback'.current = playback.current
          /\ playback'.active = playback.active /\ playback'.player = playback.player
          /\ playback'.due = playback.due
      BY <1>0, <2>1 DEF Playbacks
    <3> QED BY <1>0, <3>1, ActiveKept
  <2>2. ASSUME NEW player \in PrepareNextTrack(playback.player),
               HasPrepared(playback), playback.active # None,
               \/ playback' = ForgetRetiring(Promote(playback, player, task[h].id), task[h].id)
               \/ playback' = [Promote(playback, player, task[h].id) EXCEPT !.fade = task[h].id]
        PROVE  ActiveFits'
    <3>1. player \in Players /\ WellFormed(player)
      BY <1>0, PrepareNextWellFormed DEF Core, Typed, Playbacks
    <3> DEFINE q == Promote(playback, player, task[h].id)
    <3>2. /\ q \in Playbacks /\ q.active = playback.prepared.deck
          /\ q.current = playback.prepared.id /\ q.due = None
          /\ q.player = ReplaceCurrent(player, playback.prepared.next)
      BY <1>0, <3>1, PromoteFacts
    <3>3. q.player.current = playback.prepared.next
      BY <3>1, <3>2, ReplacedCurrent
    <3>4. playback' = ForgetRetiring(q, task[h].id) \/ playback' = [q EXCEPT !.fade = task[h].id]
      BY <2>2
    <3> HIDE DEF q
    <3>5. /\ playback'.active = q.active /\ playback'.current = q.current
          /\ playback'.due = q.due /\ playback'.player = q.player
      BY <3>2, <3>4, ForgetFacts DEF Playbacks
    <3> QED BY <1>0, <2>2, <3>2, <3>3, <3>5, ActivePromoted
  <2> QED BY <1>3, <2>1, <2>2, WakeFacts
<1> QED BY <1>1, <1>2, <1>3 DEF Transition

LEMMA RearmActive ==
    ASSUME Core, DecksStep, PlaybackStep, NEW r \in Rearmers, RearmBegin(r) \/ RearmStep(r)
    PROVE  ActiveFits'
<1>0. StartsNothing /\ playback \in Playbacks
  BY RearmQuiet, QuietStarts DEF Core, Typed
<1>1. CASE playback' = playback
  BY <1>0, <1>1, ActiveSame
<1>2. CASE playback' = Invalidate(playback)
  <2>1. /\ playback'.prepared = NoPrepared /\ playback'.current = playback.current
        /\ playback'.active = playback.active /\ playback'.player = playback.player
        /\ playback'.due = None
    BY <1>0, <1>2, InvalidateFacts
  <2> QED BY <1>0, <2>1, ActiveKept
<1>3. CASE (RearmClaim(r) \/ RearmCheck(r)) /\ playback' # playback
  <2>1. \/ playback' = [playback EXCEPT !.rearm = task[r].id,
              !.due = IF @ = task[r].id /\ ~HasPrepared(playback) THEN None ELSE @]
        \/ playback' = [playback EXCEPT !.rearm = IF @ = task[r].id THEN None ELSE @]
    BY <1>3 DEF RearmClaim, RearmCheck
  <2>2. /\ playback'.prepared = playback.prepared /\ playback'.current = playback.current
        /\ playback'.active = playback.active /\ playback'.player = playback.player
        /\ playback'.due \in {None, playback.due}
    BY <1>0, <2>1 DEF Playbacks
  <2> QED BY <1>0, <2>2, ActiveKept
<1> QED BY <1>1, <1>2, <1>3 DEF RearmBegin, RearmStep, RearmTransition, RearmOutside

\* enqueue behind the current track.
LEMMA EnqueueCurrent ==
    ASSUME NEW p \in Players, NEW t \in Tracks, p.current # NoTrack, NEW q \in Enqueue(p, t)
    PROVE  q.current = p.current
  BY DEF Enqueue, BecomesCurrent, EnsureShuffleChoice, Players

LEMMA SessionActive ==
    ASSUME Core, DecksStep, PlaybackStep,
           FadeEnds \/ Commands \/ BeginDisconnect \/ ClearSession \/ LeaveCall
    PROVE  ActiveFits'
<1>0. /\ playback \in Playbacks /\ WellFormed(playback.player) /\ task' = task
      /\ playback.player \in Players
  BY DEF Core, Typed, FadeEnds, Commands, Skip, Toggle, EnqueueTrack, BeginDisconnect,
         ClearSession, LeaveCall, Playbacks
<1>q. StartsNothing
  BY <1>0 DEF StartsNothing
<1>1. CASE playback' = playback
  BY <1>1, <1>q, ActiveSame
<1>2. CASE FadeEnds /\ playback' # playback
  <2>1. PICK f \in fades : playback' = ForgetRetiring(playback, f.id)
    BY <1>2 DEF FadeEnds
  <2>2. /\ playback'.prepared = playback.prepared /\ playback'.current = playback.current
        /\ playback'.active = playback.active /\ playback'.player = playback.player
        /\ playback'.due = playback.due
    BY <1>0, <2>1, ForgetFacts
  <2> QED BY <1>q, <2>2, ActiveKept
<1>3. CASE Skip \/ ClearSession
  <2>1. task'[Worker].pc \in {"starting", "advancing"} => playback.current = None
    BY <1>0 DEF Core, ActiveFits
  <2>2. /\ playback'.active = None /\ playback'.due = None
        /\ playback'.prepared = NoPrepared
        /\ playback'.current \in {playback.current, None}
    BY <1>0, <1>3, Skipped
  <2> QED BY <2>1, <2>2, ActiveGone
<1>4. CASE Toggle
  <2>1. PICK q \in ToggledModes(playback) : playback' = Invalidate(q)
    BY <1>4 DEF Toggle
  <2>2. /\ q \in Playbacks /\ q.active = playback.active /\ q.current = playback.current
        /\ q.player.current = playback.player.current
    BY <1>0, ToggledFacts
  <2>3. /\ playback'.prepared = NoPrepared /\ playback'.current = q.current
        /\ playback'.active = q.active /\ playback'.player = q.player
        /\ playback'.due = None
    BY <2>1, <2>2, InvalidateFacts
  <2> QED BY <1>q, <2>2, <2>3, ActiveKept
<1>5. ASSUME NEW t \in Tracks, EnqueueTrack(t)
      PROVE  ActiveFits'
  <2>1. PICK player \in Enqueue(playback.player, t) :
          playback' = [playback EXCEPT !.player = player]
    BY <1>5 DEF EnqueueTrack
  <2>2. playback.player.current # NoTrack
    BY <1>5 DEF EnqueueTrack
  <2>3. /\ playback'.prepared = playback.prepared /\ playback'.current = playback.current
        /\ playback'.active = playback.active /\ playback'.player = player
        /\ playback'.due = playback.due
    BY <1>0, <2>1 DEF Playbacks
  <2>4. player.current = playback.player.current
    BY <1>0, <2>2, EnqueueCurrent
  <2> QED BY <1>q, <2>3, <2>4, ActiveKept
<1> QED BY <1>1, <1>2, <1>3, <1>4, <1>5 DEF Commands, BeginDisconnect, LeaveCall, FadeEnds

LEMMA FinishedWorker ==
    ASSUME Core, Finish(Worker)
    PROVE  task'[Worker] = Idle /\ task'[Worker].pc = "idle"
  BY DEF Finish, Core, Typed, Tasks, Idle

LEMMA MovedWorker ==
    ASSUME Core, NEW pc \in Steps, Goto(Worker, pc)
    PROVE  task'[Worker].pc = pc
<1>1. Worker \in Tasks /\ task \in [Tasks -> TaskStates] /\ task[Worker] \in TaskStates
  BY DEF Core, Typed, Tasks
<1>2. task'[Worker] = [task[Worker] EXCEPT !.pc = pc]
  BY <1>1 DEF Goto
<1> QED BY <1>1, <1>2 DEF TaskStates

\* What the next track makes of the session.
LEMMA StartFacts ==
    ASSUME Core, NextStarted, DecksStep
    PROVE  \/ playback' = playback /\ ~live
           \/ /\ live
              /\ playback' \in Playbacks
              /\ playback'.active = NextDeck /\ playback'.current = NextDeck
              /\ playback'.player.current = task[Worker].next
              /\ playback'.retiring = playback.retiring
              /\ playback'.prepared = playback.prepared
              /\ NextDeck \in DOMAIN decks' /\ NextDeck \notin DOMAIN decks
              /\ decks'[NextDeck].id = NextDeck
              /\ decks'[NextDeck].track = task[Worker].next
<1>0. /\ playback \in Playbacks /\ playback.player \in Players /\ WellFormed(playback.player)
      /\ decks \in Seq(Decks) /\ Worker \in Tasks /\ task[Worker] \in TaskStates
      /\ TaskFits(task[Worker], decks, playback) /\ task[Worker].pc = "starting"
  BY DEF Core, Typed, Playbacks, Tasks, TasksFit, NextStarted
<1>1. task[Worker].next \in Tracks
  BY <1>0 DEF TaskStates, TaskFits, Carrying, AnyTrack
<1>2. CASE live
  <2>1. NextDeck \in Nat /\ NextDeck # None
    BY <1>0, LenProperties DEF NextDeck, None
  <2>2. decks' = With(NewDeck(NextDeck, task[Worker].next, "playing"))
    BY <1>2 DEF NextStarted
  <2>3. /\ NextDeck \notin DOMAIN decks
        /\ DOMAIN decks' = DOMAIN decks \cup {NextDeck}
        /\ decks'[NextDeck].id = NextDeck /\ decks'[NextDeck].track = task[Worker].next
    BY <1>0, <1>1, <2>1, <2>2, WithStep DEF DeckStates, Core
  <2> DEFINE player == ReplaceCurrent(playback.player, task[Worker].next)
             n == NextDeck
  <2>4. player \in Players /\ player.current = task[Worker].next
    BY <1>0, <1>1, UpdatesWellFormed, ReplacedCurrent
  <2>5. playback' = [playback EXCEPT !.player = player, !.current = n, !.active = n]
    BY <1>0, <1>2 DEF NextStarted
  <2>6. n \in Nat
    BY <2>1
  <2> HIDE DEF player, n
  <2>7. /\ playback' \in Playbacks
        /\ playback'.active = n /\ playback'.current = n /\ playback'.player = player
        /\ playback'.retiring = playback.retiring
        /\ playback'.prepared = playback.prepared
    BY <1>0, <2>4, <2>5, <2>6 DEF Playbacks
  <2>8. n = NextDeck
    BY DEF n
  <2> QED BY <1>2, <2>3, <2>4, <2>7, <2>8
<1>3. CASE ~live
  BY <1>3 DEF NextStarted
<1> QED BY <1>2, <1>3

LEMMA WorkerActive ==
    ASSUME Core, DecksStep, PlaybackStep, WorkerOnly
    PROVE  ActiveFits'
<1>0. /\ playback \in Playbacks /\ Worker \in Tasks /\ task \in [Tasks -> TaskStates]
      /\ task[Worker] \in TaskStates /\ TaskFits(task[Worker], decks, playback)
  BY DEF Core, Typed, Tasks, TasksFit
<1>1. CASE DegradeArmed
  <2> DEFINE q == [playback EXCEPT !.prepared.armed = FALSE, !.prepared.gen = None,
                                   !.prepared.started = TRUE]
             r == [playback EXCEPT !.gen = @ + 1, !.replacing = playback.gen + 1,
                                   !.prepared.armed = FALSE, !.prepared.gen = None,
                                   !.prepared.started = FALSE]
  <2>1. CASE Finish(Worker) /\ playback' = playback
    BY <1>0, <2>1, FinishQuiet, QuietStarts, ActiveSame
  <2>2. CASE playback' \in {q, r} /\ task'[Worker].pc \in {"transition", "replacing"}
    <3>1. /\ playback'.current = playback.current /\ playback'.active = playback.active
          /\ playback'.player = playback.player /\ playback'.due = playback.due
      BY <1>0, <2>2, DegradeFacts, ZenonT(40)
    <3>2. StartsNothing /\ task'[Worker].pc # "starting"
      BY <2>2 DEF StartsNothing
    <3> QED BY <3>1, <3>2, ActiveKept
  <2>3. Goto(Worker, "transition") => task'[Worker].pc = "transition"
    <3>1. "transition" \in Steps
      BY DEF Steps
    <3> QED BY <3>1, MovedWorker
  <2>4. task' = [task EXCEPT ![Worker].pc = "replacing", ![Worker].gen = playback.gen + 1,
                             ![Worker].next = playback.prepared.next]
          => task'[Worker].pc = "replacing"
    BY <1>0 DEF TaskStates
  <2> QED BY <1>1, <2>1, <2>2, <2>3, <2>4 DEF DegradeArmed
<1>2. CASE TakeNextTrack
  BY <1>2, Taken, ActiveGone
<1>3. CASE NextStarted
  <2>1. task'[Worker].pc = "idle"
    BY <1>3, FinishedWorker DEF NextStarted
  <2>2. StartsNothing
    BY <2>1 DEF StartsNothing
  <2>3. CASE playback' = playback
    BY <2>2, <2>3, ActiveSame
  <2>4. CASE playback' # playback
    <3>1. playback'.replacing <= playback'.gen
      BY DEF PlaybackStep, GenKeeps
    <3>2. NextDeck # None
      BY LenProperties DEF NextDeck, None, Core, Typed
    <3>3. /\ playback'.active = NextDeck /\ playback'.current = NextDeck
          /\ playback'.player.current = task[Worker].next
          /\ NextDeck \in DOMAIN decks' /\ decks'[NextDeck].id = NextDeck
          /\ decks'[NextDeck].track = task[Worker].next
      BY <1>3, <2>4, StartFacts
    <3> QED BY <2>1, <3>1, <3>2, <3>3 DEF ActiveFits
  <2> QED BY <2>3, <2>4
<1>4. CASE NextFails
  <2>1. CASE Finish(Worker) /\ playback' = playback
    BY <1>0, <2>1, FinishQuiet, QuietStarts, ActiveSame
  <2>2. CASE playback' # playback
    <3>1. PICK player : playback' = [playback EXCEPT !.player = player, !.current = None]
      BY <1>4, <2>2 DEF NextFails
    <3>2. playback.active = None /\ playback.due = None /\ playback.prepared = NoPrepared
      BY <1>4 DEF NextFails, Core, ActiveFits, HasPrepared
    <3>3. /\ playback'.active = None /\ playback'.due = None
          /\ playback'.prepared = NoPrepared /\ playback'.current = None
      BY <1>0, <3>1, <3>2 DEF Playbacks
    <3> QED BY <3>3, ActiveGone
  <2>3. CASE Goto(Worker, "advancing")
    <3>1. PICK player : playback' = [playback EXCEPT !.player = player, !.current = None]
      BY <1>4, <2>3, FinishedWorker, MovedWorker DEF NextFails, Steps
    <3>2. playback.active = None /\ playback.due = None /\ playback.prepared = NoPrepared
      BY <1>4 DEF NextFails, Core, ActiveFits, HasPrepared
    <3>3. /\ playback'.active = None /\ playback'.due = None
          /\ playback'.prepared = NoPrepared /\ playback'.current = None
      BY <1>0, <3>1, <3>2 DEF Playbacks
    <3> QED BY <3>3, ActiveGone
  <2> QED BY <1>4, <2>1, <2>2, <2>3 DEF NextFails
<1>5. CASE (ReplacementFails \/ AdvancePrepared(task[Worker].id)) /\ Quiet /\ playback' # playback
  <2>1. \/ playback' = [playback EXCEPT !.gen = @ + 1, !.replacing = None, !.due = None,
                                        !.prepared = NoPrepared]
        \/ playback' = [playback EXCEPT !.gen = @ + 1, !.replacing = None,
                                        !.prepared = NoPrepared]
    BY <1>5 DEF ReplacementFails, AdvancePrepared
  <2> DEFINE g == playback.gen + 1
  <2>2. \/ playback' = [playback EXCEPT !.gen = g, !.replacing = None, !.due = None,
                                        !.prepared = NoPrepared]
        \/ playback' = [playback EXCEPT !.gen = g, !.replacing = None,
                                        !.prepared = NoPrepared]
    BY <2>1
  <2> HIDE DEF g
  <2>3. /\ playback'.prepared = NoPrepared /\ playback'.current = playback.current
        /\ playback'.active = playback.active /\ playback'.player = playback.player
        /\ playback'.due \in {None, playback.due}
    BY <1>0, <2>2 DEF Playbacks
  <2> QED BY <1>5, <2>3, QuietStarts, ActiveKept
<1>6. CASE InstallReplacement /\ Quiet /\ playback' # playback
  <2>1. /\ task[Worker].pc = "replace"
        /\ playback' = [playback EXCEPT !.prepared.deck = task[Worker].deck,
                                        !.prepared.kind = "crossfade", !.replacing = None]
    BY <1>6 DEF InstallReplacement
  <2>2. task[Worker].deck \in Nat
    BY <1>0 DEF TaskStates
  <2>3. /\ playback'.current = playback.current /\ playback'.active = playback.active
        /\ playback'.player = playback.player /\ playback'.due = playback.due
    BY <1>0, <2>1, <2>2, ReplacedFacts
  <2>4. StartsNothing /\ task'[Worker].pc # "starting"
    BY <1>6, <2>1 DEF Quiet, StartsNothing
  <2> QED BY <2>3, <2>4, ActiveKept
<1>7. CASE Advance /\ AdvanceHandoff(task[Worker].id) /\ Quiet /\ playback' # playback
  <2>1. PICK player \in PrepareNextTrack(playback.player) :
          playback' = [ForgetRetiring(Promote(playback, player, task[Worker].id),
                                      task[Worker].id) EXCEPT !.replacing = None]
    BY <1>7 DEF AdvanceHandoff
  <2>2. player \in Players /\ WellFormed(player) /\ task[Worker].id \in Nat
    BY <1>0, PrepareNextWellFormed DEF Core, Typed, Playbacks, TaskStates
  <2>3. /\ playback'.player = ReplaceCurrent(player, playback.prepared.next)
        /\ playback'.active = playback.prepared.deck
        /\ playback'.current = playback.prepared.id /\ playback'.due = None
    BY <1>0, <2>1, <2>2, HandoffFacts
  <2>4. HasPrepared(playback) /\ playback.active # None
    BY <1>7 DEF AdvanceHandoff, HandsOver
  <2>5. playback'.player.current = playback.prepared.next
    BY <2>2, <2>3, ReplacedCurrent
  <2> QED BY <1>7, <2>3, <2>4, <2>5, QuietStarts, ActivePromoted
<1>8. CASE Quiet /\ playback' = playback
  BY <1>8, QuietStarts, ActiveSame
<1>9. Quiet \/ DegradeArmed \/ TakeNextTrack \/ NextFails
  BY WorkerQuiet
<1>10. CASE WorkerOnly /\ Quiet /\ ~TakeNextTrack /\ ~NextStarted
  <2>1. \/ playback' = playback
        \/ (ReplacementFails \/ AdvancePrepared(task[Worker].id)) /\ playback' # playback
        \/ InstallReplacement /\ playback' # playback
        \/ Advance /\ AdvanceHandoff(task[Worker].id) /\ playback' # playback
        \/ DegradeArmed \/ NextFails
    BY <1>10 DEF WorkerOnly, TakeEvent, TransitionStarted, ReplacementPrepared,
                 ReplacementFails, InstallReplacement, Advance, AdvanceLoop, AdvanceAgain
  <2> QED BY <1>1, <1>4, <1>5, <1>6, <1>7, <1>8, <1>10, <2>1
<1> QED BY <1>1, <1>2, <1>3, <1>4, <1>9, <1>10

LEMMA ActiveFitsKept ==
    ASSUME Core, [Next]_vars, DecksStep, PlaybackStep
    PROVE  ActiveFits'
<1>1. CASE UNCHANGED vars
  BY <1>1, ActiveSame DEF vars, StartsNothing
<1>2. ASSUME NEW d \in DOMAIN decks, DeckTimer(d) \/ DeckEnded(d) \/ ArmFires(d)
      PROVE  ActiveFits'
  BY <1>2, ActiveSame DEF DeckTimer, DeckEnded, ArmFires, StartsNothing
<1> QED BY <1>1, <1>2, PrefetchActive, TransitionActive, WorkerActive, RearmActive,
           SessionActive DEF Next

-----------------------------------------------------------------------------
(* The deck that is faded out.                                             *)

\* What was cut is over, whatever is resumed then.
LEMMA CutDead ==
    ASSUME decks \in Seq(Decks), NEW D, NEW d \in DOMAIN decks, NEW e \in D,
           \/ decks' = Stopped(decks, D)
           \/ decks' = Resumed(Stopped(decks, D), d)
    PROVE  ~AliveIn(decks', e)
<1> DEFINE es == Stopped(decks, D)
<1>1. /\ es \in Seq(Decks) /\ DOMAIN es = DOMAIN decks
      /\ \A x \in DOMAIN decks : es[x].state = IF x \in D /\ decks[x].state \in {"paused", "playing"}
                                               THEN "stopped" ELSE decks[x].state
  BY StoppedFacts
<1>2. ~AliveIn(es, e)
  BY <1>1 DEF AliveIn
<1>3. decks' = es \/ decks' = Resumed(es, d)
  OBVIOUS
<1> HIDE DEF es
<1>4. CASE decks' = Resumed(es, d)
  <2> DEFINE fs == Resumed(es, d)
  <2>1. /\ DOMAIN fs = DOMAIN es
        /\ \A x \in DOMAIN es :
             fs[x].state = IF x = d /\ es[x].state = "paused" THEN "playing" ELSE es[x].state
    BY <1>1, ResumedFacts
  <2>2. decks' = fs
    BY <1>4
  <2> HIDE DEF fs
  <2> QED BY <1>2, <2>1, <2>2 DEF AliveIn
<1> QED BY <1>2, <1>3, <1>4

LEMMA FreshBefore ==
    ASSUME DecksStep, FreshIds'
    PROVE  FreshIds
  BY DEF FreshIds, DecksStep, Keeps

\* It stays the retiring one,
LEMMA RetiringKept ==
    ASSUME Core, DecksStep, playback'.retiring = playback.retiring, fades' \subseteq fades
    PROVE  RetiringFits'
<1>1. playback'.retiring # NoRetiring =>
        /\ playback'.retiring.deck \in DOMAIN decks'
        /\ decks'[playback'.retiring.deck].id = playback'.retiring.id
  BY DEF Core, RetiringFits, DecksStep, Keeps
<1>2. \A f \in fades' : f.deck \in DOMAIN decks' /\ decks'[f.deck].id = f.id
  BY DEF Core, RetiringFits, DecksStep, Keeps
<1>3. ASSUME FreshIds', NEW f \in fades'
      PROVE  f.deck = playback'.retiring.deck \/ ~AliveIn(decks', f.deck)
  <2>1. f \in fades /\ FreshIds
    BY <1>3, FreshBefore
  <2>2. f.deck \in DOMAIN decks /\ (f.deck = playback.retiring.deck \/ ~AliveIn(decks, f.deck))
    BY <2>1 DEF Core, RetiringFits
  <2> QED BY <2>2 DEF DecksStep, Keeps
<1> QED BY <1>1, <1>2, <1>3 DEF RetiringFits

\* or it is cut, and another one is faded out or none.
LEMMA RetiringMoved ==
    ASSUME Core, DecksStep,
           FreshIds => ~AliveIn(decks', playback.retiring.deck),
           playback'.retiring # NoRetiring =>
             /\ playback'.retiring.deck \in DOMAIN decks
             /\ decks[playback'.retiring.deck].id = playback'.retiring.id,
           \A f \in fades' : f \in fades \/ (f = playback'.retiring /\ f # NoRetiring)
    PROVE  RetiringFits'
<1>1. playback'.retiring # NoRetiring =>
        /\ playback'.retiring.deck \in DOMAIN decks'
        /\ decks'[playback'.retiring.deck].id = playback'.retiring.id
  BY DEF DecksStep, Keeps
<1>2. \A f \in fades' : f.deck \in DOMAIN decks' /\ decks'[f.deck].id = f.id
  BY <1>1 DEF Core, RetiringFits, DecksStep, Keeps
<1>3. ASSUME FreshIds', NEW f \in fades'
      PROVE  f.deck = playback'.retiring.deck \/ ~AliveIn(decks', f.deck)
  <2>1. CASE f \in fades
    <3>1. FreshIds /\ ~AliveIn(decks', playback.retiring.deck)
      BY <1>3, FreshBefore
    <3>2. f.deck \in DOMAIN decks /\ (f.deck = playback.retiring.deck \/ ~AliveIn(decks, f.deck))
      BY <2>1, <3>1 DEF Core, RetiringFits
    <3> QED BY <3>1, <3>2 DEF DecksStep, Keeps
  <2> QED BY <2>1
<1> QED BY <1>1, <1>2, <1>3 DEF RetiringFits

LEMMA PrefetchRetiring ==
    ASSUME Core, DecksStep, NEW h \in Tasks, Prefetch(h)
    PROVE  RetiringFits'
<1>0. playback \in Playbacks /\ fades' = fades
  BY DEF Core, Typed, Prefetch, PrefetchBegin, SourcePrepared, PrepareIncoming,
         PrefetchFails, ArmAccepted, ArmRejected, PrepareFallback, InstallPrepared
<1>1. CASE playback' = playback
  BY <1>0, <1>1, RetiringKept
<1>2. CASE playback' = [playback EXCEPT !.gen = @ + 1]
  BY <1>0, <1>2, NextGenKeeps, RetiringKept
<1>3. CASE InstallPrepared(h) /\ playback' # playback
  <2>1. PICK new : playback' = [playback EXCEPT !.prepared = new]
    BY <1>3 DEF InstallPrepared
  <2>2. playback'.retiring = playback.retiring
    BY <1>0, <2>1 DEF Playbacks
  <2> QED BY <1>0, <2>2, RetiringKept
<1> QED BY <1>1, <1>2, <1>3 DEF Prefetch, PrefetchBegin, SourcePrepared, PrepareIncoming,
           PrefetchFails, ArmAccepted, ArmRejected, PrepareFallback

LEMMA TransitionRetiring ==
    ASSUME Core, DecksStep, NEW h \in Tasks, Transition(h)
    PROVE  RetiringFits'
<1>0. playback \in Playbacks /\ task[h].id \in Nat /\ decks \in Seq(Decks)
  BY DEF Core, Typed, TaskStates
<1>1. CASE TransitionBegin(h)
  <2>0. fades' = fades
    BY <1>1 DEF TransitionBegin
  <2>1. CASE playback' = playback
    BY <2>0, <2>1, RetiringKept
  <2>2. CASE playback' # playback
    <3>1. PICK due \in {playback.due, task[h].id} :
            playback' = [playback EXCEPT !.gen = @ + 1, !.due = due]
      BY <1>1, <2>2 DEF TransitionBegin
    <3> DEFINE p == [playback EXCEPT !.gen = @ + 1]
    <3>2. p \in Playbacks /\ p.retiring = playback.retiring
      BY <1>0, NextGen, NextGenKeeps
    <3>3. playback' = [p EXCEPT !.due = due]
      BY <3>1
    <3> HIDE DEF p
    <3>4. playback'.retiring = playback.retiring
      BY <3>2, <3>3 DEF Playbacks
    <3> QED BY <2>0, <3>4, RetiringKept
  <2> QED BY <2>1, <2>2
<1>2. CASE CheckTarget(h)
  BY <1>2, RetiringKept DEF CheckTarget
<1>3. CASE TransitionWake(h)
  <2>1. CASE playback' = [playback EXCEPT !.prepared = NoPrepared] /\ fades' = fades
    <3>1. playback'.retiring = playback.retiring
      BY <1>0, <2>1 DEF Playbacks
    <3> QED BY <2>1, <3>1, RetiringKept
  <2>2. ASSUME NEW player \in PrepareNextTrack(playback.player),
               HasPrepared(playback), playback.active # None, playback.current = task[h].id,
               playback' = ForgetRetiring(Promote(playback, player, task[h].id), task[h].id),
               decks' = Resumed(Stopped(Stopped(decks, CutShort(playback)), {playback.active}),
                                playback.prepared.deck),
               fades' = fades
        PROVE  RetiringFits'
    <3>1. player \in Players /\ WellFormed(player)
      BY <1>0, PrepareNextWellFormed DEF Core, Typed, Playbacks
    <3> DEFINE q == Promote(playback, player, task[h].id)
    <3>2. q \in Playbacks /\ q.retiring = [id |-> task[h].id, deck |-> playback.active]
      BY <1>0, <3>1, PromoteFacts
    <3>3. playback' = ForgetRetiring(q, task[h].id)
      BY <2>2
    <3> HIDE DEF q
    <3>4. playback'.retiring = NoRetiring
      BY <3>2, <3>3, ForgetFacts
    <3> DEFINE D == CutShort(playback) \cup {playback.active}
    <3>5. decks' = Resumed(Stopped(decks, D), playback.prepared.deck)
      BY <1>0, <2>2, StoppedTwice
    <3>6. playback.retiring.deck \in D /\ playback.prepared.deck \in DOMAIN decks
      BY <2>2, PreparedKnown DEF CutShort
    <3> HIDE DEF D
    <3>7. ~AliveIn(decks', playback.retiring.deck)
      BY <1>0, <3>5, <3>6, CutDead
    <3> QED BY <2>2, <3>4, <3>7, RetiringMoved
  <2>3. ASSUME NEW player \in PrepareNextTrack(playback.player),
               HasPrepared(playback), playback.active # None, playback.current = task[h].id,
               playback' = [Promote(playback, player, task[h].id) EXCEPT !.fade = task[h].id],
               \/ decks' = Stopped(decks, CutShort(playback))
               \/ decks' = Resumed(Stopped(decks, CutShort(playback)), playback.prepared.deck),
               fades' = fades \cup {[id |-> task[h].id, deck |-> playback.active]}
        PROVE  RetiringFits'
    <3>1. player \in Players /\ WellFormed(player)
      BY <1>0, PrepareNextWellFormed DEF Core, Typed, Playbacks
    <3> DEFINE q == Promote(playback, player, task[h].id)
    <3>2. q \in Playbacks /\ q.retiring = [id |-> task[h].id, deck |-> playback.active]
      BY <1>0, <3>1, PromoteFacts
    <3>3. playback' = [q EXCEPT !.fade = task[h].id]
      BY <2>3
    <3> HIDE DEF q
    <3>4. playback'.retiring = [id |-> task[h].id, deck |-> playback.active]
      BY <3>2, <3>3 DEF Playbacks
    <3>5. /\ playback.active \in DOMAIN decks
          /\ decks[playback.active].id = task[h].id
      BY <2>3 DEF Core, ActiveFits
    <3>6. playback.retiring.deck \in CutShort(playback) /\ playback.prepared.deck \in DOMAIN decks
      BY <2>3, PreparedKnown DEF CutShort
    <3>7. ~AliveIn(decks', playback.retiring.deck)
      BY <1>0, <2>3, <3>6, CutDead
    <3>8. playback'.retiring # NoRetiring
      BY <2>3, <3>4 DEF NoRetiring
    <3> QED BY <2>3, <3>4, <3>5, <3>7, <3>8, RetiringMoved
  <2> QED BY <1>3, <2>1, <2>2, <2>3, WakeFacts
<1> QED BY <1>1, <1>2, <1>3 DEF Transition

LEMMA RearmRetiring ==
    ASSUME Core, DecksStep, NEW r \in Rearmers, RearmBegin(r) \/ RearmStep(r)
    PROVE  RetiringFits'
<1>0. playback \in Playbacks /\ fades' = fades
  BY DEF Core, Typed, RearmBegin, RearmStep, RearmClaim, RearmCheck, RearmTransition, RearmOutside
<1>1. CASE playback' = playback
  BY <1>0, <1>1, RetiringKept
<1>2. CASE playback' = Invalidate(playback)
  BY <1>0, <1>2, InvalidateFacts, RetiringKept
<1>3. CASE (RearmClaim(r) \/ RearmCheck(r)) /\ playback' # playback
  <2>1. \/ playback' = [playback EXCEPT !.rearm = task[r].id,
              !.due = IF @ = task[r].id /\ ~HasPrepared(playback) THEN None ELSE @]
        \/ playback' = [playback EXCEPT !.rearm = IF @ = task[r].id THEN None ELSE @]
    BY <1>3 DEF RearmClaim, RearmCheck
  <2>2. playback'.retiring = playback.retiring
    BY <1>0, <2>1 DEF Playbacks
  <2> QED BY <1>0, <2>2, RetiringKept
<1> QED BY <1>1, <1>2, <1>3 DEF RearmBegin, RearmStep, RearmTransition, RearmOutside

\* Two decks that share an id are the same when ids are not reused.
LEMMA FadeOfRetiring ==
    ASSUME Core, FreshIds, NEW f \in fades, playback.retiring.id = f.id
    PROVE  f.deck = playback.retiring.deck
<1>1. f.deck \in DOMAIN decks /\ decks[f.deck].id = f.id /\ f.id # None
  BY DEF Core, RetiringFits, DecksFit
<1>2. playback.retiring # NoRetiring
  BY <1>1, Nothings
<1>3. playback.retiring.deck \in DOMAIN decks /\ decks[playback.retiring.deck].id = f.id
  BY <1>2 DEF Core, RetiringFits
<1> QED BY <1>1, <1>3 DEF FreshIds

LEMMA SessionRetiring ==
    ASSUME Core, DecksStep,
           FadeEnds \/ Commands \/ BeginDisconnect \/ ClearSession \/ LeaveCall
    PROVE  RetiringFits'
<1>0. /\ playback \in Playbacks /\ WellFormed(playback.player)
      /\ playback.player \in Players /\ decks \in Seq(Decks)
  BY DEF Core, Typed, Playbacks
<1>1. CASE FadeEnds
  <2>1. PICK f \in fades :
          /\ fades' = fades \ {f} /\ decks' = Stopped(decks, {f.deck})
          /\ playback' = IF live THEN ForgetRetiring(playback, f.id) ELSE playback
    BY <1>1 DEF FadeEnds
  <2>2. CASE playback'.retiring = playback.retiring
    BY <2>1, <2>2, RetiringKept
  <2>3. CASE playback'.retiring # playback.retiring
    <3>1. playback.retiring.id = f.id /\ playback'.retiring = NoRetiring
      BY <1>0, <2>1, <2>3, ForgetFacts
    <3>2. f.deck \in DOMAIN decks
      BY DEF Core, RetiringFits
    <3>3. FreshIds => ~AliveIn(decks', playback.retiring.deck)
      BY <1>0, <2>1, <3>1, <3>2, FadeOfRetiring, CutDead
    <3> QED BY <2>1, <3>1, <3>3, RetiringMoved
  <2> QED BY <2>2, <2>3
<1>2. CASE Skip \/ ClearSession
  <2> DEFINE D == {playback.active, playback.retiring.deck, playback.prepared.deck}
  <2>1. decks' = Stopped(decks, D) /\ fades' \subseteq fades
    BY <1>2 DEF Skip, ClearSession
  <2>2. playback'.retiring = NoRetiring
    BY <1>0, <1>2, Skipped
  <2>3. playback.retiring.deck \in D
    OBVIOUS
  <2> HIDE DEF D
  <2>4. ~AliveIn(decks', playback.retiring.deck)
    BY <1>0, <2>1, <2>3, StoppedFacts DEF AliveIn
  <2> QED BY <2>1, <2>2, <2>4, RetiringMoved
<1>3. CASE Toggle
  <2>1. PICK q \in ToggledModes(playback) : playback' = Invalidate(q)
    BY <1>3 DEF Toggle
  <2>2. q \in Playbacks /\ q.retiring = playback.retiring
    BY <1>0, ToggledFacts
  <2>3. playback'.retiring = q.retiring
    BY <2>1, <2>2, InvalidateFacts
  <2> QED BY <1>3, <2>2, <2>3, RetiringKept DEF Toggle
<1>4. ASSUME NEW t \in Tracks, EnqueueTrack(t)
      PROVE  RetiringFits'
  <2>1. PICK player : playback' = [playback EXCEPT !.player = player]
    BY <1>4 DEF EnqueueTrack
  <2>2. playback'.retiring = playback.retiring
    BY <1>0, <2>1 DEF Playbacks
  <2> QED BY <1>4, <2>2, RetiringKept DEF EnqueueTrack
<1>5. CASE BeginDisconnect \/ LeaveCall
  BY <1>5, RetiringKept DEF BeginDisconnect, LeaveCall
<1> QED BY <1>1, <1>2, <1>3, <1>4, <1>5 DEF Commands

LEMMA WorkerRetiring ==
    ASSUME Core, DecksStep, WorkerOnly
    PROVE  RetiringFits'
<1>0. /\ playback \in Playbacks /\ Worker \in Tasks /\ task[Worker] \in TaskStates
      /\ decks \in Seq(Decks) /\ fades' = fades
  BY DEF Core, Typed, Tasks, WorkerOnly, TakeEvent, TransitionStarted, DegradeArmed,
         ReplacementPrepared, ReplacementFails, InstallReplacement, Advance, NextStarted,
         NextFails, AdvanceAgain
<1>1. CASE playback' = playback
  BY <1>0, <1>1, RetiringKept
<1>2. CASE DegradeArmed /\ playback' # playback
  <2>1. \/ playback' = [playback EXCEPT !.prepared.armed = FALSE, !.prepared.gen = None,
                                        !.prepared.started = TRUE]
        \/ playback' = [playback EXCEPT !.gen = @ + 1, !.replacing = playback.gen + 1,
                                        !.prepared.armed = FALSE, !.prepared.gen = None,
                                        !.prepared.started = FALSE]
    BY <1>2 DEF DegradeArmed
  <2>2. playback'.retiring = playback.retiring
    BY <1>0, <2>1, DegradeFacts
  <2> QED BY <1>0, <2>2, RetiringKept
<1>3. CASE TakeNextTrack
  BY <1>0, <1>3, Taken, RetiringKept
<1>4. CASE NextStarted
  BY <1>0, <1>1, <1>4, StartFacts, RetiringKept
<1>5. CASE (ReplacementFails \/ AdvancePrepared(task[Worker].id)) /\ playback' # playback
  <2>1. \/ playback' = [playback EXCEPT !.gen = @ + 1, !.replacing = None, !.due = None,
                                        !.prepared = NoPrepared]
        \/ playback' = [playback EXCEPT !.gen = @ + 1, !.replacing = None,
                                        !.prepared = NoPrepared]
    BY <1>5 DEF ReplacementFails, AdvancePrepared
  <2>2. playback'.retiring = playback.retiring
    BY <1>0, <2>1 DEF Playbacks
  <2> QED BY <1>0, <2>2, RetiringKept
<1>6. CASE InstallReplacement /\ playback' # playback
  <2>1. playback' = [playback EXCEPT !.prepared.deck = task[Worker].deck,
                                     !.prepared.kind = "crossfade", !.replacing = None]
    BY <1>6 DEF InstallReplacement
  <2>2. task[Worker].deck \in Nat
    BY <1>0 DEF TaskStates
  <2>3. playback'.retiring = playback.retiring
    BY <1>0, <2>1, <2>2, ReplacedFacts
  <2> QED BY <1>0, <2>3, RetiringKept
<1>7. CASE AdvanceHandoff(task[Worker].id) /\ playback' # playback
  <2> DEFINE D == CutShort(playback) \cup {playback.active}
  <2>1. PICK player \in PrepareNextTrack(playback.player) :
          /\ playback' = [ForgetRetiring(Promote(playback, player, task[Worker].id),
                                         task[Worker].id) EXCEPT !.replacing = None]
          /\ decks' = Resumed(Stopped(decks, D), playback.prepared.deck)
    BY <1>7 DEF AdvanceHandoff
  <2>2. player \in Players /\ WellFormed(player) /\ task[Worker].id \in Nat
    BY <1>0, PrepareNextWellFormed DEF Core, Typed, Playbacks, TaskStates
  <2>3. playback'.retiring = NoRetiring
    BY <1>0, <2>1, <2>2, HandoffFacts
  <2>4. playback.retiring.deck \in D /\ playback.prepared.deck \in DOMAIN decks
    BY <1>7, PreparedKnown DEF CutShort, AdvanceHandoff, HandsOver
  <2> HIDE DEF D
  <2>5. ~AliveIn(decks', playback.retiring.deck)
    BY <1>0, <2>1, <2>4, CutDead
  <2> QED BY <1>0, <2>3, <2>5, RetiringMoved
<1>8. CASE NextFails /\ playback' # playback
  <2>1. PICK player : playback' = [playback EXCEPT !.player = player, !.current = None]
    BY <1>8 DEF NextFails
  <2>2. playback'.retiring = playback.retiring
    BY <1>0, <2>1 DEF Playbacks
  <2> QED BY <1>0, <2>2, RetiringKept
<1> QED BY <1>1, <1>2, <1>3, <1>4, <1>5, <1>6, <1>7, <1>8
        DEF WorkerOnly, TakeEvent, TransitionStarted, ReplacementPrepared, ReplacementFails,
            InstallReplacement, Advance, AdvanceLoop, AdvanceAgain

LEMMA RetiringFitsKept ==
    ASSUME Core, [Next]_vars, DecksStep
    PROVE  RetiringFits'
<1>1. CASE UNCHANGED vars
  BY <1>1, RetiringKept DEF vars
<1>2. ASSUME NEW d \in DOMAIN decks, DeckTimer(d) \/ DeckEnded(d) \/ ArmFires(d)
      PROVE  RetiringFits'
  BY <1>2, RetiringKept DEF DeckTimer, DeckEnded, ArmFires
<1> QED BY <1>1, <1>2, PrefetchRetiring, TransitionRetiring, WorkerRetiring, RearmRetiring,
           SessionRetiring DEF Next

-----------------------------------------------------------------------------
(* The invariant holds.                                                    *)

LEMMA StartingPlayer ==
    ASSUME NEW t \in Tracks, NEW queue \in Seq(Tracks)
    PROVE  LET p == [EmptyPlayer EXCEPT !.current = t, !.queue = queue]
           IN p \in Players /\ WellFormed(p) /\ p.current = t
<1> DEFINE p == [EmptyPlayer EXCEPT !.current = t, !.queue = queue]
<1>1. /\ EmptyPlayer \in Players /\ ~EmptyPlayer.looping /\ ~EmptyPlayer.shuffle
      /\ EmptyPlayer.pick = NoPick
  BY EmptySeq DEF EmptyPlayer, Players, NoPick
<1>2. Len(queue) \in Nat /\ NoPick = 0
  BY LenProperties DEF NoPick
<1>4. /\ p \in Players /\ p.queue = queue /\ p.current = t
      /\ ~p.looping /\ ~p.shuffle /\ p.pick = NoPick
  BY <1>1 DEF Players
<1> HIDE DEF p
<1>3. p \in Players /\ WellFormed(p) /\ p.current = t
  BY <1>2, <1>4 DEF WellFormed
<1> QED BY <1>3 DEF p

LEMMA InitCore == Init => Core
<1> SUFFICES ASSUME Init
             PROVE  Core
  OBVIOUS
<1> USE DEF Init
<1> DEFINE first == NewDeck(1, FirstTrack, "playing")
           player == [EmptyPlayer EXCEPT !.current = FirstTrack, !.queue = scenario.queue]
<1>1. /\ first \in Decks /\ first.id = 1 /\ first.track = FirstTrack /\ first.slot = NoArm
  BY HandoffAssumption, NoArmType DEF NewDeck, Decks, DeckStates
<1> HIDE DEF first
<1>2. decks = <<first>>
  BY DEF first
<1> USE DEF first
<1>3. /\ decks \in Seq(Decks) /\ DOMAIN decks = {1} /\ decks[1] = first
  <2> HIDE DEF first
  <2> QED BY <1>1, <1>2
<1>4. player \in Players /\ WellFormed(player) /\ player.current = FirstTrack
  <2>1. scenario.queue \in Seq(Tracks) /\ FirstTrack \in Tracks
    BY HandoffAssumption
  <2> HIDE DEF Init
  <2> QED BY <2>1, StartingPlayer
<1>5. /\ playback.player = player /\ playback.current = 1 /\ playback.active = 1
      /\ playback.retiring = NoRetiring /\ playback.prepared = NoPrepared
      /\ playback.gen = 0 /\ playback.replacing = None /\ playback.due = None
  OBVIOUS
<1>6. playback \in Playbacks
  <2> HIDE DEF player
  <2>1. playback = [player |-> player, automix |-> TRUE, current |-> 1, active |-> 1,
                   retiring |-> NoRetiring, prepared |-> NoPrepared,
                   gen |-> 0, replacing |-> None, due |-> None, rearm |-> None,
                   fade |-> None]
    BY DEF player
  <2> QED BY <1>4, <2>1, Nothings DEF Playbacks
<1> HIDE DEF player
<1>7. /\ task \in [Tasks -> TaskStates] /\ \A h \in Tasks : task[h] = Idle
  BY IdleFacts
<1>8. Typed
  BY <1>3, <1>4, <1>5, <1>6, <1>7 DEF Typed
<1>9. DecksFit
  BY <1>1, <1>3 DEF DecksFit, None
<1>10. TasksFit
  BY <1>7, IdleFacts DEF TasksFit
<1>11. InboxFits
  BY DEF InboxFits
<1>12. PreparedFits
  BY <1>5 DEF PreparedFits, HasPrepared
<1>13. ActiveFits
  <2>1. task[Worker].pc = "idle"
    BY <1>7 DEF Tasks, Idle
  <2> HIDE DEF Init, first
  <2> QED BY <1>1, <1>3, <1>4, <1>5, <2>1 DEF ActiveFits, None
<1>14. RetiringFits
  BY <1>5 DEF RetiringFits
<1> QED BY <1>8, <1>9, <1>10, <1>11, <1>12, <1>13, <1>14 DEF Core

LEMMA CoreInductive == Core /\ [Next]_vars => Core'
<1> SUFFICES ASSUME Core, [Next]_vars
             PROVE  Core'
  OBVIOUS
<1>1. DecksStep /\ PlaybackStep
  BY DecksKept, PlaybackKept
<1>2. TasksStep /\ InboxStep
  BY <1>1, TasksKept, InboxKept
<1>3. RestTyped'
  BY RestKept
<1>4. PreparedFits' /\ ActiveFits' /\ RetiringFits'
  BY <1>1, <1>2, PreparedFitsKept, ActiveFitsKept, RetiringFitsKept
<1> QED BY <1>1, <1>2, <1>3, <1>4
        DEF Core, Typed, DecksStep, PlaybackStep, TasksStep, InboxStep, RestTyped

LEMMA CoreHolds == Spec => []Core
  BY InitCore, CoreInductive, PTL DEF Spec

\* Every variable keeps its type and the logical queue stays well formed: the
\* handlers leave no half-updated record behind.
THEOREM TypeCorrect == Spec => []TypeOK
<1>1. Core => TypeOK
  BY DEF Core, Typed, TypeOK, Playbacks, Prepareds, Handed, TaskStates, Decks, Events, budgets
<1> QED BY <1>1, CoreHolds, PTL

\* The prepared deck answers the current question, in every scenario: whatever
\* changes the current track or the next one gives the deck up.
THEOREM PreparedStaysNext == Spec => []PreparedIsNext
<1>1. Core => PreparedIsNext
  BY DEF Core, PreparedFits, PreparedIsNext
<1> QED BY <1>1, CoreHolds, PTL

\* The active deck holds the current track, in every scenario: promotions, natural
\* ends and failed starts change both or neither.
THEOREM ActiveStaysCurrent == Spec => []ActiveIsCurrent
<1>1. Core => ActiveIsCurrent
  BY DEF Core, ActiveFits, ActiveIsCurrent
<1> QED BY <1>1, CoreHolds, PTL

-----------------------------------------------------------------------------
(* A stale end event.                                                      *)

\* Only advance ends the worker's advance.
LEMMA OnlyAdvance ==
    ASSUME Core, [Next]_vars, task[Worker].pc = "advance", task'[Worker].pc # "advance"
    PROVE  Advance
<1>0. Worker \in Tasks /\ task \in [Tasks -> TaskStates] /\ task'[Worker] # task[Worker]
  BY DEF Core, Typed, Tasks
<1>1. ASSUME NEW h \in Tasks, Prefetch(h) \/ Transition(h)
      PROVE  FALSE
  <2>1. task[h].pc # "advance"
    BY <1>1 DEF Prefetch, PrefetchBegin, SourcePrepared, PrepareIncoming, PrefetchFails,
               ArmAccepted, ArmRejected, PrepareFallback, InstallPrepared,
               Transition, TransitionBegin, CheckTarget, TransitionWake
  <2>2. h # Worker
    BY <2>1
  <2>3. task'[Worker] = task[Worker]
    <3>1. CASE Prefetch(h)
      BY <1>0, <2>2, <3>1 DEF Prefetch, PrefetchBegin, SourcePrepared, PrepareIncoming,
         PrefetchFails, ArmAccepted, ArmRejected, PrepareFallback, InstallPrepared,
         Return, Goto, Finish
    <3>2. CASE Transition(h)
      BY <1>0, <2>2, <3>2 DEF Transition, TransitionBegin, CheckTarget, TransitionWake,
         Goto, Finish
    <3> QED BY <1>1, <3>1, <3>2
  <2> QED BY <1>0, <2>3
<1>2. ASSUME NEW r \in Rearmers, RearmBegin(r) \/ RearmStep(r)
      PROVE  FALSE
  <2>1. r # Worker
    BY HandoffAssumption
  <2> QED BY <1>0, <1>2, <2>1 DEF RearmBegin, RearmStep, RearmClaim, RearmCheck,
          RearmTransition, RearmOutside, Goto, Finish
<1>3. ASSUME NEW d \in DOMAIN decks, DeckTimer(d) \/ DeckEnded(d) \/ ArmFires(d)
      PROVE  FALSE
  BY <1>0, <1>3 DEF DeckTimer, DeckEnded, ArmFires
<1>4. ~(FadeEnds \/ Commands \/ BeginDisconnect \/ ClearSession \/ LeaveCall \/ UNCHANGED vars)
  BY <1>0 DEF FadeEnds, Commands, Skip, Toggle, EnqueueTrack, BeginDisconnect, ClearSession,
              LeaveCall, vars
<1>5. CASE WorkerOnly
  <2>1. task[Worker] # Idle
    BY DEF Idle
  <2> QED BY <1>5, <2>1 DEF WorkerOnly, TakeEvent, TransitionStarted, DegradeArmed,
          ReplacementPrepared, ReplacementFails, InstallReplacement, NextStarted, NextFails,
          AdvanceAgain
<1> QED BY <1>1, <1>2, <1>3, <1>4, <1>5 DEF Next

\* A deck whose id ended does not play on, when ids are not reused.
LEMMA EndedIsOver ==
    ASSUME Core, FreshIds, task[Worker].pc = "advance", playback.active # None,
           playback.current = task[Worker].id
    PROVE  decks[playback.active].state = "gone"
<1>1. Worker \in Tasks
  BY DEF Tasks
<1>2. PICK d \in DOMAIN decks : decks[d].id = task[Worker].id /\ decks[d].state = "gone"
  BY <1>1 DEF Core, TasksFit, TaskFits, OverIn
<1>3. playback.active \in DOMAIN decks /\ decks[playback.active].id = playback.current
  BY DEF Core, ActiveFits
<1> QED BY <1>2, <1>3 DEF FreshIds

\* An end event that is handled while the active deck plays changes nothing that is
\* heard: the event names a deck that is over, and the active deck carries the id of
\* the current track, so the two can only meet when an id is used twice.
THEOREM StaleEndChangesNothing == Spec => StaleEndIgnored
<1>1. Core /\ [Next]_vars => [FreshIds => AdvanceSpares]_vars
  <2> SUFFICES ASSUME Core, [Next]_vars, FreshIds, task[Worker].pc = "advance",
                      task'[Worker].pc # "advance", Audible(playback.active)
               PROVE  UNCHANGED playback.player
    BY DEF AdvanceSpares
  <2>1. Advance /\ playback \in Playbacks
    BY OnlyAdvance DEF Core, Typed
  <2>2. playback.active # None /\ decks[playback.active].state = "playing"
    BY LenProperties DEF Audible, None, Core, Typed
  <2>3. playback.current # task[Worker].id
    BY <2>2, EndedIsOver
  <2>4. CASE AdvancePrepared(task[Worker].id)
    BY <2>1, <2>4 DEF AdvancePrepared, Playbacks
  <2>5. CASE playback' = playback
    BY <2>5
  <2> QED BY <2>1, <2>3, <2>4, <2>5 DEF Advance, HandsOver, AdvanceLoop
<1> QED BY <1>1, CoreHolds, PTL DEF Spec, StaleEndIgnored

-----------------------------------------------------------------------------
(* Every deck has an owner.                                                *)

\* The step leaves the deck an owner or ends it.
Safe(d) == d \in OwnedDecks' \/ ~AliveIn(decks', d)

LEMMA Owners ==
    /\ Safe(playback'.active) /\ Safe(playback'.retiring.deck) /\ Safe(playback'.prepared.deck)
    /\ \A h \in Tasks : task'[h].pc \in InHand => Safe(task'[h].deck)
    /\ \A f \in fades' : Safe(f.deck)
  BY DEF Safe, OwnedDecks, InHand

\* It is enough that the step is safe for what each owner held and for a new deck.
LEMMA OwnedKept ==
    ASSUME Core, DecksStep, EveryDeckOwned,
           FreshIds =>
             /\ Safe(playback.active) /\ Safe(playback.retiring.deck)
             /\ Safe(playback.prepared.deck)
             /\ \A h \in Tasks : task[h].pc \in InHand => Safe(task[h].deck)
             /\ \A f \in fades : Safe(f.deck),
           \A d \in DOMAIN decks' \ DOMAIN decks : Safe(d)
    PROVE  EveryDeckOwned'
<1>1. SUFFICES ASSUME FreshIds', NEW d \in DOMAIN decks', AliveIn(decks', d)
               PROVE  d \in OwnedDecks'
  BY DEF EveryDeckOwned, Alive, AliveIn
<1>2. FreshIds
  BY <1>1, FreshBefore
<1>3. CASE d \in DOMAIN decks
  <2>1. AliveIn(decks, d)
    BY <1>1, <1>3 DEF DecksStep, Keeps
  <2>2. d \in OwnedDecks
    BY <1>2, <1>3, <2>1 DEF EveryDeckOwned, Alive, AliveIn
  <2>3. \/ d \in {playback.active, playback.retiring.deck, playback.prepared.deck}
        \/ \E h \in Tasks : task[h].pc \in InHand /\ d = task[h].deck
        \/ \E f \in fades : d = f.deck
    BY <2>2 DEF OwnedDecks, InHand
  <2>4. Safe(d)
    BY <1>2, <2>3
  <2> QED BY <1>1, <2>4 DEF Safe
<1>4. CASE d \notin DOMAIN decks
  BY <1>1, <1>4 DEF Safe
<1> QED BY <1>3, <1>4

\* One task moves; what it had in hand is safe.
LEMMA HandsSafe ==
    ASSUME NEW h \in Tasks, \A g \in Tasks : g # h => task'[g] = task[g],
           task[h].pc \in InHand => Safe(task[h].deck)
    PROVE  \A g \in Tasks : task[g].pc \in InHand => Safe(task[g].deck)
<1>1. \A g \in Tasks : g # h /\ task[g].pc \in InHand => Safe(task[g].deck)
  BY Owners
<1> QED BY <1>1

LEMMA PrefetchOthers ==
    ASSUME Core, NEW h \in Tasks, Prefetch(h)
    PROVE  \A g \in Tasks : g # h => task'[g] = task[g]
<1>0. task \in [Tasks -> TaskStates]
  BY DEF Core, Typed
<1> QED BY <1>0 DEF Prefetch, PrefetchBegin, SourcePrepared, PrepareIncoming,
         PrefetchFails, ArmAccepted, ArmRejected, PrepareFallback, InstallPrepared,
         Return, Goto, Finish

LEMMA StoppedSafe ==
    ASSUME decks \in Seq(Decks), NEW D, NEW d \in D, decks' = Stopped(decks, D)
    PROVE  Safe(d)
  BY StoppedFacts DEF Safe, AliveIn

LEMMA StoppedDomain ==
    ASSUME decks \in Seq(Decks), NEW D, decks' = Stopped(decks, D)
    PROVE  DOMAIN decks' = DOMAIN decks
  BY StoppedFacts

LEMMA PrefetchOwned ==
    ASSUME Core, DecksStep, EveryDeckOwned, NEW h \in Tasks, Prefetch(h)
    PROVE  EveryDeckOwned'
<1>0. /\ playback \in Playbacks /\ fades' = fades /\ decks \in Seq(Decks)
      /\ task \in [Tasks -> TaskStates] /\ task[h] \in TaskStates
  BY DEF Core, Typed, Prefetch, PrefetchBegin, SourcePrepared, PrepareIncoming,
         PrefetchFails, ArmAccepted, ArmRejected, PrepareFallback, InstallPrepared
<1>1. \A g \in Tasks : g # h => task'[g] = task[g]
  BY PrefetchOthers
<1>f. \A f \in fades : Safe(f.deck)
  BY <1>0, Owners
<1>2. CASE PrefetchBegin(h) \/ SourcePrepared(h) \/ PrefetchFails(h)
  <2>1. /\ playback'.active = playback.active /\ playback'.retiring = playback.retiring
        /\ playback'.prepared = playback.prepared
    <3>1. playback' = playback \/ playback' = [playback EXCEPT !.gen = @ + 1]
      BY <1>2 DEF PrefetchBegin, SourcePrepared, PrefetchFails
    <3> QED BY <1>0, <3>1, NextGenKeeps
  <2>2. task[h].pc \notin InHand /\ DOMAIN decks' = DOMAIN decks
    BY <1>2 DEF PrefetchBegin, SourcePrepared, PrefetchFails, InHand
  <2>3. \A g \in Tasks : task[g].pc \in InHand => Safe(task[g].deck)
    BY <1>1, <2>2, HandsSafe
  <2> QED BY <1>f, <2>1, <2>2, <2>3, Owners, OwnedKept
<1>3. CASE PrepareIncoming(h) \/ PrepareFallback(h)
  <2>1. playback' = playback /\ task[h].pc \notin InHand
    BY <1>3 DEF PrepareIncoming, PrepareFallback, InHand
  <2>2. \A g \in Tasks : task[g].pc \in InHand => Safe(task[g].deck)
    BY <1>1, <2>1, HandsSafe
  <2>3. task'[h].pc \in InHand /\ task'[h].deck = NextDeck
    <3>1. CASE PrepareIncoming(h)
      <4>1. PICK kind \in scenario.kinds :
              task' = [task EXCEPT ![h].pc = IF kind = "beatmatched" THEN "arming" ELSE "install",
                                   ![h].kind = kind, ![h].deck = NextDeck,
                                   ![h].incoming = NextDeck]
        BY <3>1 DEF PrepareIncoming
      <4> DEFINE pc == IF kind = "beatmatched" THEN "arming" ELSE "install"
      <4>2. task'[h] = [task[h] EXCEPT !.pc = pc, !.kind = kind, !.deck = NextDeck,
                                       !.incoming = NextDeck]
        BY <1>0, <4>1
      <4>3. pc \in InHand
        BY DEF InHand
      <4> HIDE DEF pc
      <4> QED BY <1>0, <4>2, <4>3 DEF TaskStates
    <3>2. CASE PrepareFallback(h)
      BY <1>0, <3>2 DEF PrepareFallback, TaskStates, InHand
    <3> QED BY <1>3, <3>1, <3>2
  <2>4. PICK new : decks' = With(new)
    BY <1>3 DEF PrepareIncoming, PrepareFallback
  <2>5. \A d \in DOMAIN decks' \ DOMAIN decks : d = NextDeck
    <3>1. DOMAIN With(new) = 1..NextDeck /\ NextDeck = Len(decks) + 1
      BY DEF With, NextDeck
    <3>2. DOMAIN decks = 1..Len(decks) /\ Len(decks) \in Nat
      BY <1>0, LenProperties
    <3> QED BY <2>4, <3>1, <3>2
  <2>6. Safe(NextDeck)
    BY <2>3, Owners
  <2> QED BY <1>f, <2>1, <2>2, <2>5, <2>6, Owners, OwnedKept
<1>4. CASE ArmAccepted(h)
  <2>1. playback' = playback /\ task[h].pc = "arming" /\ DOMAIN decks' = DOMAIN decks
    BY <1>4 DEF ArmAccepted
  <2>2. task'[h].pc \in InHand /\ task'[h].deck = task[h].deck
    BY <1>0, <1>4 DEF ArmAccepted, TaskStates, InHand
  <2>3. \A g \in Tasks : task[g].pc \in InHand => Safe(task[g].deck)
    BY <1>1, <2>2, Owners, HandsSafe
  <2> QED BY <1>f, <2>1, <2>3, Owners, OwnedKept
<1>5. CASE ArmRejected(h)
  <2>1. playback' = playback /\ decks' = Stopped(decks, {task[h].deck})
    BY <1>5 DEF ArmRejected
  <2>2. Safe(task[h].deck) /\ DOMAIN decks' = DOMAIN decks
    BY <1>0, <2>1, StoppedSafe, StoppedDomain
  <2>3. \A g \in Tasks : task[g].pc \in InHand => Safe(task[g].deck)
    BY <1>1, <2>2, HandsSafe
  <2> QED BY <1>f, <2>1, <2>2, <2>3, Owners, OwnedKept
<1>6. CASE InstallPrepared(h)
  <2>1. PICK d : decks' = Stopped(decks, {d})
    BY <1>6 DEF InstallPrepared
  <2>2. Safe(d) /\ DOMAIN decks' = DOMAIN decks
    BY <1>0, <2>1, StoppedSafe, StoppedDomain
  <2>3. CASE playback' = playback /\ decks' = Stopped(decks, {task[h].deck})
    <3>1. Safe(task[h].deck)
      BY <1>0, <2>3, StoppedSafe
    <3>2. \A g \in Tasks : task[g].pc \in InHand => Safe(task[g].deck)
      BY <1>1, <3>1, HandsSafe
    <3> QED BY <1>f, <2>2, <2>3, <3>2, Owners, OwnedKept
  <2>4. CASE ~(playback' = playback /\ decks' = Stopped(decks, {task[h].deck}))
    <3> DEFINE t == task[h]
               new == [origin |-> t.id, next |-> t.next, id |-> t.incoming,
                       deck |-> t.deck, kind |-> t.kind, armed |-> t.armed,
                       gen |-> IF t.armed THEN t.gen ELSE None, started |-> FALSE]
    <3>1. /\ playback' = [playback EXCEPT !.prepared = new]
          /\ decks' = Stopped(decks, {playback.prepared.deck})
      BY <1>6, <2>4 DEF InstallPrepared
    <3>2. new.deck = task[h].deck
      OBVIOUS
    <3> HIDE DEF new
    <3>3. /\ playback'.active = playback.active /\ playback'.retiring = playback.retiring
          /\ playback'.prepared = new
      BY <1>0, <3>1 DEF Playbacks
    <3>4. Safe(playback.prepared.deck)
      BY <1>0, <3>1, StoppedSafe
    <3>5. Safe(task[h].deck)
      BY <3>2, <3>3, Owners
    <3>6. \A g \in Tasks : task[g].pc \in InHand => Safe(task[g].deck)
      BY <1>1, <3>5, HandsSafe
    <3> QED BY <1>f, <2>2, <3>3, <3>4, <3>6, Owners, OwnedKept
  <2> QED BY <2>3, <2>4
<1> QED BY <1>2, <1>3, <1>4, <1>5, <1>6 DEF Prefetch

LEMMA CutSafe ==
    ASSUME decks \in Seq(Decks), NEW D, NEW e \in DOMAIN decks, NEW d \in D,
           \/ decks' = Stopped(decks, D)
           \/ decks' = Resumed(Stopped(decks, D), e)
    PROVE  Safe(d)
  BY CutDead DEF Safe

LEMMA CutDomain ==
    ASSUME decks \in Seq(Decks), NEW D, NEW d \in DOMAIN decks,
           \/ decks' = Stopped(decks, D)
           \/ decks' = Resumed(Stopped(decks, D), d)
    PROVE  DOMAIN decks' = DOMAIN decks
<1> DEFINE es == Stopped(decks, D)
<1>1. es \in Seq(Decks) /\ DOMAIN es = DOMAIN decks
  BY StoppedFacts
<1>2. decks' = es \/ decks' = Resumed(es, d)
  OBVIOUS
<1> HIDE DEF es
<1> QED BY <1>1, <1>2, ResumedFacts

\* A task that holds no deck moves, and nobody else does.
LEMMA HandsUntouched ==
    ASSUME NEW h \in Tasks, \A g \in Tasks : g # h => task'[g] = task[g],
           task[h].pc \notin InHand
    PROVE  \A g \in Tasks : task[g].pc \in InHand => Safe(task[g].deck)
  BY HandsSafe

LEMMA TransitionOwned ==
    ASSUME Core, DecksStep, EveryDeckOwned, NEW h \in Tasks, Transition(h)
    PROVE  EveryDeckOwned'
<1>0. /\ playback \in Playbacks /\ decks \in Seq(Decks) /\ task[h].id \in Nat
      /\ task \in [Tasks -> TaskStates]
  BY DEF Core, Typed, TaskStates
<1>1. \A g \in Tasks : g # h => task'[g] = task[g]
  BY <1>0 DEF Transition, TransitionBegin, CheckTarget, TransitionWake, Goto, Finish
<1>2. task[h].pc \notin InHand
  BY DEF Transition, TransitionBegin, CheckTarget, TransitionWake, InHand
<1>3. \A g \in Tasks : task[g].pc \in InHand => Safe(task[g].deck)
  BY <1>1, <1>2, HandsUntouched
<1>4. CASE TransitionBegin(h) \/ CheckTarget(h)
  <2>1. /\ playback'.active = playback.active /\ playback'.retiring = playback.retiring
        /\ playback'.prepared = playback.prepared
    <3>1. CASE playback' = playback
      BY <3>1
    <3>2. CASE playback' # playback
      <4>1. PICK due \in {playback.due, task[h].id} :
              playback' = [playback EXCEPT !.gen = @ + 1, !.due = due]
        BY <1>4, <3>2 DEF TransitionBegin, CheckTarget
      <4> DEFINE p == [playback EXCEPT !.gen = @ + 1]
      <4>2. /\ p \in Playbacks /\ p.active = playback.active /\ p.retiring = playback.retiring
            /\ p.prepared = playback.prepared
        BY <1>0, NextGen, NextGenKeeps
      <4>3. playback' = [p EXCEPT !.due = due]
        BY <4>1
      <4> HIDE DEF p
      <4> QED BY <4>2, <4>3 DEF Playbacks
    <3> QED BY <3>1, <3>2
  <2>2. fades' = fades /\ decks' = decks
    BY <1>4 DEF TransitionBegin, CheckTarget
  <2> QED BY <1>3, <2>1, <2>2, Owners, OwnedKept
<1>5. CASE TransitionWake(h)
  <2>1. CASE /\ playback' = [playback EXCEPT !.prepared = NoPrepared]
             /\ decks' = Stopped(decks, {playback.prepared.deck})
             /\ fades' = fades
    <3>1. playback'.active = playback.active /\ playback'.retiring = playback.retiring
      BY <1>0, <2>1 DEF Playbacks
    <3>2. Safe(playback.prepared.deck) /\ DOMAIN decks' = DOMAIN decks
      BY <1>0, <2>1, StoppedSafe, StoppedDomain
    <3> QED BY <1>3, <2>1, <3>1, <3>2, Owners, OwnedKept
  <2>2. ASSUME NEW player \in PrepareNextTrack(playback.player),
               HasPrepared(playback), playback.active # None, playback.current = task[h].id,
               playback' = ForgetRetiring(Promote(playback, player, task[h].id), task[h].id),
               decks' = Resumed(Stopped(Stopped(decks, CutShort(playback)), {playback.active}),
                                playback.prepared.deck),
               fades' = fades
        PROVE  EveryDeckOwned'
    <3>1. player \in Players /\ WellFormed(player)
      BY <1>0, PrepareNextWellFormed DEF Core, Typed, Playbacks
    <3> DEFINE q == Promote(playback, player, task[h].id)
    <3>2. q \in Playbacks /\ q.active = playback.prepared.deck
      BY <1>0, <3>1, PromoteFacts
    <3>3. playback' = ForgetRetiring(q, task[h].id)
      BY <2>2
    <3> HIDE DEF q
    <3>4. playback'.active = playback.prepared.deck
      BY <3>2, <3>3, ForgetFacts
    <3> DEFINE D == CutShort(playback) \cup {playback.active}
    <3>5. decks' = Resumed(Stopped(decks, D), playback.prepared.deck)
      BY <1>0, <2>2, StoppedTwice
    <3>6. /\ playback.retiring.deck \in D /\ playback.active \in D
          /\ playback.prepared.deck \in DOMAIN decks
      BY <2>2, PreparedKnown DEF CutShort
    <3> HIDE DEF D
    <3>7. Safe(playback.retiring.deck) /\ Safe(playback.active)
      BY <1>0, <3>5, <3>6, CutSafe
    <3>8. DOMAIN decks' = DOMAIN decks
      BY <1>0, <3>5, <3>6, CutDomain
    <3> QED BY <1>3, <2>2, <3>4, <3>7, <3>8, Owners, OwnedKept
  <2>3. ASSUME NEW player \in PrepareNextTrack(playback.player),
               HasPrepared(playback), playback.active # None, playback.current = task[h].id,
               playback' = [Promote(playback, player, task[h].id) EXCEPT !.fade = task[h].id],
               \/ decks' = Stopped(decks, CutShort(playback))
               \/ decks' = Resumed(Stopped(decks, CutShort(playback)), playback.prepared.deck),
               fades' = fades \cup {[id |-> task[h].id, deck |-> playback.active]}
        PROVE  EveryDeckOwned'
    <3>1. player \in Players /\ WellFormed(player)
      BY <1>0, PrepareNextWellFormed DEF Core, Typed, Playbacks
    <3> DEFINE q == Promote(playback, player, task[h].id)
    <3>2. /\ q \in Playbacks /\ q.retiring = [id |-> task[h].id, deck |-> playback.active]
          /\ q.active = playback.prepared.deck
      BY <1>0, <3>1, PromoteFacts
    <3>3. playback' = [q EXCEPT !.fade = task[h].id]
      BY <2>3
    <3> HIDE DEF q
    <3>4. /\ playback'.retiring.deck = playback.active
          /\ playback'.active = playback.prepared.deck
      BY <3>2, <3>3 DEF Playbacks
    <3>5. playback.retiring.deck \in CutShort(playback) /\ playback.prepared.deck \in DOMAIN decks
      BY <2>3, PreparedKnown DEF CutShort
    <3>6. Safe(playback.retiring.deck)
      BY <1>0, <2>3, <3>5, CutSafe
    <3>7. DOMAIN decks' = DOMAIN decks
      BY <1>0, <2>3, <3>5, CutDomain
    <3> QED BY <1>3, <2>3, <3>4, <3>6, <3>7, Owners, OwnedKept
  <2> QED BY <1>5, <2>1, <2>2, <2>3, WakeFacts
<1> QED BY <1>4, <1>5 DEF Transition

LEMMA RearmOwned ==
    ASSUME Core, DecksStep, EveryDeckOwned, NEW r \in Rearmers, RearmBegin(r) \/ RearmStep(r)
    PROVE  EveryDeckOwned'
<1>0. /\ playback \in Playbacks /\ fades' = fades /\ decks \in Seq(Decks) /\ r \in Tasks
      /\ task \in [Tasks -> TaskStates]
  BY DEF Core, Typed, RearmBegin, RearmStep, RearmClaim, RearmCheck, RearmTransition,
         RearmOutside, Tasks
<1>1. \A g \in Tasks : g # r => task'[g] = task[g]
  BY <1>0 DEF RearmBegin, RearmStep, RearmClaim, RearmCheck, RearmTransition, RearmOutside,
              Goto, Finish
<1>2. task[r].pc \notin InHand
  BY DEF RearmBegin, RearmStep, RearmClaim, RearmCheck, RearmTransition, RearmOutside,
         InHand, Idle
<1>3. \A g \in Tasks : task[g].pc \in InHand => Safe(task[g].deck)
  BY <1>0, <1>1, <1>2, HandsUntouched
<1>4. CASE playback' = playback /\ decks' = decks
  BY <1>0, <1>3, <1>4, Owners, OwnedKept
<1>5. CASE playback' = Invalidate(playback) /\ decks' = Stopped(decks, {playback.prepared.deck})
  <2>1. playback'.active = playback.active /\ playback'.retiring = playback.retiring
    BY <1>0, <1>5, InvalidateFacts
  <2>2. Safe(playback.prepared.deck) /\ DOMAIN decks' = DOMAIN decks
    BY <1>0, <1>5, StoppedSafe, StoppedDomain
  <2> QED BY <1>0, <1>3, <2>1, <2>2, Owners, OwnedKept
<1>6. CASE (RearmClaim(r) \/ RearmCheck(r)) /\ playback' # playback
  <2>1. \/ playback' = [playback EXCEPT !.rearm = task[r].id,
              !.due = IF @ = task[r].id /\ ~HasPrepared(playback) THEN None ELSE @]
        \/ playback' = [playback EXCEPT !.rearm = IF @ = task[r].id THEN None ELSE @]
    BY <1>6 DEF RearmClaim, RearmCheck
  <2>2. /\ playback'.retiring = playback.retiring /\ playback'.active = playback.active
        /\ playback'.prepared = playback.prepared
    BY <1>0, <2>1 DEF Playbacks
  <2>3. decks' = decks
    BY <1>6 DEF RearmClaim, RearmCheck
  <2> QED BY <1>0, <1>3, <2>2, <2>3, Owners, OwnedKept
<1> QED BY <1>4, <1>5, <1>6 DEF RearmBegin, RearmStep, RearmClaim, RearmCheck,
           RearmTransition, RearmOutside

LEMMA SessionOwned ==
    ASSUME Core, DecksStep, EveryDeckOwned,
           FadeEnds \/ Commands \/ BeginDisconnect \/ ClearSession \/ LeaveCall
    PROVE  EveryDeckOwned'
<1>0. /\ playback \in Playbacks /\ WellFormed(playback.player) /\ task' = task
      /\ playback.player \in Players /\ decks \in Seq(Decks)
  BY DEF Core, Typed, FadeEnds, Commands, Skip, Toggle, EnqueueTrack, BeginDisconnect,
         ClearSession, LeaveCall, Playbacks
<1>h. \A g \in Tasks : task[g].pc \in InHand => Safe(task[g].deck)
  BY <1>0, Owners
<1>1. CASE FadeEnds
  <2>1. PICK f \in fades :
          /\ fades' = fades \ {f} /\ decks' = Stopped(decks, {f.deck})
          /\ playback' = IF live THEN ForgetRetiring(playback, f.id) ELSE playback
    BY <1>1 DEF FadeEnds
  <2>2. Safe(f.deck) /\ DOMAIN decks' = DOMAIN decks
    BY <1>0, <2>1, StoppedSafe, StoppedDomain
  <2>3. \A e \in fades : Safe(e.deck)
    BY <2>1, <2>2, Owners
  <2>4. playback'.active = playback.active /\ playback'.prepared = playback.prepared
    BY <1>0, <2>1, ForgetFacts
  <2>5. FreshIds => Safe(playback.retiring.deck)
    <3>1. CASE playback'.retiring = playback.retiring
      BY <3>1, Owners
    <3>2. CASE playback'.retiring # playback.retiring
      <4>1. playback.retiring.id = f.id
        BY <1>0, <2>1, <3>2, ForgetFacts
      <4> QED BY <2>2, <4>1, FadeOfRetiring
    <3> QED BY <3>1, <3>2
  <2> QED BY <1>h, <2>2, <2>3, <2>4, <2>5, Owners, OwnedKept
<1>2. CASE Skip \/ ClearSession
  <2> DEFINE D == {playback.active, playback.retiring.deck, playback.prepared.deck}
  <2>1. decks' = Stopped(decks, D) /\ fades' = {f \in fades : f.id # playback.fade}
    BY <1>2 DEF Skip, ClearSession
  <2>2. D = {playback.active, playback.retiring.deck, playback.prepared.deck}
    OBVIOUS
  <2> HIDE DEF D
  <2>3. \A d \in D : Safe(d)
    BY <1>0, <2>1, StoppedSafe
  <2>4. DOMAIN decks' = DOMAIN decks
    BY <1>0, <2>1, StoppedDomain
  <2>5. FreshIds => \A f \in fades : Safe(f.deck)
    <3>1. SUFFICES ASSUME FreshIds, NEW f \in fades
                   PROVE  Safe(f.deck)
      OBVIOUS
    <3>2. f.deck \in DOMAIN decks /\ (f.deck = playback.retiring.deck \/ ~AliveIn(decks, f.deck))
      BY <3>1 DEF Core, RetiringFits
    <3>3. CASE ~AliveIn(decks, f.deck)
      BY <3>2, <3>3 DEF DecksStep, Keeps, Safe
    <3> QED BY <2>2, <2>3, <3>2, <3>3
  <2> QED BY <1>h, <2>2, <2>3, <2>4, <2>5, OwnedKept
<1>3. CASE Toggle
  <2>1. PICK q \in ToggledModes(playback) : playback' = Invalidate(q)
    BY <1>3 DEF Toggle
  <2>2. q \in Playbacks /\ q.retiring = playback.retiring /\ q.active = playback.active
    BY <1>0, ToggledFacts
  <2>3. playback'.retiring = playback.retiring /\ playback'.active = playback.active
    BY <2>1, <2>2, InvalidateFacts
  <2>4. decks' = Stopped(decks, {playback.prepared.deck}) /\ fades' = fades
    BY <1>3 DEF Toggle
  <2>5. Safe(playback.prepared.deck) /\ DOMAIN decks' = DOMAIN decks
    BY <1>0, <2>4, StoppedSafe, StoppedDomain
  <2> QED BY <1>h, <2>3, <2>4, <2>5, Owners, OwnedKept
<1>4. ASSUME NEW t \in Tracks, EnqueueTrack(t)
      PROVE  EveryDeckOwned'
  <2>1. PICK player : playback' = [playback EXCEPT !.player = player]
    BY <1>4 DEF EnqueueTrack
  <2>2. /\ playback'.retiring = playback.retiring /\ playback'.active = playback.active
        /\ playback'.prepared = playback.prepared
    BY <1>0, <2>1 DEF Playbacks
  <2>3. decks' = decks /\ fades' = fades
    BY <1>4 DEF EnqueueTrack
  <2> QED BY <1>h, <2>2, <2>3, Owners, OwnedKept
<1>5. CASE BeginDisconnect
  BY <1>h, <1>5, Owners, OwnedKept DEF BeginDisconnect
<1>6. CASE LeaveCall
  <2>1. /\ decks' = [d \in DOMAIN decks |-> [decks[d] EXCEPT !.state = "gone", !.slot = NoArm]]
        /\ \A d \in DOMAIN decks : decks[d] \in Decks
    BY <1>0, <1>6, LenProperties, ElementOfSeq DEF LeaveCall
  <2>2. \A d \in DOMAIN decks' : decks'[d].state = "gone"
    BY <2>1 DEF Decks
  <2>3. \A d : ~AliveIn(decks', d)
    BY <2>2 DEF AliveIn
  <2> QED BY <2>3 DEF EveryDeckOwned, Alive, AliveIn
<1> QED BY <1>1, <1>2, <1>3, <1>4, <1>5, <1>6 DEF Commands

\* The session's deck is over, or was never there, when advance takes the next
\* track.
LEMMA ActiveOver ==
    ASSUME Core, DecksStep, FreshIds,
           \/ /\ task[Worker].pc = "advance" /\ playback.current = task[Worker].id
           \/ task[Worker].pc \in {"advancing", "starting"}
    PROVE  Safe(playback.active)
<1>1. CASE playback.active = None
  <2>1. DOMAIN decks' = 1..Len(decks')
    BY LenProperties DEF DecksStep
  <2>2. None \notin DOMAIN decks'
    BY <2>1, LenProperties DEF None, DecksStep
  <2> QED BY <1>1, <2>2 DEF Safe, AliveIn
<1>2. CASE playback.active # None
  <2>1. task[Worker].pc = "advance" /\ playback.current = task[Worker].id
    BY <1>2 DEF Core, ActiveFits
  <2>2. playback.active \in DOMAIN decks /\ decks[playback.active].state = "gone"
    BY <1>2, <2>1, EndedIsOver DEF Core, ActiveFits
  <2> QED BY <2>2 DEF DecksStep, Keeps, Safe, AliveIn
<1> QED BY <1>1, <1>2

LEMMA WorkerOwned ==
    ASSUME Core, DecksStep, EveryDeckOwned, WorkerOnly
    PROVE  EveryDeckOwned'
<1>0. /\ playback \in Playbacks /\ Worker \in Tasks /\ task[Worker] \in TaskStates
      /\ task \in [Tasks -> TaskStates] /\ TaskFits(task[Worker], decks, playback)
      /\ decks \in Seq(Decks) /\ fades' = fades
  BY DEF Core, Typed, Tasks, TasksFit, WorkerOnly, TakeEvent, TransitionStarted, DegradeArmed,
         ReplacementPrepared, ReplacementFails, InstallReplacement, Advance, NextStarted,
         NextFails, AdvanceAgain
<1>1. \A g \in Tasks : g # Worker => task'[g] = task[g]
  BY <1>0 DEF WorkerOnly, TakeEvent, TransitionStarted, DegradeArmed, ReplacementPrepared,
              ReplacementFails, InstallReplacement, Advance, AdvancePrepared, AdvanceHandoff,
              AdvanceLoop, TakeNextTrack, NextStarted, NextFails, AdvanceAgain, Goto, Finish
<1>2. ~InstallReplacement => task[Worker].pc \notin InHand
  BY DEF WorkerOnly, TakeEvent, TransitionStarted, DegradeArmed, ReplacementPrepared,
         ReplacementFails, Advance, NextStarted, NextFails, AdvanceAgain, InHand, Idle
<1>h. ~InstallReplacement => \A g \in Tasks : task[g].pc \in InHand => Safe(task[g].deck)
  BY <1>0, <1>1, <1>2, HandsUntouched
<1>f. \A f \in fades : Safe(f.deck)
  BY <1>0, Owners
<1>3. CASE TakeEvent \/ TransitionStarted
  BY <1>h, <1>f, <1>3, Owners, OwnedKept DEF TakeEvent, TransitionStarted, InstallReplacement, Idle
<1>4. CASE DegradeArmed
  <2>1. \/ playback' = playback
        \/ playback' = [playback EXCEPT !.prepared.armed = FALSE, !.prepared.gen = None,
                                        !.prepared.started = TRUE]
        \/ playback' = [playback EXCEPT !.gen = @ + 1, !.replacing = playback.gen + 1,
                                        !.prepared.armed = FALSE, !.prepared.gen = None,
                                        !.prepared.started = FALSE]
    BY <1>4 DEF DegradeArmed
  <2>2. /\ playback'.retiring = playback.retiring /\ playback'.active = playback.active
        /\ playback'.prepared.deck = playback.prepared.deck
    BY <1>0, <2>1, DegradeFacts, ZenonT(40)
  <2>3. DOMAIN decks' = DOMAIN decks
    BY <1>0, <1>4, StoppedDomain DEF DegradeArmed
  <2>4. ~InstallReplacement
    BY <1>4 DEF DegradeArmed, InstallReplacement
  <2> QED BY <1>h, <1>f, <2>2, <2>3, <2>4, Owners, OwnedKept
<1>5. CASE ReplacementPrepared
  <2>1. PICK new : decks' = With(new)
    BY <1>5 DEF ReplacementPrepared
  <2>2. \A d \in DOMAIN decks' \ DOMAIN decks : d = NextDeck
    <3>1. DOMAIN With(new) = 1..NextDeck /\ NextDeck = Len(decks) + 1
      BY DEF With, NextDeck
    <3>2. DOMAIN decks = 1..Len(decks) /\ Len(decks) \in Nat
      BY <1>0, LenProperties
    <3> QED BY <2>1, <3>1, <3>2
  <2>3. task'[Worker].pc \in InHand /\ task'[Worker].deck = NextDeck
    BY <1>0, <1>5 DEF ReplacementPrepared, TaskStates, InHand
  <2>4. Safe(NextDeck)
    BY <1>0, <2>3, Owners
  <2>5. ~InstallReplacement /\ playback' = playback
    BY <1>5 DEF ReplacementPrepared, InstallReplacement
  <2> QED BY <1>h, <1>f, <2>2, <2>4, <2>5, Owners, OwnedKept
<1>6. CASE ReplacementFails \/ (Advance /\ AdvancePrepared(task[Worker].id))
  <2>0. ~InstallReplacement
    BY <1>6 DEF ReplacementFails, InstallReplacement, Advance
  <2>1. CASE playback' = playback /\ decks' = decks
    BY <1>h, <1>f, <2>0, <2>1, Owners, OwnedKept
  <2>2. CASE ~(playback' = playback /\ decks' = decks)
    <3>1. decks' = Stopped(decks, {playback.prepared.deck})
      BY <1>6, <2>2 DEF ReplacementFails, AdvancePrepared
    <3>2. \/ playback' = [playback EXCEPT !.gen = @ + 1, !.replacing = None, !.due = None,
                                          !.prepared = NoPrepared]
          \/ playback' = [playback EXCEPT !.gen = @ + 1, !.replacing = None,
                                          !.prepared = NoPrepared]
      BY <1>6, <2>2 DEF ReplacementFails, AdvancePrepared
    <3>3. playback'.retiring = playback.retiring /\ playback'.active = playback.active
      BY <1>0, <3>2 DEF Playbacks
    <3>4. Safe(playback.prepared.deck) /\ DOMAIN decks' = DOMAIN decks
      BY <1>0, <3>1, StoppedSafe, StoppedDomain
    <3> QED BY <1>h, <1>f, <2>0, <3>3, <3>4, Owners, OwnedKept
  <2> QED BY <2>1, <2>2
<1>7. CASE InstallReplacement
  <2>1. CASE /\ playback.prepared.origin = task[Worker].id
             /\ playback.replacing = task[Worker].gen
             /\ playback' = [playback EXCEPT !.prepared.deck = task[Worker].deck,
                                             !.prepared.kind = "crossfade", !.replacing = None]
             /\ decks' = decks
    <3>1. task[Worker].pc = "replace"
      BY <1>7 DEF InstallReplacement
    <3>2. task[Worker].deck \in Nat /\ task[Worker].id # None
      BY <1>0, <3>1 DEF TaskStates, TaskFits
    <3>3. /\ playback'.retiring = playback.retiring /\ playback'.active = playback.active
          /\ playback'.prepared.deck = task[Worker].deck
      BY <1>0, <2>1, <3>2, ReplacedFacts, ZenonT(40)
    <3>4. Safe(task[Worker].deck)
      BY <3>3, Owners
    <3>5. \A g \in Tasks : task[g].pc \in InHand => Safe(task[g].deck)
      BY <1>0, <1>1, <3>4, HandsSafe
    <3>6. ~AliveIn(decks, playback.prepared.deck)
      BY <2>1, <3>1, <3>2, OriginPrepared DEF Core, PreparedFits, Replacing
    <3>7. Safe(playback.prepared.deck)
      BY <2>1, <3>6 DEF Safe
    <3> QED BY <1>f, <2>1, <3>3, <3>5, <3>7, Owners, OwnedKept
  <2>2. CASE decks' = Stopped(decks, {task[Worker].deck}) /\ playback' = playback
    <3>1. Safe(task[Worker].deck) /\ DOMAIN decks' = DOMAIN decks
      BY <1>0, <2>2, StoppedSafe, StoppedDomain
    <3>2. \A g \in Tasks : task[g].pc \in InHand => Safe(task[g].deck)
      BY <1>0, <1>1, <3>1, HandsSafe
    <3> QED BY <1>f, <2>2, <3>1, <3>2, Owners, OwnedKept
  <2> QED BY <1>7, <2>1, <2>2 DEF InstallReplacement
<1>8. CASE Advance /\ AdvanceHandoff(task[Worker].id)
  <2>0. ~InstallReplacement
    BY <1>8 DEF InstallReplacement, Advance
  <2>1. CASE playback' = playback /\ decks' = decks
    BY <1>h, <1>f, <2>0, <2>1, Owners, OwnedKept
  <2>2. CASE ~(playback' = playback /\ decks' = decks)
    <3> DEFINE D == CutShort(playback) \cup {playback.active}
    <3>1. PICK player \in PrepareNextTrack(playback.player) :
            /\ playback' = [ForgetRetiring(Promote(playback, player, task[Worker].id),
                                           task[Worker].id) EXCEPT !.replacing = None]
            /\ decks' = Resumed(Stopped(decks, D), playback.prepared.deck)
      BY <1>8, <2>2 DEF AdvanceHandoff
    <3>2. player \in Players /\ WellFormed(player) /\ task[Worker].id \in Nat
      BY <1>0, PrepareNextWellFormed DEF Core, Typed, Playbacks, TaskStates
    <3>3. playback'.active = playback.prepared.deck
      BY <1>0, <3>1, <3>2, HandoffFacts
    <3>4. /\ playback.retiring.deck \in D /\ playback.active \in D
          /\ playback.prepared.deck \in DOMAIN decks
      BY <1>8, PreparedKnown DEF CutShort, AdvanceHandoff, HandsOver
    <3> HIDE DEF D
    <3>5. Safe(playback.retiring.deck) /\ Safe(playback.active)
      BY <1>0, <3>1, <3>4, CutSafe
    <3>6. DOMAIN decks' = DOMAIN decks
      BY <1>0, <3>1, <3>4, CutDomain
    <3> QED BY <1>h, <1>f, <2>0, <3>3, <3>5, <3>6, Owners, OwnedKept
  <2> QED BY <2>1, <2>2
<1>9. CASE TakeNextTrack /\ (Advance \/ AdvanceAgain)
                         /\ playback.current \in {task[Worker].id, None}
                         /\ (Advance => playback.current = task[Worker].id)
  <2>0. ~InstallReplacement
    BY <1>9 DEF InstallReplacement, Advance, AdvanceAgain
  <2>1. FreshIds => Safe(playback.active)
    BY <1>9, ActiveOver DEF Advance, AdvanceAgain
  <2>2. playback'.retiring = playback.retiring
    BY <1>9, Taken
  <2>3. decks' = Stopped(decks, {playback.prepared.deck})
    BY <1>9 DEF TakeNextTrack
  <2>4. Safe(playback.prepared.deck) /\ DOMAIN decks' = DOMAIN decks
    BY <1>0, <2>3, StoppedSafe, StoppedDomain
  <2> QED BY <1>h, <1>f, <2>0, <2>1, <2>2, <2>4, Owners, OwnedKept
<1>10. CASE (Advance \/ AdvanceAgain) /\ playback' = playback /\ decks' = decks
  <2>0. ~InstallReplacement
    BY <1>10 DEF InstallReplacement, Advance, AdvanceAgain
  <2> QED BY <1>h, <1>f, <1>10, <2>0, Owners, OwnedKept
<1>11. CASE NextStarted
  <2>0. ~InstallReplacement /\ task[Worker].pc = "starting"
    BY <1>11 DEF InstallReplacement, NextStarted
  <2>1. \A d \in DOMAIN decks' \ DOMAIN decks : d = NextDeck
    <3>1. PICK new : decks' = With(new)
      BY <1>11 DEF NextStarted
    <3>2. DOMAIN With(new) = 1..NextDeck /\ NextDeck = Len(decks) + 1
      BY DEF With, NextDeck
    <3>3. DOMAIN decks = 1..Len(decks) /\ Len(decks) \in Nat
      BY <1>0, LenProperties
    <3> QED BY <3>1, <3>2, <3>3
  <2>2. CASE live
    <3>1. FreshIds => Safe(playback.active)
      BY <2>0, ActiveOver
    <3>2. playback' = [playback EXCEPT !.player = ReplaceCurrent(@, task[Worker].next),
                                       !.current = NextDeck, !.active = NextDeck]
      BY <1>11, <2>2 DEF NextStarted
    <3>3. /\ playback'.active = NextDeck /\ playback'.retiring = playback.retiring
          /\ playback'.prepared = playback.prepared
      BY <1>0, <3>2 DEF Playbacks
    <3>4. Safe(NextDeck)
      BY <3>3, Owners
    <3> QED BY <1>h, <1>f, <2>0, <2>1, <3>1, <3>3, <3>4, Owners, OwnedKept
  <2>3. CASE ~live
    <3>1. /\ playback' = playback
          /\ decks' = With(NewDeck(NextDeck, task[Worker].next, "stopped"))
      BY <1>11, <2>3 DEF NextStarted
    <3>2. Safe(NextDeck)
      <4> DEFINE new == NewDeck(NextDeck, task[Worker].next, "stopped")
      <4>1. NextDeck \in 1..NextDeck
        BY <1>0, LenProperties DEF NextDeck
      <4>2. With(new)[NextDeck] = new
        BY <4>1 DEF With
      <4>3. new.state = "stopped"
        BY DEF NewDeck
      <4> HIDE DEF new
      <4>4. decks' = With(new)
        BY <3>1 DEF new
      <4> QED BY <4>2, <4>3, <4>4 DEF Safe, AliveIn
    <3> QED BY <1>h, <1>f, <2>0, <2>1, <3>1, <3>2, Owners, OwnedKept
  <2> QED BY <2>2, <2>3
<1>12. CASE NextFails
  <2>0. ~InstallReplacement /\ decks' = decks
    BY <1>12 DEF InstallReplacement, NextFails
  <2>1. \/ playback' = playback
        \/ \E player : playback' = [playback EXCEPT !.player = player, !.current = None]
    BY <1>12 DEF NextFails
  <2>2. /\ playback'.retiring = playback.retiring /\ playback'.active = playback.active
        /\ playback'.prepared = playback.prepared
    BY <1>0, <2>1 DEF Playbacks
  <2> QED BY <1>h, <1>f, <2>0, <2>2, Owners, OwnedKept
<1>13. CASE Advance
  BY <1>6, <1>8, <1>9, <1>10, <1>13 DEF Advance, AdvanceLoop
<1>14. CASE AdvanceAgain
  BY <1>9, <1>10, <1>14 DEF Advance, AdvanceAgain, AdvanceLoop
<1> QED BY <1>3, <1>4, <1>5, <1>6, <1>7, <1>11, <1>12, <1>13, <1>14 DEF WorkerOnly

\* A deck that plays on, ends or fires a start keeps its owner.
LEMMA RuntimeOwned ==
    ASSUME Core, DecksStep, EveryDeckOwned, NEW d \in DOMAIN decks,
           DeckTimer(d) \/ DeckEnded(d) \/ ArmFires(d)
    PROVE  EveryDeckOwned'
<1>1. playback' = playback /\ task' = task /\ fades' = fades
  BY DEF DeckTimer, DeckEnded, ArmFires
<1>2. DOMAIN decks' = DOMAIN decks
  BY DEF DeckTimer, DeckEnded, ArmFires, Resumed
<1> QED BY <1>1, <1>2, Owners, OwnedKept

\* No deck is leaked, in any scenario: each change of hands names the new owner or
\* stops the deck.
THEOREM EveryDeckStaysOwned == Spec => []EveryDeckOwned
<1>1. Init => EveryDeckOwned
  BY DEF Init, EveryDeckOwned, OwnedDecks, NewDeck
<1>2. Core /\ EveryDeckOwned /\ [Next]_vars => EveryDeckOwned'
  <2> SUFFICES ASSUME Core, EveryDeckOwned, [Next]_vars
               PROVE  EveryDeckOwned'
    OBVIOUS
  <2>1. DecksStep
    BY DecksKept
  <2>2. CASE UNCHANGED vars
    BY <2>2, <2>1, Owners, OwnedKept DEF vars
  <2> QED BY <2>1, <2>2, PrefetchOwned, TransitionOwned, WorkerOwned, RearmOwned,
             SessionOwned, RuntimeOwned DEF Next
<1> QED BY <1>1, <1>2, CoreHolds, PTL DEF Spec

-----------------------------------------------------------------------------
(* Without beat-matched starts.                                            *)

ArmSteps == {"arming", "refit", "degrade", "replacing", "replace"}
PlayingIn(ds, d) == d \in DOMAIN ds /\ ds[d].state = "playing"

\* Nothing is armed, so no deck takes another's id, and what plays is the active
\* deck or the retiring one.
NoArms ==
    /\ \A d \in DOMAIN decks : decks[d].slot = NoArm /\ decks[d].id = d
    /\ \A h \in Tasks : task[h].pc \notin ArmSteps
    /\ \A i \in 1..Len(inbox) : inbox[i].kind \notin {"late", "arm_failed"}
    /\ \A d : PlayingIn(decks, d) => d \in {playback.active, playback.retiring.deck}

TasksCalm == \A h \in Tasks : task[h].pc \notin ArmSteps

\* Both decks stay where they are, and no other is resumed.
LEMMA CalmKept ==
    ASSUME Core, DecksStep, NoArms, TasksCalm', inbox' = inbox,
           DOMAIN decks' = DOMAIN decks,
           \A d \in DOMAIN decks : decks'[d].slot \in {decks[d].slot, NoArm},
           \A d : PlayingIn(decks', d) => d \in {playback'.active, playback'.retiring.deck}
    PROVE  NoArms'
<1>1. \A d \in DOMAIN decks' : decks'[d].slot = NoArm /\ decks'[d].id = d
  BY DEF NoArms, DecksStep, Keeps
<1> QED BY <1>1 DEF NoArms, TasksCalm

LEMMA CalmFresh == NoArms => FreshIds
  BY DEF NoArms, FreshIds

LEMMA StoppedCalm ==
    ASSUME decks \in Seq(Decks), NEW D, decks' = Stopped(decks, D)
    PROVE  /\ DOMAIN decks' = DOMAIN decks
           /\ \A d \in DOMAIN decks : decks'[d].slot \in {decks[d].slot, NoArm}
           /\ \A d : PlayingIn(decks', d) => PlayingIn(decks, d) /\ d \notin D
  BY StoppedFacts DEF PlayingIn

LEMMA ResumedCalm ==
    ASSUME decks \in Seq(Decks), NEW D, NEW e \in DOMAIN decks,
           decks' = Resumed(Stopped(decks, D), e)
    PROVE  /\ DOMAIN decks' = DOMAIN decks
           /\ \A d \in DOMAIN decks : decks'[d].slot \in {decks[d].slot, NoArm}
           /\ \A d : PlayingIn(decks', d) => d = e \/ (PlayingIn(decks, d) /\ d \notin D)
<1> DEFINE es == Stopped(decks, D)
           fs == Resumed(es, e)
<1>1. /\ es \in Seq(Decks) /\ DOMAIN es = DOMAIN decks
      /\ \A d \in DOMAIN decks :
           /\ es[d].slot \in {decks[d].slot, NoArm}
           /\ es[d].state = IF d \in D /\ decks[d].state \in {"paused", "playing"}
                            THEN "stopped" ELSE decks[d].state
  BY StoppedFacts
<1>2. decks' = fs
  OBVIOUS
<1> HIDE DEF es
<1>3. /\ DOMAIN fs = DOMAIN decks
      /\ \A d \in DOMAIN decks :
           /\ fs[d].slot = es[d].slot
           /\ fs[d].state = IF d = e /\ es[d].state = "paused" THEN "playing" ELSE es[d].state
  BY <1>1, ResumedFacts
<1> HIDE DEF fs
<1> QED BY <1>1, <1>2, <1>3 DEF PlayingIn

\* A new deck under its own id.
LEMMA NewCalm ==
    ASSUME Core, DecksStep, NoArms, TasksCalm', inbox' = inbox,
           NEW t \in Tracks, NEW s \in DeckStates, decks' = With(NewDeck(NextDeck, t, s)),
           s = "playing" => playback'.active = NextDeck,
           \A d : PlayingIn(decks, d) => d \in {playback'.active, playback'.retiring.deck}
    PROVE  NoArms'
<1>1. NextDeck \in Nat /\ NextDeck # None /\ decks \in Seq(Decks) /\ DecksFit
  BY LenProperties DEF NextDeck, None, Core, Typed
<1>2. /\ DOMAIN decks' = DOMAIN decks \cup {NextDeck}
      /\ decks'[NextDeck].id = NextDeck /\ decks'[NextDeck].slot = NoArm
      /\ decks'[NextDeck].state = s
      /\ \A d \in DOMAIN decks : decks'[d] = decks[d]
  BY <1>1, WithStep
<1>3. \A d \in DOMAIN decks' : decks'[d].slot = NoArm /\ decks'[d].id = d
  BY <1>2 DEF NoArms
<1>4. \A d : PlayingIn(decks', d) => d \in {playback'.active, playback'.retiring.deck}
  BY <1>2 DEF PlayingIn
<1> QED BY <1>3, <1>4 DEF NoArms, TasksCalm

\* One task moves to a step that arms nothing.
LEMMA MovedCalm ==
    ASSUME Core, NoArms, NEW h \in Tasks, \A g \in Tasks : g # h => task'[g] = task[g],
           task'[h].pc \notin ArmSteps
    PROVE  TasksCalm'
  BY DEF NoArms, TasksCalm

LEMMA FinishedPc ==
    ASSUME Core, NEW h \in Tasks, Finish(h) \/ Return(h)
    PROVE  task'[h].pc \in {"idle", "rearmed"}
<1>1. task \in [Tasks -> TaskStates]
  BY DEF Core, Typed
<1>2. Idle.pc = "idle" /\ [Idle EXCEPT !.pc = "rearmed", !.id = task[h].id].pc = "rearmed"
  BY DEF Idle
<1> QED BY <1>1, <1>2 DEF Finish, Return

LEMMA GonePc ==
    ASSUME Core, NEW h \in Tasks, NEW pc, Goto(h, pc)
    PROVE  task'[h].pc = pc
<1>1. task \in [Tasks -> TaskStates] /\ task[h] \in TaskStates
  BY DEF Core, Typed
<1> QED BY <1>1 DEF Goto, TaskStates

LEMMA PrefetchCalm ==
    ASSUME Core, DecksStep, NoArms, "beatmatched" \notin scenario.kinds,
           NEW h \in Tasks, Prefetch(h)
    PROVE  NoArms'
<1>0. /\ playback \in Playbacks /\ decks \in Seq(Decks) /\ inbox' = inbox
      /\ task \in [Tasks -> TaskStates] /\ task[h] \in TaskStates
      /\ TaskFits(task[h], decks, playback)
  BY DEF Core, Typed, TasksFit, Prefetch, PrefetchBegin, SourcePrepared, PrepareIncoming,
         PrefetchFails, ArmAccepted, ArmRejected, PrepareFallback, InstallPrepared
<1>1. \A g \in Tasks : g # h => task'[g] = task[g]
  BY PrefetchOthers
<1>2. ~ArmAccepted(h) /\ ~ArmRejected(h) /\ ~PrepareFallback(h)
  BY DEF NoArms, ArmSteps, ArmAccepted, ArmRejected, PrepareFallback
<1>3. CASE PrepareIncoming(h)
  <2>1. PICK kind \in scenario.kinds :
          task' = [task EXCEPT ![h].pc = IF kind = "beatmatched" THEN "arming" ELSE "install",
                               ![h].kind = kind, ![h].deck = NextDeck,
                               ![h].incoming = NextDeck]
    BY <1>3 DEF PrepareIncoming
  <2>2. kind # "beatmatched"
    BY <2>1
  <2>3. task'[h] = [task[h] EXCEPT !.pc = "install", !.kind = kind, !.deck = NextDeck,
                                   !.incoming = NextDeck]
    BY <1>0, <2>1, <2>2
  <2>4. task'[h].pc = "install"
    BY <1>0, <2>3 DEF TaskStates
  <2>5. TasksCalm'
    BY <1>1, <2>4, MovedCalm DEF ArmSteps
  <2>6. task[h].next \in Tracks
    BY <1>0, <1>3 DEF TaskStates, AnyTrack, TaskFits, Carrying, PrepareIncoming
  <2>7. playback' = playback /\ decks' = With(NewDeck(NextDeck, task[h].next, "paused"))
    BY <1>3 DEF PrepareIncoming
  <2>8. \A d : PlayingIn(decks, d) => d \in {playback'.active, playback'.retiring.deck}
    BY <2>7 DEF NoArms
  <2> QED BY <1>0, <2>5, <2>6, <2>7, <2>8, NewCalm DEF DeckStates
<1>4. CASE PrefetchBegin(h) \/ SourcePrepared(h) \/ PrefetchFails(h) \/ InstallPrepared(h)
  <2>1. playback'.active = playback.active /\ playback'.retiring = playback.retiring
    <3>1. \/ playback' = playback \/ playback' = [playback EXCEPT !.gen = @ + 1]
          \/ \E new : playback' = [playback EXCEPT !.prepared = new]
      BY <1>4 DEF PrefetchBegin, SourcePrepared, PrefetchFails, InstallPrepared
    <3>2. ASSUME NEW new, playback' = [playback EXCEPT !.prepared = new]
          PROVE  playback'.active = playback.active /\ playback'.retiring = playback.retiring
      BY <1>0, <3>2 DEF Playbacks
    <3> QED BY <1>0, <3>1, <3>2, NextGenKeeps
  <2>2. task'[h].pc \notin ArmSteps
    <3>1. CASE Finish(h) \/ Return(h)
      BY <3>1, FinishedPc DEF ArmSteps
    <3>2. CASE PrefetchBegin(h) /\ ~Return(h)
      <4> DEFINE g == playback.gen + 1
                 next == PeekNextTrack(playback.player)
      <4>1. task'[h] = [task[h] EXCEPT !.pc = "preparing", !.gen = g, !.next = next]
        BY <1>0, <3>2 DEF PrefetchBegin
      <4> HIDE DEF g, next
      <4> QED BY <1>0, <4>1 DEF TaskStates, ArmSteps
    <3>3. CASE Goto(h, "planning")
      BY <3>3, GonePc DEF ArmSteps
    <3> QED BY <1>4, <3>1, <3>2, <3>3 DEF PrefetchBegin, SourcePrepared, PrefetchFails,
               InstallPrepared
  <2>3. TasksCalm'
    BY <1>1, <2>2, MovedCalm
  <2>4. \/ decks' = decks
        \/ \E D : decks' = Stopped(decks, D)
    BY <1>4 DEF PrefetchBegin, SourcePrepared, PrefetchFails, InstallPrepared
  <2>5. /\ DOMAIN decks' = DOMAIN decks
        /\ \A d \in DOMAIN decks : decks'[d].slot \in {decks[d].slot, NoArm}
        /\ \A d : PlayingIn(decks', d) => PlayingIn(decks, d)
    BY <1>0, <2>4, StoppedCalm
  <2>6. \A d : PlayingIn(decks', d) => d \in {playback'.active, playback'.retiring.deck}
    BY <2>1, <2>5 DEF NoArms
  <2> QED BY <1>0, <2>3, <2>5, <2>6, CalmKept
<1> QED BY <1>2, <1>3, <1>4 DEF Prefetch

LEMMA TransitionCalm ==
    ASSUME Core, DecksStep, NoArms, NEW h \in Tasks, Transition(h)
    PROVE  NoArms'
<1>0. /\ playback \in Playbacks /\ decks \in Seq(Decks) /\ task[h].id \in Nat
      /\ task \in [Tasks -> TaskStates] /\ task[h] \in TaskStates /\ inbox' = inbox
  BY DEF Core, Typed, TaskStates, Transition, TransitionBegin, CheckTarget, TransitionWake
<1>1. \A g \in Tasks : g # h => task'[g] = task[g]
  BY <1>0 DEF Transition, TransitionBegin, CheckTarget, TransitionWake, Goto, Finish
<1>2. task'[h].pc \notin ArmSteps
  <2>1. CASE Finish(h)
    BY <2>1, FinishedPc DEF ArmSteps
  <2>2. CASE Goto(h, "sleeping")
    BY <2>2, GonePc DEF ArmSteps
  <2>3. CASE TransitionBegin(h) /\ ~Finish(h)
    <3> DEFINE pc == IF playback.prepared.armed THEN "checking" ELSE "sleeping"
    <3>1. task'[h] = [task[h] EXCEPT !.pc = pc, !.deck = playback.active]
      BY <1>0, <2>3 DEF TransitionBegin
    <3>2. pc \notin ArmSteps
      BY DEF ArmSteps
    <3> HIDE DEF pc
    <3> QED BY <1>0, <3>1, <3>2 DEF TaskStates
  <2> QED BY <2>1, <2>2, <2>3 DEF Transition, CheckTarget, TransitionWake
<1>3. TasksCalm'
  BY <1>1, <1>2, MovedCalm
<1>4. CASE TransitionBegin(h) \/ CheckTarget(h)
  <2>1. playback'.active = playback.active /\ playback'.retiring = playback.retiring
    <3>1. CASE playback' = playback
      BY <3>1
    <3>2. CASE playback' # playback
      <4>1. PICK due \in {playback.due, task[h].id} :
              playback' = [playback EXCEPT !.gen = @ + 1, !.due = due]
        BY <1>4, <3>2 DEF TransitionBegin, CheckTarget
      <4> DEFINE p == [playback EXCEPT !.gen = @ + 1]
      <4>2. p \in Playbacks /\ p.active = playback.active /\ p.retiring = playback.retiring
        BY <1>0, NextGen, NextGenKeeps
      <4>3. playback' = [p EXCEPT !.due = due]
        BY <4>1
      <4> HIDE DEF p
      <4> QED BY <4>2, <4>3 DEF Playbacks
    <3> QED BY <3>1, <3>2
  <2>2. decks' = decks
    BY <1>4 DEF TransitionBegin, CheckTarget
  <2>3. \A d : PlayingIn(decks', d) => d \in {playback'.active, playback'.retiring.deck}
    BY <2>1, <2>2 DEF NoArms
  <2> QED BY <1>0, <1>3, <2>2, <2>3, CalmKept
<1>5. CASE TransitionWake(h)
  <2>1. CASE /\ playback' = [playback EXCEPT !.prepared = NoPrepared]
             /\ decks' = Stopped(decks, {playback.prepared.deck})
    <3>1. playback'.active = playback.active /\ playback'.retiring = playback.retiring
      BY <1>0, <2>1 DEF Playbacks
    <3>2. /\ DOMAIN decks' = DOMAIN decks
          /\ \A d \in DOMAIN decks : decks'[d].slot \in {decks[d].slot, NoArm}
          /\ \A d : PlayingIn(decks', d) => PlayingIn(decks, d)
      BY <1>0, <2>1, StoppedCalm
    <3>3. \A d : PlayingIn(decks', d) => d \in {playback'.active, playback'.retiring.deck}
      BY <3>1, <3>2 DEF NoArms
    <3> QED BY <1>0, <1>3, <3>2, <3>3, CalmKept
  <2>2. ASSUME NEW player \in PrepareNextTrack(playback.player), HasPrepared(playback),
               playback' = ForgetRetiring(Promote(playback, player, task[h].id), task[h].id),
               decks' = Resumed(Stopped(Stopped(decks, CutShort(playback)), {playback.active}),
                                playback.prepared.deck)
        PROVE  NoArms'
    <3>1. player \in Players /\ WellFormed(player)
      BY <1>0, PrepareNextWellFormed DEF Core, Typed, Playbacks
    <3> DEFINE q == Promote(playback, player, task[h].id)
    <3>2. q \in Playbacks /\ q.active = playback.prepared.deck
      BY <1>0, <3>1, PromoteFacts
    <3>3. playback' = ForgetRetiring(q, task[h].id)
      BY <2>2
    <3> HIDE DEF q
    <3>4. playback'.active = playback.prepared.deck
      BY <3>2, <3>3, ForgetFacts
    <3> DEFINE D == CutShort(playback) \cup {playback.active}
    <3>5. decks' = Resumed(Stopped(decks, D), playback.prepared.deck)
      BY <1>0, <2>2, StoppedTwice
    <3>6. /\ playback.retiring.deck \in D /\ playback.active \in D
          /\ playback.prepared.deck \in DOMAIN decks
      BY <2>2, PreparedKnown DEF CutShort
    <3> HIDE DEF D
    <3>7. /\ DOMAIN decks' = DOMAIN decks
          /\ \A d \in DOMAIN decks : decks'[d].slot \in {decks[d].slot, NoArm}
          /\ \A d : PlayingIn(decks', d) =>
               d = playback.prepared.deck \/ (PlayingIn(decks, d) /\ d \notin D)
      BY <1>0, <3>5, <3>6, ResumedCalm
    <3>8. \A d : PlayingIn(decks', d) => d \in {playback'.active, playback'.retiring.deck}
      BY <3>4, <3>6, <3>7 DEF NoArms
    <3> QED BY <1>0, <1>3, <3>7, <3>8, CalmKept
  <2>3. ASSUME NEW player \in PrepareNextTrack(playback.player), HasPrepared(playback),
               playback' = [Promote(playback, player, task[h].id) EXCEPT !.fade = task[h].id],
               \/ decks' = Stopped(decks, CutShort(playback))
               \/ decks' = Resumed(Stopped(decks, CutShort(playback)), playback.prepared.deck)
        PROVE  NoArms'
    <3>1. player \in Players /\ WellFormed(player)
      BY <1>0, PrepareNextWellFormed DEF Core, Typed, Playbacks
    <3> DEFINE q == Promote(playback, player, task[h].id)
    <3>2. /\ q \in Playbacks /\ q.retiring = [id |-> task[h].id, deck |-> playback.active]
          /\ q.active = playback.prepared.deck
      BY <1>0, <3>1, PromoteFacts
    <3>3. playback' = [q EXCEPT !.fade = task[h].id]
      BY <2>3
    <3> HIDE DEF q
    <3>4. /\ playback'.retiring.deck = playback.active
          /\ playback'.active = playback.prepared.deck
      BY <3>2, <3>3 DEF Playbacks
    <3>5. playback.retiring.deck \in CutShort(playback) /\ playback.prepared.deck \in DOMAIN decks
      BY <2>3, PreparedKnown DEF CutShort
    <3>6. /\ DOMAIN decks' = DOMAIN decks
          /\ \A d \in DOMAIN decks : decks'[d].slot \in {decks[d].slot, NoArm}
          /\ \A d : PlayingIn(decks', d) =>
               \/ d = playback.prepared.deck
               \/ PlayingIn(decks, d) /\ d \notin CutShort(playback)
      BY <1>0, <2>3, <3>5, StoppedCalm, ResumedCalm
    <3>7. \A d : PlayingIn(decks', d) => d \in {playback'.active, playback'.retiring.deck}
      BY <3>4, <3>5, <3>6 DEF NoArms
    <3> QED BY <1>0, <1>3, <3>6, <3>7, CalmKept
  <2> QED BY <1>5, <2>1, <2>2, <2>3, WakeFacts
<1> QED BY <1>4, <1>5 DEF Transition

LEMMA RearmCalm ==
    ASSUME Core, DecksStep, NoArms, NEW r \in Rearmers, RearmBegin(r) \/ RearmStep(r)
    PROVE  NoArms'
<1>0. /\ playback \in Playbacks /\ inbox' = inbox /\ decks \in Seq(Decks) /\ r \in Tasks
      /\ task \in [Tasks -> TaskStates]
  BY DEF Core, Typed, RearmBegin, RearmStep, RearmClaim, RearmCheck, RearmTransition,
         RearmOutside, Tasks
<1>1. \A g \in Tasks : g # r => task'[g] = task[g]
  BY <1>0 DEF RearmBegin, RearmStep, RearmClaim, RearmCheck, RearmTransition, RearmOutside,
              Goto, Finish
<1>2. task'[r].pc \notin ArmSteps
  <2>1. CASE Finish(r)
    BY <1>0, <2>1, FinishedPc DEF ArmSteps
  <2>2. CASE Goto(r, "prefetch") \/ Goto(r, "window") \/ Goto(r, "transition")
    BY <1>0, <2>2, GonePc DEF ArmSteps
  <2>3. CASE RearmBegin(r)
    <3>1. task'[r] = [Idle EXCEPT !.pc = "positioned", !.id = playback.current]
      BY <1>0, <2>3 DEF RearmBegin
    <3> QED BY <3>1 DEF Idle, ArmSteps
  <2> QED BY <2>1, <2>2, <2>3 DEF RearmStep, RearmClaim, RearmCheck, RearmTransition,
             RearmOutside
<1>3. TasksCalm'
  BY <1>0, <1>1, <1>2, MovedCalm
<1>4. playback'.active = playback.active /\ playback'.retiring = playback.retiring
  <2>1. \/ playback' \in {playback, Invalidate(playback)}
        \/ playback' = [playback EXCEPT !.rearm = task[r].id,
              !.due = IF @ = task[r].id /\ ~HasPrepared(playback) THEN None ELSE @]
        \/ playback' = [playback EXCEPT !.rearm = IF @ = task[r].id THEN None ELSE @]
    BY DEF RearmBegin, RearmStep, RearmClaim, RearmCheck, RearmTransition, RearmOutside
  <2>2. CASE playback' \in {playback, Invalidate(playback)}
    BY <1>0, <2>2, InvalidateFacts
  <2>3. CASE playback' \notin {playback, Invalidate(playback)}
    BY <1>0, <2>1, <2>3 DEF Playbacks
  <2> QED BY <2>2, <2>3
<1>5. decks' = decks \/ \E D : decks' = Stopped(decks, D)
  BY DEF RearmBegin, RearmStep, RearmClaim, RearmCheck, RearmTransition, RearmOutside
<1>6. /\ DOMAIN decks' = DOMAIN decks
      /\ \A d \in DOMAIN decks : decks'[d].slot \in {decks[d].slot, NoArm}
      /\ \A d : PlayingIn(decks', d) => PlayingIn(decks, d)
  BY <1>0, <1>5, StoppedCalm
<1>7. \A d : PlayingIn(decks', d) => d \in {playback'.active, playback'.retiring.deck}
  BY <1>4, <1>6 DEF NoArms
<1> QED BY <1>0, <1>3, <1>6, <1>7, CalmKept

LEMMA SessionCalm ==
    ASSUME Core, DecksStep, NoArms,
           FadeEnds \/ Commands \/ BeginDisconnect \/ ClearSession \/ LeaveCall
    PROVE  NoArms'
<1>0. /\ playback \in Playbacks /\ WellFormed(playback.player) /\ task' = task
      /\ inbox' = inbox /\ playback.player \in Players /\ decks \in Seq(Decks)
  BY DEF Core, Typed, FadeEnds, Commands, Skip, Toggle, EnqueueTrack, BeginDisconnect,
         ClearSession, LeaveCall, Playbacks
<1>t. TasksCalm'
  BY <1>0 DEF NoArms, TasksCalm
<1>1. CASE FadeEnds
  <2>1. PICK f \in fades :
          /\ decks' = Stopped(decks, {f.deck})
          /\ playback' = IF live THEN ForgetRetiring(playback, f.id) ELSE playback
    BY <1>1 DEF FadeEnds
  <2>2. /\ DOMAIN decks' = DOMAIN decks
        /\ \A d \in DOMAIN decks : decks'[d].slot \in {decks[d].slot, NoArm}
        /\ \A d : PlayingIn(decks', d) => PlayingIn(decks, d) /\ d # f.deck
    BY <1>0, <2>1, StoppedCalm
  <2>3. /\ playback'.active = playback.active
        /\ playback'.retiring = playback.retiring \/ playback.retiring.id = f.id
    BY <1>0, <2>1, ForgetFacts
  <2>4. playback.retiring.id = f.id => f.deck = playback.retiring.deck
    BY CalmFresh, FadeOfRetiring
  <2>5. \A d : PlayingIn(decks', d) => d \in {playback'.active, playback'.retiring.deck}
    BY <2>2, <2>3, <2>4 DEF NoArms
  <2> QED BY <1>0, <1>t, <2>2, <2>5, CalmKept
<1>2. CASE Skip \/ ClearSession
  <2>1. decks' = Stopped(decks, {playback.active, playback.retiring.deck,
                                 playback.prepared.deck})
    BY <1>2 DEF Skip, ClearSession
  <2>2. /\ DOMAIN decks' = DOMAIN decks
        /\ \A d \in DOMAIN decks : decks'[d].slot \in {decks[d].slot, NoArm}
        /\ \A d : PlayingIn(decks', d) =>
             /\ PlayingIn(decks, d)
             /\ d \notin {playback.active, playback.retiring.deck, playback.prepared.deck}
    BY <1>0, <2>1, StoppedCalm
  <2>3. \A d : ~PlayingIn(decks', d)
    BY <2>2 DEF NoArms
  <2> QED BY <1>0, <1>t, <2>2, <2>3, CalmKept
<1>3. CASE Toggle \/ \E t \in Tracks : EnqueueTrack(t)
  <2>1. playback'.active = playback.active /\ playback'.retiring = playback.retiring
    <3>1. CASE Toggle
      <4>1. PICK q \in ToggledModes(playback) : playback' = Invalidate(q)
        BY <3>1 DEF Toggle
      <4>2. q \in Playbacks /\ q.retiring = playback.retiring /\ q.active = playback.active
        BY <1>0, ToggledFacts
      <4> QED BY <4>1, <4>2, InvalidateFacts
    <3>2. CASE \E t \in Tracks : EnqueueTrack(t)
      <4>1. PICK player : playback' = [playback EXCEPT !.player = player]
        BY <3>2 DEF EnqueueTrack
      <4> QED BY <1>0, <4>1 DEF Playbacks
    <3> QED BY <1>3, <3>1, <3>2
  <2>2. decks' = decks \/ \E D : decks' = Stopped(decks, D)
    BY <1>3 DEF Toggle, EnqueueTrack
  <2>3. /\ DOMAIN decks' = DOMAIN decks
        /\ \A d \in DOMAIN decks : decks'[d].slot \in {decks[d].slot, NoArm}
        /\ \A d : PlayingIn(decks', d) => PlayingIn(decks, d)
    BY <1>0, <2>2, StoppedCalm
  <2>4. \A d : PlayingIn(decks', d) => d \in {playback'.active, playback'.retiring.deck}
    BY <2>1, <2>3 DEF NoArms
  <2> QED BY <1>0, <1>t, <2>3, <2>4, CalmKept
<1>4. CASE BeginDisconnect
  <2>1. decks' = decks /\ playback' = playback
    BY <1>4 DEF BeginDisconnect
  <2>2. \A d : PlayingIn(decks', d) => d \in {playback'.active, playback'.retiring.deck}
    BY <2>1 DEF NoArms
  <2> QED BY <1>0, <1>t, <2>1, <2>2, CalmKept
<1>5. CASE LeaveCall
  <2>1. /\ decks' = [d \in DOMAIN decks |-> [decks[d] EXCEPT !.state = "gone", !.slot = NoArm]]
        /\ \A d \in DOMAIN decks : decks[d] \in Decks
    BY <1>0, <1>5, LenProperties, ElementOfSeq DEF LeaveCall
  <2>2. /\ DOMAIN decks' = DOMAIN decks
        /\ \A d \in DOMAIN decks : decks'[d].slot = NoArm /\ decks'[d].state = "gone"
    BY <2>1 DEF Decks
  <2>3. \A d : ~PlayingIn(decks', d)
    BY <2>2 DEF PlayingIn
  <2> QED BY <1>0, <1>t, <2>2, <2>3, CalmKept
<1> QED BY <1>1, <1>2, <1>3, <1>4, <1>5 DEF Commands

\* The session's deck does not play when advance takes or starts the next track.
LEMMA ActiveQuiet ==
    ASSUME Core, NoArms,
           \/ /\ task[Worker].pc = "advance" /\ playback.current = task[Worker].id
           \/ task[Worker].pc \in {"advancing", "starting"}
    PROVE  ~PlayingIn(decks, playback.active)
<1>1. CASE playback.active = None
  BY <1>1, LenProperties DEF PlayingIn, None, Core, Typed
<1>2. CASE playback.active # None
  <2>1. task[Worker].pc = "advance" /\ playback.current = task[Worker].id
    BY <1>2 DEF Core, ActiveFits
  <2>2. decks[playback.active].state = "gone"
    BY <1>2, <2>1, CalmFresh, EndedIsOver
  <2> QED BY <2>2 DEF PlayingIn
<1> QED BY <1>1, <1>2

\* The worker takes an event that reports no failed arm.
LEMMA TakenCalm ==
    ASSUME Core, DecksStep, NoArms, TakeEvent
    PROVE  NoArms'
<1>0. /\ playback' = playback /\ decks' = decks /\ inbox \in Seq(Events) /\ inbox # <<>>
      /\ inbox' = Tail(inbox) /\ Worker \in Tasks /\ task \in [Tasks -> TaskStates]
  BY DEF TakeEvent, Core, Typed, Tasks
<1>1. /\ Len(inbox) \in Nat /\ Len(inbox) # 0 /\ Head(inbox) = inbox[1]
      /\ Head(inbox) \in Events /\ Len(inbox') = Len(inbox) - 1
      /\ \A i \in 1..Len(inbox') : inbox'[i] = inbox[i + 1]
  BY <1>0, HeadTailProperties, EmptySeq, LenProperties
<1>2. ASSUME NEW i \in 1..Len(inbox')
      PROVE  inbox'[i].kind \notin {"late", "arm_failed"}
  <2>1. i + 1 \in 1..Len(inbox)
    BY <1>1
  <2> QED BY <1>1, <2>1 DEF NoArms
<1>3. Head(inbox).kind \notin {"late", "arm_failed"}
  <2>1. 1 \in 1..Len(inbox)
    BY <1>1
  <2> QED BY <1>1, <2>1 DEF NoArms
<1>4. task'[Worker].pc \notin ArmSteps
  <2> DEFINE e == Head(inbox)
             pc == HandlerOf(e.kind)
             new == [Idle EXCEPT !.pc = pc, !.id = e.id, !.kind = e.kind,
                                 !.incoming = e.incoming, !.gen = e.gen]
  <2>1. task' = [task EXCEPT ![Worker] = new]
    BY DEF TakeEvent
  <2>2. e \in Events /\ e.kind \notin {"late", "arm_failed"}
    BY <1>1, <1>3
  <2> HIDE DEF e
  <2>3. pc \in {"prefetch", "transition", "confirm", "advance"}
    BY <2>2 DEF HandlerOf, Events, EventKinds
  <2> HIDE DEF pc
  <2>4. new.pc = pc
    BY DEF Idle
  <2> HIDE DEF new
  <2> QED BY <1>0, <2>1, <2>3, <2>4 DEF ArmSteps
<1>5. \A g \in Tasks : g # Worker => task'[g] = task[g]
  BY <1>0 DEF TakeEvent
<1>6. TasksCalm'
  BY <1>0, <1>4, <1>5, MovedCalm
<1> QED BY <1>0, <1>2, <1>6 DEF NoArms, TasksCalm, PlayingIn

LEMMA WorkerCalm ==
    ASSUME Core, DecksStep, NoArms, WorkerOnly
    PROVE  NoArms'
<1>0. /\ playback \in Playbacks /\ Worker \in Tasks /\ task[Worker] \in TaskStates
      /\ task \in [Tasks -> TaskStates] /\ TaskFits(task[Worker], decks, playback)
      /\ decks \in Seq(Decks)
  BY DEF Core, Typed, Tasks, TasksFit
<1>1. CASE TakeEvent
  BY <1>1, TakenCalm
<1>2. task[Worker].pc \notin ArmSteps
  BY <1>0 DEF NoArms
<1>3. ~(DegradeArmed \/ ReplacementPrepared \/ ReplacementFails \/ InstallReplacement)
  BY <1>2 DEF DegradeArmed, ReplacementPrepared, ReplacementFails, InstallReplacement, ArmSteps
<1>4. CASE TransitionStarted \/ Advance \/ NextStarted \/ NextFails \/ AdvanceAgain
  <2>1. /\ inbox' = inbox
        /\ \A g \in Tasks : g # Worker => task'[g] = task[g]
    BY <1>0, <1>4 DEF TransitionStarted, Advance, AdvancePrepared, AdvanceHandoff, AdvanceLoop,
       TakeNextTrack, NextStarted, NextFails, AdvanceAgain, Goto, Finish
  <2>2. task'[Worker].pc \notin ArmSteps
    <3>1. CASE Finish(Worker)
      BY <1>0, <3>1, FinishedPc DEF ArmSteps
    <3>2. CASE Goto(Worker, "transition") \/ Goto(Worker, "advancing")
      BY <1>0, <3>2, GonePc DEF ArmSteps
    <3>3. ASSUME NEW next, task' = [task EXCEPT ![Worker].pc = "starting",
                                                ![Worker].next = next]
          PROVE  task'[Worker].pc \notin ArmSteps
      <4>1. task'[Worker] = [task[Worker] EXCEPT !.pc = "starting", !.next = next]
        BY <1>0, <3>3
      <4> QED BY <1>0, <4>1 DEF TaskStates, ArmSteps
    <3> QED BY <1>4, <3>1, <3>2, <3>3 DEF TransitionStarted, Advance, AdvancePrepared,
               AdvanceHandoff, AdvanceLoop, TakeNextTrack, NextStarted, NextFails, AdvanceAgain
  <2>3. TasksCalm'
    BY <1>0, <2>1, <2>2, MovedCalm
  <2>4. CASE /\ playback'.active = playback.active /\ playback'.retiring = playback.retiring
             /\ decks' = decks \/ \E D : decks' = Stopped(decks, D)
    <3>1. /\ DOMAIN decks' = DOMAIN decks
          /\ \A d \in DOMAIN decks : decks'[d].slot \in {decks[d].slot, NoArm}
          /\ \A d : PlayingIn(decks', d) => PlayingIn(decks, d)
      BY <1>0, <2>4, StoppedCalm
    <3>2. \A d : PlayingIn(decks', d) => d \in {playback'.active, playback'.retiring.deck}
      BY <2>4, <3>1 DEF NoArms
    <3> QED BY <2>1, <2>3, <3>1, <3>2, CalmKept
  <2>5. CASE playback' = playback /\ decks' = decks
    BY <2>4, <2>5
  <2>6. CASE Advance /\ AdvancePrepared(task[Worker].id)
    <3>1. playback' = [playback EXCEPT !.gen = @ + 1, !.replacing = None,
                                       !.prepared = NoPrepared]
      BY <2>6 DEF AdvancePrepared
    <3>2. playback'.active = playback.active /\ playback'.retiring = playback.retiring
      BY <1>0, <3>1 DEF Playbacks
    <3>3. \E D : decks' = Stopped(decks, D)
      BY <2>6 DEF AdvancePrepared
    <3> QED BY <2>4, <3>2, <3>3
  <2>7. CASE NextFails
    <3>1. \/ playback' = playback
          \/ \E player : playback' = [playback EXCEPT !.player = player, !.current = None]
      BY <2>7 DEF NextFails
    <3>2. playback'.active = playback.active /\ playback'.retiring = playback.retiring
      BY <1>0, <3>1 DEF Playbacks
    <3>3. decks' = decks
      BY <2>7 DEF NextFails
    <3> QED BY <2>4, <3>2, <3>3
  <2>8. CASE Advance /\ AdvanceHandoff(task[Worker].id) /\ ~(playback' = playback /\ decks' = decks)
    <3> DEFINE D == CutShort(playback) \cup {playback.active}
    <3>1. PICK player \in PrepareNextTrack(playback.player) :
            /\ playback' = [ForgetRetiring(Promote(playback, player, task[Worker].id),
                                           task[Worker].id) EXCEPT !.replacing = None]
            /\ decks' = Resumed(Stopped(decks, D), playback.prepared.deck)
      BY <2>8 DEF AdvanceHandoff
    <3>2. player \in Players /\ WellFormed(player) /\ task[Worker].id \in Nat
      BY <1>0, PrepareNextWellFormed DEF Core, Typed, Playbacks, TaskStates
    <3>3. playback'.active = playback.prepared.deck
      BY <1>0, <3>1, <3>2, HandoffFacts
    <3>4. /\ playback.retiring.deck \in D /\ playback.active \in D
          /\ playback.prepared.deck \in DOMAIN decks
      BY <2>8, PreparedKnown DEF CutShort, AdvanceHandoff, HandsOver
    <3> HIDE DEF D
    <3>5. /\ DOMAIN decks' = DOMAIN decks
          /\ \A d \in DOMAIN decks : decks'[d].slot \in {decks[d].slot, NoArm}
          /\ \A d : PlayingIn(decks', d) =>
               d = playback.prepared.deck \/ (PlayingIn(decks, d) /\ d \notin D)
      BY <1>0, <3>1, <3>4, ResumedCalm
    <3>6. \A d : PlayingIn(decks', d) => d \in {playback'.active, playback'.retiring.deck}
      BY <3>3, <3>4, <3>5 DEF NoArms
    <3> QED BY <2>1, <2>3, <3>5, <3>6, CalmKept
  <2>9. CASE TakeNextTrack /\ (Advance \/ AdvanceAgain)
                           /\ (Advance => playback.current = task[Worker].id)
    <3>1. ~PlayingIn(decks, playback.active)
      BY <2>9, ActiveQuiet DEF Advance, AdvanceAgain
    <3>2. playback'.retiring = playback.retiring
      BY <2>9, Taken
    <3>3. /\ DOMAIN decks' = DOMAIN decks
          /\ \A d \in DOMAIN decks : decks'[d].slot \in {decks[d].slot, NoArm}
          /\ \A d : PlayingIn(decks', d) => PlayingIn(decks, d)
      BY <1>0, <2>9, StoppedCalm DEF TakeNextTrack
    <3>4. \A d : PlayingIn(decks', d) => d \in {playback'.active, playback'.retiring.deck}
      BY <3>1, <3>2, <3>3 DEF NoArms
    <3> QED BY <2>1, <2>3, <3>3, <3>4, CalmKept
  <2>10. CASE NextStarted
    <3>1. task[Worker].pc = "starting" /\ task[Worker].next \in Tracks
      BY <1>0, <2>10 DEF NextStarted, TaskStates, TaskFits, Carrying, AnyTrack
    <3>2. ~PlayingIn(decks, playback.active)
      BY <3>1, ActiveQuiet
    <3>3. \A d : PlayingIn(decks, d) => d = playback.retiring.deck
      BY <3>2 DEF NoArms
    <3> DEFINE s == IF live THEN "playing" ELSE "stopped"
    <3>4. s \in DeckStates /\ decks' = With(NewDeck(NextDeck, task[Worker].next, s))
      BY <2>10 DEF NextStarted, DeckStates
    <3>5. /\ s = "playing" => playback'.active = NextDeck
          /\ playback'.retiring = playback.retiring
      BY <2>10, StartFacts
    <3>6. \A d : PlayingIn(decks, d) => d \in {playback'.active, playback'.retiring.deck}
      BY <3>3, <3>5
    <3> HIDE DEF s
    <3> QED BY <2>1, <2>3, <3>1, <3>4, <3>5, <3>6, NewCalm
  <2>11. CASE TransitionStarted
    BY <2>5, <2>11 DEF TransitionStarted
  <2>12. CASE Advance
    BY <2>5, <2>6, <2>8, <2>9, <2>12 DEF Advance, AdvanceLoop
  <2>13. CASE AdvanceAgain
    <3>1. ~Advance
      BY <2>13 DEF AdvanceAgain, Advance
    <3> QED BY <2>5, <2>9, <2>13, <3>1 DEF AdvanceAgain, AdvanceLoop
  <2> QED BY <1>4, <2>7, <2>10, <2>11, <2>12, <2>13
<1> QED BY <1>1, <1>3, <1>4 DEF WorkerOnly

\* No deck fires an armed start, and the events of the others ask for none.
LEMMA RuntimeCalm ==
    ASSUME Core, DecksStep, NoArms, NEW d \in DOMAIN decks,
           DeckTimer(d) \/ DeckEnded(d) \/ ArmFires(d)
    PROVE  NoArms'
<1>0. /\ decks \in Seq(Decks) /\ inbox \in Seq(Events) /\ decks[d] \in Decks
      /\ decks[d].id \in Nat
  <2>1. decks \in Seq(Decks) /\ inbox \in Seq(Events)
    BY DEF Core, Typed
  <2>2. decks[d] \in Decks
    BY <2>1, LenProperties, ElementOfSeq
  <2> QED BY <2>1, <2>2 DEF Decks
<1>1. ~ArmFires(d)
  BY DEF NoArms, ArmFires
<1>2. playback' = playback /\ task' = task
  BY DEF DeckTimer, DeckEnded, ArmFires
<1>3. PICK kind \in {"prefetch_due", "transition_due", "ended"} :
        Emit(Event(kind, decks[d].id, None, None))
  BY <1>1 DEF DeckTimer, DeckEnded
<1>4. ASSUME NEW i \in 1..Len(inbox')
      PROVE  inbox'[i].kind \notin {"late", "arm_failed"}
  <2> DEFINE e == Event(kind, decks[d].id, None, None)
  <2>1. e \in Events /\ e.kind = kind
    <3>1. kind \in EventKinds /\ decks[d].id \in Nat /\ None \in Nat
      BY <1>0, Nothings DEF EventKinds
    <3> QED BY <3>1, EventType
  <2>2. inbox' = Append(inbox, e)
    BY <1>3 DEF Emit
  <2> HIDE DEF e
  <2>3. /\ Len(inbox) \in Nat /\ Len(inbox') = Len(inbox) + 1
        /\ \A j \in 1..Len(inbox) : inbox'[j] = inbox[j]
        /\ inbox'[Len(inbox) + 1] = e
    BY <1>0, <2>1, <2>2, AppendProperties, LenProperties
  <2>4. i \in 1..Len(inbox) \/ i = Len(inbox) + 1
    BY <2>3
  <2>5. CASE i \in 1..Len(inbox)
    BY <2>3, <2>5 DEF NoArms
  <2>6. CASE i = Len(inbox) + 1
    BY <2>1, <2>3, <2>6
  <2> QED BY <2>4, <2>5, <2>6
<1>5. /\ DOMAIN decks' = DOMAIN decks
      /\ \A e \in DOMAIN decks : e # d => decks'[e] = decks[e]
      /\ decks'[d].slot \in {decks[d].slot, NoArm}
      /\ decks'[d].id = decks[d].id
      /\ decks'[d].state \in {decks[d].state, "gone"}
  <2>1. CASE DeckTimer(d)
    <3> DEFINE new == [decks[d] EXCEPT !.timers = @ + 1]
    <3>1. /\ new \in Decks /\ new.id = decks[d].id
          /\ new.state = decks[d].state /\ new.slot = decks[d].slot
      BY <1>0, <2>1, DeckUpdates DEF DeckTimer
    <3>2. decks' = [decks EXCEPT ![d] = new]
      BY <2>1 DEF DeckTimer
    <3> HIDE DEF new
    <3> QED BY <1>0, <3>1, <3>2
  <2>2. CASE DeckEnded(d)
    <3> DEFINE new == [decks[d] EXCEPT !.state = "gone", !.slot = NoArm]
    <3>1. /\ new \in Decks /\ new.id = decks[d].id /\ new.state = "gone" /\ new.slot = NoArm
      BY <1>0, NoArmType DEF Decks, DeckStates
    <3>2. decks' = [decks EXCEPT ![d] = new]
      BY <2>2 DEF DeckEnded
    <3> HIDE DEF new
    <3> QED BY <1>0, <3>1, <3>2
  <2> QED BY <1>1, <2>1, <2>2
<1>6. \A e \in DOMAIN decks' : decks'[e].slot = NoArm /\ decks'[e].id = e
  BY <1>5 DEF NoArms
<1>7. \A e : PlayingIn(decks', e) => PlayingIn(decks, e)
  BY <1>5 DEF PlayingIn
<1>8. \A e : PlayingIn(decks', e) => e \in {playback'.active, playback'.retiring.deck}
  BY <1>2, <1>7 DEF NoArms
<1>9. \A h \in Tasks : task'[h].pc \notin ArmSteps
  BY <1>2 DEF NoArms
<1> QED BY <1>4, <1>6, <1>8, <1>9 DEF NoArms

LEMMA ScenarioKept ==
    ASSUME [Next]_vars
    PROVE  scenario' = scenario
<1> USE DEF sessionVars
<1>1. ASSUME NEW h \in Tasks, Prefetch(h)
      PROVE  scenario' = scenario
  BY <1>1 DEF Prefetch, PrefetchBegin, SourcePrepared, PrepareIncoming, PrefetchFails,
     ArmAccepted, ArmRejected, PrepareFallback, InstallPrepared
<1>2. ASSUME NEW h \in Tasks, Transition(h)
      PROVE  scenario' = scenario
  BY <1>2 DEF Transition, TransitionBegin, CheckTarget, TransitionWake
<1>3. CASE WorkerOnly
  BY <1>3 DEF WorkerOnly, TakeEvent, TransitionStarted, DegradeArmed, ReplacementPrepared,
     ReplacementFails, InstallReplacement, Advance, NextStarted, NextFails, AdvanceAgain
<1>4. ASSUME NEW r \in Rearmers, RearmBegin(r) \/ RearmStep(r)
      PROVE  scenario' = scenario
  BY <1>4 DEF RearmBegin, RearmStep, RearmClaim, RearmCheck, RearmTransition, RearmOutside
<1>5. CASE FadeEnds \/ Commands \/ BeginDisconnect \/ ClearSession \/ LeaveCall
  BY <1>5 DEF FadeEnds, Commands, Skip, Toggle, EnqueueTrack, BeginDisconnect, ClearSession,
     LeaveCall
<1>6. ASSUME NEW d \in DOMAIN decks, DeckTimer(d) \/ DeckEnded(d) \/ ArmFires(d)
      PROVE  scenario' = scenario
  BY <1>6 DEF DeckTimer, DeckEnded, ArmFires
<1>7. CASE UNCHANGED vars
  BY <1>7 DEF vars
<1> QED BY <1>1, <1>2, <1>3, <1>4, <1>5, <1>6, <1>7 DEF Next

Calm == "beatmatched" \notin scenario.kinds => NoArms

LEMMA InitCalm == Init => NoArms
<1> SUFFICES ASSUME Init
             PROVE  NoArms
  OBVIOUS
<1> DEFINE deck == NewDeck(1, FirstTrack, "playing")
<1>1. decks = <<deck>>
  BY DEF Init
<1>2. deck.slot = NoArm /\ deck.id = 1
  BY DEF NewDeck
<1> HIDE DEF deck
<1>3. DOMAIN decks = {1} /\ decks[1] = deck
  BY <1>1
<1>4. \A h \in Tasks : task[h].pc \notin ArmSteps
  <2>1. Idle.pc = "idle"
    BY DEF Idle
  <2> QED BY <2>1 DEF Init, ArmSteps
<1>5. playback.active = 1
  BY DEF Init
<1>6. \A d : PlayingIn(decks, d) => d \in {playback.active, playback.retiring.deck}
  BY <1>3, <1>5 DEF PlayingIn
<1>7. 1..Len(inbox) = {}
  <2>1. inbox = <<>>
    BY DEF Init
  <2>2. Len(inbox) = 0
    BY <2>1
  <2> QED BY <2>2
<1> QED BY <1>2, <1>3, <1>4, <1>6, <1>7 DEF NoArms

LEMMA CalmStep ==
    ASSUME Core, NoArms, [Next]_vars, "beatmatched" \notin scenario.kinds
    PROVE  NoArms'
<1>1. DecksStep
  BY DecksKept
<1>2. CASE UNCHANGED vars
  BY <1>2 DEF NoArms, PlayingIn, vars
<1> QED BY <1>1, <1>2, PrefetchCalm, TransitionCalm, WorkerCalm, RearmCalm, SessionCalm,
           RuntimeCalm DEF Next

\* At most two decks are heard at once, as long as the planner chooses no beat-matched
\* start: each step that starts a deck stops the one that was fading out.
THEOREM AtMostTwoDecksHeard == Spec => []TwoDecksHeard
<1>1. Init => Calm
  BY InitCalm DEF Calm
<1>2. Core /\ Calm /\ [Next]_vars => Calm'
  BY ScenarioKept, CalmStep DEF Calm
<1>3. Core /\ Calm => TwoDecksHeard
  <2> SUFFICES ASSUME Core, NoArms
               PROVE  Cardinality({d \in DOMAIN decks : Audible(d)}) <= 2
    BY DEF Calm, TwoDecksHeard
  <2> DEFINE H == {d \in DOMAIN decks : Audible(d)}
             two == {playback.active, playback.retiring.deck}
  <2>1. H \subseteq two
    BY DEF NoArms, PlayingIn, Audible
  <2>2. IsFiniteSet(two) /\ Cardinality(two) <= 2
    <3>1. /\ IsFiniteSet({playback.active}) /\ Cardinality({playback.active}) = 1
      BY FS_Singleton
    <3>2. two = {playback.active} \cup {playback.retiring.deck}
      OBVIOUS
    <3> QED BY <3>1, <3>2, FS_AddElement
  <2>3. Cardinality(H) <= Cardinality(two) /\ Cardinality(H) \in Nat /\ Cardinality(two) \in Nat
    BY <2>1, <2>2, FS_Subset, FS_CardinalityType
  <2> QED BY <2>2, <2>3
<1> QED BY <1>1, <1>2, <1>3, CoreHolds, PTL DEF Spec

-----------------------------------------------------------------------------
(* The replacement in hand.                                                *)

Alone == \A r \in Rearmers : task[r] = Idle

\* While the token is held the worker is busy with the deck it names, and would
\* find everything as it left it.
TokenHeld ==
    playback.replacing # None =>
        /\ task[Worker].pc \in {"replacing", "replace"}
        /\ task[Worker].gen = playback.replacing
        /\ task[Worker].id = playback.current
        /\ playback.automix
        /\ playback.prepared.origin = task[Worker].id
        /\ playback.prepared.id = task[Worker].incoming

LEMMA NoRearm ==
    ASSUME Core, Alone, scenario.rearms = 0, NEW r \in Rearmers
    PROVE  ~(RearmBegin(r) \/ RearmStep(r) \/ Prefetch(r) \/ Transition(r))
<1>1. task[r].pc = "idle" /\ rearms \in Nat
  BY DEF Alone, Idle, Core, Typed
<1>2. ~RearmBegin(r)
  BY <1>1 DEF RearmBegin
<1> QED BY <1>1, <1>2 DEF RearmStep, RearmClaim, RearmCheck, RearmTransition, RearmOutside,
        Prefetch, PrefetchBegin, SourcePrepared, PrepareIncoming, PrefetchFails, ArmAccepted,
        ArmRejected, PrepareFallback, InstallPrepared, Transition, TransitionBegin,
        CheckTarget, TransitionWake

LEMMA AloneKept ==
    ASSUME Core, [Next]_vars, scenario.rearms = 0, Alone
    PROVE  Alone'
<1>0. /\ task \in [Tasks -> TaskStates] /\ Worker \in Tasks
      /\ \A r \in Rearmers : r # Worker /\ r \in Tasks
  BY HandoffAssumption DEF Core, Typed, Tasks
<1>1. ASSUME NEW h \in Tasks, Prefetch(h) \/ Transition(h)
      PROVE  Alone'
  <2>1. h = Worker
    BY <1>1, NoRearm DEF Tasks
  <2>2. CASE Prefetch(Worker)
    BY <1>0, <2>2, PrefetchOthers DEF Alone
  <2>3. CASE Transition(Worker)
    BY <1>0, <2>3 DEF Alone, Transition, TransitionBegin, CheckTarget, TransitionWake, Goto,
                      Finish
  <2> QED BY <1>1, <2>1, <2>2, <2>3
<1>2. CASE WorkerOnly
  BY <1>0, <1>2 DEF Alone, WorkerOnly, TakeEvent, TransitionStarted, DegradeArmed,
     ReplacementPrepared, ReplacementFails, InstallReplacement, Advance, AdvancePrepared,
     AdvanceHandoff, AdvanceLoop, TakeNextTrack, NextStarted, NextFails, AdvanceAgain, Goto,
     Finish
<1>3. CASE FadeEnds \/ Commands \/ BeginDisconnect \/ ClearSession \/ LeaveCall
           \/ UNCHANGED vars
  <2>1. task' = task
    BY <1>3 DEF FadeEnds, Commands, Skip, Toggle, EnqueueTrack, BeginDisconnect, ClearSession,
       LeaveCall, vars
  <2> QED BY <2>1 DEF Alone
<1>4. ASSUME NEW d \in DOMAIN decks, DeckTimer(d) \/ DeckEnded(d) \/ ArmFires(d)
      PROVE  Alone'
  BY <1>4 DEF DeckTimer, DeckEnded, ArmFires, Alone
<1> QED BY <1>1, <1>2, <1>3, <1>4, NoRearm DEF Next

\* The record keeps what the token rests on, and the worker its task.
LEMMA TokenSame ==
    ASSUME TokenHeld, task' = task, playback'.replacing = playback.replacing,
           playback'.current = playback.current, playback'.automix = playback.automix,
           playback'.prepared = playback.prepared
    PROVE  TokenHeld'
  BY DEF TokenHeld

LEMMA DegradeHolds ==
    ASSUME Core, TokenHeld, DegradeArmed
    PROVE  TokenHeld'
<1>0. /\ playback \in Playbacks /\ playback.gen \in Nat /\ task \in [Tasks -> TaskStates]
      /\ Worker \in Tasks /\ task[Worker] \in TaskStates /\ task[Worker].pc = "degrade"
  BY DEF Core, Typed, Playbacks, Tasks, DegradeArmed
<1>1. playback.replacing = None
  BY <1>0 DEF TokenHeld
<1> DEFINE q == [playback EXCEPT !.prepared.armed = FALSE, !.prepared.gen = None,
                                 !.prepared.started = TRUE]
           r == [playback EXCEPT !.gen = @ + 1, !.replacing = playback.gen + 1,
                                 !.prepared.armed = FALSE, !.prepared.gen = None,
                                 !.prepared.started = FALSE]
<1>2. /\ q.replacing = playback.replacing
      /\ r.replacing = playback.gen + 1 /\ r.current = playback.current
      /\ r.automix = playback.automix /\ r.prepared.origin = playback.prepared.origin
      /\ r.prepared.id = playback.prepared.id
  BY <1>0, DegradeFacts
<1>3. CASE playback' \in {playback, q}
  <2> HIDE DEF q, r
  <2> QED BY <1>1, <1>2, <1>3 DEF TokenHeld
<1>4. CASE playback' = r /\ playback' \notin {playback, q}
  <2>1. /\ playback.current = task[Worker].id /\ playback.automix
        /\ playback.prepared.origin = task[Worker].id
        /\ playback.prepared.id = task[Worker].incoming
    BY <1>4 DEF DegradeArmed, ArmedFor
  <2> DEFINE g == playback.gen + 1
             next == playback.prepared.next
  <2>2. task' = [task EXCEPT ![Worker].pc = "replacing", ![Worker].gen = g,
                             ![Worker].next = next]
    BY <1>4 DEF DegradeArmed
  <2>3. task'[Worker] = [task[Worker] EXCEPT !.pc = "replacing", !.gen = g, !.next = next]
    BY <1>0, <2>2
  <2>4. playback'.replacing = g
    BY <1>2, <1>4
  <2>5. /\ playback'.current = playback.current /\ playback'.automix = playback.automix
        /\ playback'.prepared.origin = playback.prepared.origin
        /\ playback'.prepared.id = playback.prepared.id
    BY <1>2, <1>4
  <2> HIDE DEF g, next, q, r
  <2>6. /\ task'[Worker].pc = "replacing" /\ task'[Worker].gen = g
        /\ task'[Worker].id = task[Worker].id
        /\ task'[Worker].incoming = task[Worker].incoming
    BY <1>0, <2>3 DEF TaskStates
  <2> QED BY <2>1, <2>4, <2>5, <2>6 DEF TokenHeld
<1> QED BY <1>3, <1>4 DEF DegradeArmed

LEMMA TokenKept ==
    ASSUME Core, [Next]_vars, scenario.rearms = 0, Alone, TokenHeld
    PROVE  TokenHeld'
<1>0. /\ PlaybackStep /\ playback \in Playbacks /\ Worker \in Tasks
      /\ task \in [Tasks -> TaskStates] /\ task[Worker] \in TaskStates
  BY PlaybackKept DEF Core, Typed, Tasks
<1>1. CASE DegradeArmed
  BY <1>1, DegradeHolds
<1>2. CASE playback'.replacing = None
  BY <1>2 DEF TokenHeld
<1>3. CASE ~DegradeArmed /\ playback'.replacing # None
  <2>1. /\ playback'.replacing = playback.replacing /\ playback.replacing # None
        /\ task[Worker].pc \in {"replacing", "replace"}
        /\ task[Worker].gen = playback.replacing
        /\ task[Worker].id = playback.current
        /\ playback.automix
        /\ playback.prepared.origin = task[Worker].id
        /\ playback.prepared.id = task[Worker].incoming
    BY <1>0, <1>3 DEF PlaybackStep, TokenHeld
  <2>2. ASSUME NEW h \in Tasks, Prefetch(h) \/ Transition(h)
        PROVE  FALSE
    <3>1. h = Worker
      BY <2>2, NoRearm DEF Tasks
    <3> QED BY <2>1, <2>2, <3>1 DEF Prefetch, PrefetchBegin, SourcePrepared, PrepareIncoming,
            PrefetchFails, ArmAccepted, ArmRejected, PrepareFallback, InstallPrepared,
            Transition, TransitionBegin, CheckTarget, TransitionWake
  <2>3. CASE WorkerOnly
    <3>1. CASE ReplacementPrepared
      <4>1. playback' = playback
        BY <3>1 DEF ReplacementPrepared
      <4>2. task'[Worker] = [task[Worker] EXCEPT !.pc = "replace", !.deck = NextDeck]
        BY <1>0, <3>1 DEF ReplacementPrepared
      <4> DEFINE n == NextDeck
      <4>3. task'[Worker] = [task[Worker] EXCEPT !.pc = "replace", !.deck = n]
        BY <4>2
      <4> HIDE DEF n
      <4>4. /\ task'[Worker].pc = "replace" /\ task'[Worker].gen = task[Worker].gen
            /\ task'[Worker].id = task[Worker].id
            /\ task'[Worker].incoming = task[Worker].incoming
        BY <1>0, <4>3 DEF TaskStates
      <4> QED BY <2>1, <4>1, <4>4 DEF TokenHeld
    <3>2. CASE ReplacementFails
      <4> DEFINE g == playback.gen + 1
      <4>1. playback' = [playback EXCEPT !.gen = g, !.replacing = None, !.due = None,
                                         !.prepared = NoPrepared]
        BY <2>1, <3>2 DEF ReplacementFails
      <4> HIDE DEF g
      <4>2. playback'.replacing = None
        BY <1>0, <4>1 DEF Playbacks
      <4> QED BY <2>1, <4>2
    <3>3. CASE InstallReplacement
      <4>1. playback' = [playback EXCEPT !.prepared.deck = task[Worker].deck,
                                         !.prepared.kind = "crossfade", !.replacing = None]
        BY <2>1, <3>3 DEF InstallReplacement
      <4>2. task[Worker].deck \in Nat
        BY <1>0 DEF TaskStates
      <4>3. playback'.replacing = None
        BY <1>0, <4>1, <4>2, ReplacedFacts
      <4> QED BY <2>1, <4>3
    <3>4. task[Worker] # Idle
      BY <2>1 DEF Idle
    <3> QED BY <1>3, <2>1, <2>3, <3>1, <3>2, <3>3, <3>4 DEF WorkerOnly, TakeEvent,
            TransitionStarted, Advance, NextStarted, NextFails, AdvanceAgain
  <2>4. CASE FadeEnds
    <3>1. task' = task /\ \/ playback' = playback
                          \/ \E f \in fades : playback' = ForgetRetiring(playback, f.id)
      BY <2>4 DEF FadeEnds
    <3> QED BY <1>0, <3>1, ForgetFacts, TokenSame
  <2>5. CASE Skip \/ ClearSession
    <3>1. playback'.replacing = None
      BY <1>0, <2>5, Skipped DEF Core, Typed
    <3> QED BY <2>1, <3>1
  <2>6. CASE Toggle
    <3>1. PICK q \in ToggledModes(playback) : playback' = Invalidate(q)
      BY <2>6 DEF Toggle
    <3>2. q \in Playbacks
      BY <1>0, ToggledFacts DEF Core, Typed
    <3>3. playback'.replacing = None
      BY <3>1, <3>2, InvalidateFacts
    <3> QED BY <2>1, <3>3
  <2>7. ASSUME NEW t \in Tracks, EnqueueTrack(t)
        PROVE  TokenHeld'
    <3>1. PICK player : playback' = [playback EXCEPT !.player = player]
      BY <2>7 DEF EnqueueTrack
    <3>2. /\ playback'.current = playback.current /\ playback'.automix = playback.automix
          /\ playback'.prepared = playback.prepared
      BY <1>0, <3>1 DEF Playbacks
    <3>3. task' = task
      BY <2>7 DEF EnqueueTrack
    <3> QED BY <2>1, <3>2, <3>3, TokenSame
  <2>8. CASE BeginDisconnect \/ LeaveCall \/ UNCHANGED vars
    <3>1. task' = task /\ playback' = playback
      BY <2>8 DEF BeginDisconnect, LeaveCall, vars
    <3> QED BY <3>1, TokenSame
  <2>9. ASSUME NEW d \in DOMAIN decks, DeckTimer(d) \/ DeckEnded(d) \/ ArmFires(d)
        PROVE  TokenHeld'
    <3>1. task' = task /\ playback' = playback
      BY <2>9 DEF DeckTimer, DeckEnded, ArmFires
    <3> QED BY <3>1, TokenSame
  <2> QED BY <2>2, <2>3, <2>4, <2>5, <2>6, <2>7, <2>8, <2>9, NoRearm DEF Next, Commands
<1> QED BY <1>1, <1>2, <1>3

\* No armed start, no token.
NoToken == "beatmatched" \notin scenario.kinds => NoArms /\ playback.replacing = None

\* The token that keeps transitions away is in the hands of the worker, in every
\* scenario without rearm tasks and in every one without beat-matched starts.
THEOREM TokenIsInHand == Spec => []ReplacementInHand
<1> DEFINE Held == scenario.rearms = 0 => Alone /\ TokenHeld
<1>1. Init => NoToken /\ Held
  <2> SUFFICES ASSUME Init
               PROVE  NoToken /\ Held
    OBVIOUS
  <2>1. playback.replacing = None
    BY DEF Init
  <2>2. \A r \in Rearmers : task[r] = Idle
    BY DEF Init, Tasks
  <2> QED BY <2>1, <2>2, InitCalm DEF NoToken, Alone, TokenHeld
<1>2. Core /\ [Next]_vars /\ NoToken => NoToken'
  <2> SUFFICES ASSUME Core, [Next]_vars, NoToken, "beatmatched" \notin scenario'.kinds
               PROVE  NoArms' /\ playback'.replacing = None
    BY DEF NoToken
  <2>1. "beatmatched" \notin scenario.kinds /\ NoArms /\ playback.replacing = None
    BY ScenarioKept DEF NoToken
  <2>2. NoArms'
    BY <2>1, CalmStep
  <2>3. ~DegradeArmed
    <3>1. Worker \in Tasks
      BY DEF Tasks
    <3> QED BY <2>1, <3>1 DEF NoArms, ArmSteps, DegradeArmed
  <2> QED BY <2>1, <2>2, <2>3, PlaybackKept DEF PlaybackStep
<1>3. Core /\ [Next]_vars /\ Held => Held'
  BY ScenarioKept, AloneKept, TokenKept
<1>4. NoToken /\ Held => ReplacementInHand
  BY DEF NoToken, TokenHeld, ReplacementInHand
<1> HIDE DEF Held
<1> QED BY <1>1, <1>2, <1>3, <1>4, CoreHolds, PTL DEF Spec

-----------------------------------------------------------------------------
(* A session that is not skipped is heard.                                 *)

\* No start is armed, so a promotion always resumes the deck itself.
Unarmed ==
    /\ ~playback.prepared.armed /\ ~playback.prepared.started
    /\ \A h \in Tasks : ~task[h].armed

Paused(d) == d \in DOMAIN decks /\ decks[d].state = "paused"
Sounded(d) == d = None \/ (d \in DOMAIN decks /\ decks[d].state # "paused")

\* The prepared deck and those that tasks are about to install wait for their
\* promotion, and each is another deck.
Apart == live =>
    /\ HasPrepared(playback) => Paused(playback.prepared.deck)
    /\ \A h \in Tasks : task[h].pc = "install" =>
         /\ Paused(task[h].deck) /\ task[h].deck # playback.prepared.deck
         /\ \A g \in Tasks : g # h /\ task[g].pc = "install" => task[g].deck # task[h].deck

\* Every other deck of the session has sounded, and the current one still does
\* or its end is on the way.
Heard == live =>
    /\ dpc = "idle"
    /\ playback.current # None => playback.active # None
    /\ Sounded(playback.active) /\ Sounded(playback.retiring.deck)
    /\ \A f \in fades : Sounded(f.deck)
    /\ NeverSilent

\* What a step leaves of the decks: outside D those that wait go on waiting, and
\* one that has sounded never waits again nor goes without a report.
SteadyBut(D) ==
    /\ DOMAIN decks \subseteq DOMAIN decks'
    /\ \A d \in DOMAIN decks :
         /\ decks'[d].id = decks[d].id
         /\ decks[d].state = "paused" /\ d \notin D => decks'[d].state = "paused"
         /\ decks[d].state # "paused" => decks'[d].state # "paused"
         /\ decks[d].state \in {"playing", "stopped"}
              => decks'[d].state \in {"playing", "stopped"}

LEMMA SameSteady ==
    ASSUME decks' = decks, NEW D
    PROVE  SteadyBut(D)
  BY DEF SteadyBut

LEMMA StoppedSteady ==
    ASSUME decks \in Seq(Decks), NEW D, decks' = Stopped(decks, D)
    PROVE  SteadyBut(D)
  BY StoppedFacts DEF SteadyBut

LEMMA ResumedSteady ==
    ASSUME decks \in Seq(Decks), NEW D, NEW e \in DOMAIN decks,
           decks' = Resumed(Stopped(decks, D), e)
    PROVE  /\ SteadyBut(D \cup {e})
           /\ decks[e].state = "paused" /\ e \notin D => decks'[e].state = "playing"
<1> DEFINE es == Stopped(decks, D)
           fs == Resumed(es, e)
<1>1. /\ es \in Seq(Decks) /\ DOMAIN es = DOMAIN decks
      /\ \A d \in DOMAIN decks :
           /\ es[d].id = decks[d].id
           /\ es[d].state = IF d \in D /\ decks[d].state \in {"paused", "playing"}
                            THEN "stopped" ELSE decks[d].state
  BY StoppedFacts
<1>2. decks' = fs
  OBVIOUS
<1> HIDE DEF es
<1>3. /\ DOMAIN fs = DOMAIN decks
      /\ \A d \in DOMAIN decks :
           /\ fs[d].id = es[d].id
           /\ fs[d].state = IF d = e /\ es[d].state = "paused" THEN "playing" ELSE es[d].state
  BY <1>1, ResumedFacts
<1> HIDE DEF fs
<1> QED BY <1>1, <1>2, <1>3 DEF SteadyBut

LEMMA WithSteady ==
    ASSUME Core, NEW t \in Tracks, NEW s \in DeckStates, decks' = With(NewDeck(NextDeck, t, s))
    PROVE  /\ SteadyBut({})
           /\ NextDeck # None /\ NextDeck \notin DOMAIN decks /\ NextDeck \in DOMAIN decks'
           /\ decks'[NextDeck].state = s /\ decks'[NextDeck].id = NextDeck
<1>1. NextDeck \in Nat /\ NextDeck # None /\ decks \in Seq(Decks) /\ DecksFit
  BY LenProperties DEF NextDeck, None, Core, Typed
<1>2. /\ DOMAIN decks' = DOMAIN decks \cup {NextDeck} /\ NextDeck \notin DOMAIN decks
      /\ decks'[NextDeck].id = NextDeck /\ decks'[NextDeck].state = s
      /\ \A d \in DOMAIN decks : decks'[d] = decks[d]
  BY <1>1, WithStep
<1> QED BY <1>1, <1>2 DEF SteadyBut

LEMMA NoDeckNone == Core => None \notin DOMAIN decks
  BY LenProperties DEF Core, Typed, None

\* Nobody else begins to hold a deck that waits, and none that is held is stopped.
LEMMA ApartKept ==
    ASSUME Core, Apart, live, NEW D, SteadyBut(D), NEW g \in Tasks,
           \A h \in Tasks : h # g => task'[h] = task[h],
           task'[g].pc = "install" => task'[g] = task[g],
           playback'.prepared \in {playback.prepared, NoPrepared},
           HasPrepared(playback') => playback.prepared.deck \notin D,
           \A h \in Tasks : task'[h].pc = "install" => task[h].deck \notin D
    PROVE  Apart'
<1>1. \A d \in DOMAIN decks : decks[d].state = "paused" /\ d \notin D
        => d \in DOMAIN decks' /\ decks'[d].state = "paused"
  BY DEF SteadyBut
<1>2. HasPrepared(playback') => HasPrepared(playback) /\ playback'.prepared = playback.prepared
  BY DEF HasPrepared
<1>3. \A h \in Tasks : task'[h].pc = "install" => task'[h] = task[h] /\ task[h].deck \in DOMAIN decks
  BY DEF Core, TasksFit, TaskFits, InHand
<1>4. \A h \in Tasks : task'[h].pc = "install" => task'[h].deck # playback'.prepared.deck
  BY <1>3, NoDeckNone, Nothings DEF Apart
<1> QED BY <1>1, <1>2, <1>3, <1>4 DEF Apart, Paused

LEMMA SoundedKept ==
    ASSUME NEW D, SteadyBut(D), NEW d, Sounded(d)
    PROVE  d = None \/ (d \in DOMAIN decks' /\ decks'[d].state # "paused")
  BY DEF SteadyBut, Sounded

\* The session's decks stay, and what is heard of them.
LEMMA HeardKept ==
    ASSUME Core, Heard, live, NEW D, SteadyBut(D), dpc' = dpc, inbox' = inbox,
           playback'.active = playback.active, playback'.current = playback.current,
           playback'.retiring \in {playback.retiring, NoRetiring}, fades' \subseteq fades,
           \/ task'[Worker] = task[Worker]
           \/ task[Worker].pc # "advance"
           \/ task[Worker].id # playback.current
    PROVE  Heard'
<1>1. /\ Sounded(playback.active) /\ Sounded(playback.retiring.deck)
      /\ \A f \in fades : Sounded(f.deck)
      /\ dpc = "idle" /\ (playback.current # None => playback.active # None)
      /\ NeverSilent
  BY DEF Heard
<1>2. Sounded(playback'.retiring.deck)
  BY <1>1, Nothings DEF Sounded
<1>3. \A d : Sounded(d) => d = None \/ (d \in DOMAIN decks' /\ decks'[d].state # "paused")
  BY SoundedKept
<1>4. NeverSilent'
  BY <1>1 DEF NeverSilent, SteadyBut
<1> QED BY <1>1, <1>2, <1>3, <1>4 DEF Heard, Sounded

\* The prepared deck takes over.
LEMMA HeardMoved ==
    ASSUME Core, Apart, Heard, live, NEW D, SteadyBut(D), dpc' = dpc, HasPrepared(playback),
           decks'[playback.prepared.deck].state = "playing",
           playback'.active = playback.prepared.deck,
           playback'.current = playback.prepared.id,
           playback'.retiring.deck \in {None, playback.active},
           \A f \in fades' : f \in fades \/ f.deck = playback.active
    PROVE  Heard'
<1> DEFINE e == playback.prepared.deck
<1>1. /\ Sounded(playback.active) /\ dpc = "idle" /\ \A f \in fades : Sounded(f.deck)
  BY DEF Heard
<1>2. e \in DOMAIN decks /\ decks[e].id = playback.prepared.id
  BY DEF Core, PreparedFits
<1>3. e # None /\ e \in DOMAIN decks' /\ decks'[e].id = playback.prepared.id
  BY <1>2, NoDeckNone DEF SteadyBut
<1>4. \A d : Sounded(d) => d = None \/ (d \in DOMAIN decks' /\ decks'[d].state # "paused")
  BY SoundedKept
<1>5. \A f \in fades' : f.deck = None \/ (f.deck \in DOMAIN decks' /\ decks'[f.deck].state # "paused")
  BY <1>1, <1>4
<1> HIDE DEF e
<1>6. NeverSilent'
  BY <1>3 DEF NeverSilent, e
<1> QED BY <1>1, <1>3, <1>4, <1>5, <1>6 DEF Heard, Sounded, e

\* There is no current track any more.
LEMMA HeardEnds ==
    ASSUME Core, Heard, live, NEW D, SteadyBut(D), dpc' = dpc,
           playback'.active \in {playback.active, None}, playback'.current = None,
           playback'.retiring = playback.retiring, fades' \subseteq fades
    PROVE  Heard'
<1>1. /\ Sounded(playback.active) /\ Sounded(playback.retiring.deck)
      /\ \A f \in fades : Sounded(f.deck) /\ dpc = "idle"
  BY DEF Heard
<1>2. \A d : Sounded(d) => d = None \/ (d \in DOMAIN decks' /\ decks'[d].state # "paused")
  BY SoundedKept
<1>3. NeverSilent' /\ Sounded(playback'.active) /\ dpc = "idle"
  BY <1>1 DEF NeverSilent, Sounded, Heard
<1> QED BY <1>1, <1>2, <1>3 DEF Heard, Sounded

LEMMA PrefetchHeard ==
    ASSUME Core, NoArms, Apart, Heard, live, NEW h \in Tasks, Prefetch(h),
           "beatmatched" \notin scenario.kinds
    PROVE  Apart' /\ Heard'
<1>0. /\ playback \in Playbacks /\ decks \in Seq(Decks) /\ Worker \in Tasks
      /\ task \in [Tasks -> TaskStates] /\ task[h] \in TaskStates
      /\ TaskFits(task[h], decks, playback) /\ task[h].pc # "advance"
      /\ UNCHANGED <<inbox, dpc, fades>>
  BY DEF Core, Typed, TasksFit, Tasks, Prefetch, PrefetchBegin, SourcePrepared, PrepareIncoming,
         PrefetchFails, ArmAccepted, ArmRejected, PrepareFallback, InstallPrepared, sessionVars
<1>1. \A g \in Tasks : g # h => task'[g] = task[g]
  BY PrefetchOthers
<1>2. ~ArmAccepted(h) /\ ~ArmRejected(h) /\ ~PrepareFallback(h)
  BY DEF NoArms, ArmSteps, ArmAccepted, ArmRejected, PrepareFallback
<1>3. task'[Worker] = task[Worker] \/ task[Worker].pc # "advance"
  BY <1>0, <1>1
<1>4. CASE PrepareIncoming(h)
  <2>1. PICK kind \in scenario.kinds :
          task' = [task EXCEPT ![h].pc = IF kind = "beatmatched" THEN "arming" ELSE "install",
                               ![h].kind = kind, ![h].deck = NextDeck,
                               ![h].incoming = NextDeck]
    BY <1>4 DEF PrepareIncoming
  <2>2. kind # "beatmatched"
    BY <2>1
  <2>3. task'[h] = [task[h] EXCEPT !.pc = "install", !.kind = kind, !.deck = NextDeck,
                                   !.incoming = NextDeck]
    BY <1>0, <2>1, <2>2
  <2>4. task'[h].deck = NextDeck
    BY <1>0, <2>3 DEF TaskStates
  <2>5. task[h].next \in Tracks
    BY <1>0, <1>4 DEF TaskStates, AnyTrack, TaskFits, Carrying, PrepareIncoming
  <2>6. playback' = playback /\ decks' = With(NewDeck(NextDeck, task[h].next, "paused"))
    BY <1>4 DEF PrepareIncoming
  <2>7. /\ SteadyBut({}) /\ NextDeck # None /\ NextDeck \notin DOMAIN decks
        /\ NextDeck \in DOMAIN decks' /\ decks'[NextDeck].state = "paused"
    BY <2>5, <2>6, WithSteady DEF DeckStates
  <2>8. Heard'
    BY <1>0, <1>3, <2>6, <2>7, HeardKept
  <2>9. NextDeck # playback.prepared.deck
    <3>1. CASE HasPrepared(playback)
      BY <2>7, <3>1 DEF Core, PreparedFits
    <3>2. CASE ~HasPrepared(playback)
      BY <2>7, <3>2, Nothings DEF HasPrepared
    <3> QED BY <3>1, <3>2
  <2>10. \A g \in Tasks : g # h /\ task[g].pc = "install" => task[g].deck # NextDeck
    BY <2>7 DEF Apart, Paused
  <2>11. HasPrepared(playback) => Paused(playback.prepared.deck)'
    BY <2>6, <2>7 DEF Apart, Paused, SteadyBut
  <2>12. \A g \in Tasks : g # h /\ task[g].pc = "install" =>
           task[g].deck \in DOMAIN decks' /\ decks'[task[g].deck].state = "paused"
    BY <2>7 DEF Apart, Paused, SteadyBut
  <2>13. Apart'
    <3> SUFFICES ASSUME NEW g \in Tasks, task'[g].pc = "install"
                 PROVE  /\ Paused(task[g].deck)' /\ task'[g].deck # playback.prepared.deck
                        /\ \A k \in Tasks : k # g /\ task'[k].pc = "install"
                             => task'[k].deck # task'[g].deck
      BY <2>6, <2>11 DEF Apart
    <3>1. CASE g = h
      BY <1>1, <2>4, <2>7, <2>9, <2>10, <3>1 DEF Paused
    <3>2. CASE g # h
      BY <1>1, <2>4, <2>10, <2>12, <3>2 DEF Apart, Paused
    <3> QED BY <3>1, <3>2
  <2> QED BY <2>8, <2>13
<1>5. CASE PrefetchBegin(h) \/ SourcePrepared(h) \/ PrefetchFails(h)
  <2>1. \/ playback' = playback \/ playback' = [playback EXCEPT !.gen = @ + 1]
    BY <1>5 DEF PrefetchBegin, SourcePrepared, PrefetchFails
  <2>2. /\ playback'.active = playback.active /\ playback'.retiring = playback.retiring
        /\ playback'.current = playback.current /\ playback'.prepared = playback.prepared
    BY <1>0, <2>1, NextGenKeeps
  <2>3. task'[h].pc # "install"
    <3>1. CASE Finish(h) \/ Return(h)
      BY <3>1, FinishedPc
    <3>2. CASE PrefetchBegin(h) /\ ~Return(h)
      <4> DEFINE g == playback.gen + 1
                 next == PeekNextTrack(playback.player)
      <4>1. task'[h] = [task[h] EXCEPT !.pc = "preparing", !.gen = g, !.next = next]
        BY <1>0, <3>2 DEF PrefetchBegin
      <4> HIDE DEF g, next
      <4> QED BY <1>0, <4>1 DEF TaskStates
    <3>3. CASE Goto(h, "planning")
      BY <3>3, GonePc
    <3> QED BY <1>5, <3>1, <3>2, <3>3 DEF PrefetchBegin, SourcePrepared, PrefetchFails
  <2>4. decks' = decks
    BY <1>5 DEF PrefetchBegin, SourcePrepared, PrefetchFails
  <2>5. SteadyBut({})
    BY <2>4, SameSteady
  <2> QED BY <1>0, <1>1, <1>3, <2>2, <2>3, <2>5, ApartKept, HeardKept
<1>6. CASE InstallPrepared(h)
  <2>1. /\ task[h].pc = "install" /\ Return(h)
        /\ \/ /\ playback' = playback /\ decks' = Stopped(decks, {task[h].deck})
           \/ /\ decks' = Stopped(decks, {playback.prepared.deck})
              /\ playback' = [playback EXCEPT !.prepared =
                   [origin |-> task[h].id, next |-> task[h].next, id |-> task[h].incoming,
                    deck |-> task[h].deck, kind |-> task[h].kind, armed |-> task[h].armed,
                    gen |-> IF task[h].armed THEN task[h].gen ELSE None, started |-> FALSE]]
    BY <1>6 DEF InstallPrepared
  <2>2. task'[h].pc # "install"
    BY <2>1, FinishedPc
  <2>3. /\ Paused(task[h].deck) /\ task[h].deck # playback.prepared.deck
        /\ \A g \in Tasks : g # h /\ task[g].pc = "install" => task[g].deck # task[h].deck
    BY <2>1 DEF Apart
  <2>4. CASE playback' = playback /\ decks' = Stopped(decks, {task[h].deck})
    <3>1. SteadyBut({task[h].deck})
      BY <1>0, <2>4, StoppedSteady
    <3>2. \A g \in Tasks : task'[g].pc = "install" => task[g].deck \notin {task[h].deck}
      BY <1>1, <2>2, <2>3
    <3>3. Apart'
      BY <1>1, <2>2, <2>3, <2>4, <3>1, <3>2, ApartKept
    <3> QED BY <1>0, <1>3, <2>4, <3>1, <3>3, HeardKept
  <2>5. ASSUME NEW new, new.deck = task[h].deck, playback' = [playback EXCEPT !.prepared = new],
               decks' = Stopped(decks, {playback.prepared.deck})
        PROVE  Apart' /\ Heard'
    <3>1. SteadyBut({playback.prepared.deck})
      BY <1>0, <2>5, StoppedSteady
    <3>2. /\ playback'.active = playback.active /\ playback'.retiring = playback.retiring
          /\ playback'.current = playback.current /\ playback'.prepared.deck = task[h].deck
      BY <1>0, <2>5 DEF Playbacks
    <3>3. Heard'
      BY <1>0, <1>3, <3>1, <3>2, HeardKept
    <3>4. \A g \in Tasks : task[g].pc = "install" =>
            task[g].deck \in DOMAIN decks' /\ decks'[task[g].deck].state = "paused"
      BY <3>1 DEF Apart, Paused, SteadyBut
    <3>5. task[h].deck \in DOMAIN decks' /\ decks'[task[h].deck].state = "paused"
      BY <2>1, <3>4
    <3>6. \A g \in Tasks : task'[g].pc = "install" => g # h /\ task'[g] = task[g]
      BY <1>1, <2>2
    <3>7. Apart'
      BY <2>3, <3>2, <3>4, <3>5, <3>6 DEF Apart, Paused
    <3> QED BY <3>3, <3>7
  <2> QED BY <2>1, <2>4, <2>5
<1> QED BY <1>2, <1>4, <1>5, <1>6 DEF Prefetch

LEMMA TransitionHeard ==
    ASSUME Core, NoArms, Unarmed, Apart, Heard, live, NEW h \in Tasks, Transition(h)
    PROVE  Apart' /\ Heard'
<1>0. /\ playback \in Playbacks /\ decks \in Seq(Decks) /\ task[h].id \in Nat
      /\ task \in [Tasks -> TaskStates] /\ task[h] \in TaskStates /\ Worker \in Tasks
      /\ UNCHANGED <<inbox, dpc>> /\ task[h].pc # "advance"
  BY DEF Core, Typed, TaskStates, Tasks, Transition, TransitionBegin, CheckTarget,
         TransitionWake, sessionVars
<1>1. \A g \in Tasks : g # h => task'[g] = task[g]
  BY <1>0 DEF Transition, TransitionBegin, CheckTarget, TransitionWake, Goto, Finish
<1>2. task'[Worker] = task[Worker] \/ task[Worker].pc # "advance"
  BY <1>0, <1>1
<1>3. task'[h].pc # "install"
  <2>1. CASE Finish(h)
    BY <2>1, FinishedPc
  <2>2. CASE Goto(h, "sleeping")
    BY <2>2, GonePc
  <2>3. CASE TransitionBegin(h) /\ ~Finish(h)
    <3> DEFINE pc == IF playback.prepared.armed THEN "checking" ELSE "sleeping"
    <3>1. task'[h] = [task[h] EXCEPT !.pc = pc, !.deck = playback.active]
      BY <1>0, <2>3 DEF TransitionBegin
    <3>2. pc # "install"
      OBVIOUS
    <3> HIDE DEF pc
    <3> QED BY <1>0, <3>1, <3>2 DEF TaskStates
  <2> QED BY <2>1, <2>2, <2>3 DEF Transition, CheckTarget, TransitionWake
<1>4. CASE TransitionBegin(h) \/ CheckTarget(h)
  <2>1. /\ playback'.active = playback.active /\ playback'.retiring = playback.retiring
        /\ playback'.current = playback.current /\ playback'.prepared = playback.prepared
    <3>1. CASE playback' = playback
      BY <3>1
    <3>2. CASE playback' # playback
      <4>1. PICK due \in {playback.due, task[h].id} :
              playback' = [playback EXCEPT !.gen = @ + 1, !.due = due]
        BY <1>4, <3>2 DEF TransitionBegin, CheckTarget
      <4> DEFINE p == [playback EXCEPT !.gen = @ + 1]
      <4>2. /\ p \in Playbacks /\ p.active = playback.active /\ p.retiring = playback.retiring
            /\ p.current = playback.current /\ p.prepared = playback.prepared
        BY <1>0, NextGen, NextGenKeeps
      <4>3. playback' = [p EXCEPT !.due = due]
        BY <4>1
      <4> HIDE DEF p
      <4> QED BY <4>2, <4>3 DEF Playbacks
    <3> QED BY <3>1, <3>2
  <2>2. decks' = decks /\ fades' = fades
    BY <1>4 DEF TransitionBegin, CheckTarget
  <2>3. SteadyBut({})
    BY <2>2, SameSteady
  <2> QED BY <1>0, <1>1, <1>2, <1>3, <2>1, <2>2, <2>3, ApartKept, HeardKept
<1>5. CASE TransitionWake(h)
  <2>0. \A g \in Tasks : task'[g].pc = "install" => /\ task'[g] = task[g] /\ Paused(task[g].deck)
                                                    /\ task[g].deck # playback.prepared.deck
    BY <1>1, <1>3 DEF Apart
  <2>1. CASE /\ playback' = [playback EXCEPT !.prepared = NoPrepared]
             /\ decks' = Stopped(decks, {playback.prepared.deck})
             /\ fades' = fades
    <3>1. /\ playback'.active = playback.active /\ playback'.retiring = playback.retiring
          /\ playback'.current = playback.current /\ playback'.prepared = NoPrepared
      BY <1>0, <2>1 DEF Playbacks
    <3>2. SteadyBut({playback.prepared.deck})
      BY <1>0, <2>1, StoppedSteady
    <3>3. Apart'
      BY <1>1, <1>3, <2>0, <3>1, <3>2, ApartKept DEF HasPrepared
    <3> QED BY <1>0, <1>2, <2>1, <3>1, <3>2, <3>3, HeardKept
  <2>2. ASSUME HasPrepared(playback), NEW D, D \subseteq CutShort(playback) \cup {playback.active},
               decks' = Resumed(Stopped(decks, D), playback.prepared.deck),
               playback'.active = playback.prepared.deck, playback'.prepared = NoPrepared,
               playback'.current = playback.prepared.id,
               playback'.retiring.deck \in {None, playback.active},
               \A f \in fades' : f \in fades \/ f.deck = playback.active
        PROVE  Apart' /\ Heard'
    <3> DEFINE e == playback.prepared.deck
    <3>1. e \in DOMAIN decks /\ decks[e].state = "paused"
      BY <2>2 DEF Apart, Paused
    <3>2. \A d \in D : ~Paused(d)
      BY <2>2, NoDeckNone DEF CutShort, Heard, Sounded, Paused
    <3>3. SteadyBut(D \cup {e}) /\ decks'[e].state = "playing"
      BY <1>0, <2>2, <3>1, <3>2, ResumedSteady DEF Paused
    <3>4. Heard'
      BY <1>0, <2>2, <3>3, HeardMoved
    <3>5. \A g \in Tasks : task'[g].pc = "install" => task[g].deck \notin D \cup {e}
      BY <2>0, <3>2
    <3>6. Apart'
      BY <1>1, <1>3, <2>2, <3>3, <3>5, ApartKept DEF HasPrepared
    <3> QED BY <3>4, <3>6
  <2>3. ASSUME NEW player \in PrepareNextTrack(playback.player), HasPrepared(playback),
               playback' = ForgetRetiring(Promote(playback, player, task[h].id), task[h].id),
               decks' = Resumed(Stopped(Stopped(decks, CutShort(playback)), {playback.active}),
                                playback.prepared.deck),
               fades' = fades
        PROVE  Apart' /\ Heard'
    <3>1. player \in Players /\ WellFormed(player)
      BY <1>0, <2>3, PrepareNextWellFormed DEF Core, Typed, Playbacks
    <3> DEFINE q == Promote(playback, player, task[h].id)
    <3>2. /\ q \in Playbacks /\ q.active = playback.prepared.deck
          /\ q.current = playback.prepared.id /\ q.prepared = NoPrepared
          /\ q.retiring = [id |-> task[h].id, deck |-> playback.active]
      BY <1>0, <3>1, PromoteFacts
    <3>3. playback' = ForgetRetiring(q, task[h].id)
      BY <2>3
    <3> HIDE DEF q
    <3>4. /\ playback'.active = playback.prepared.deck
          /\ playback'.current = playback.prepared.id /\ playback'.prepared = NoPrepared
          /\ playback'.retiring = NoRetiring
      BY <3>2, <3>3, ForgetFacts
    <3>5. decks' = Resumed(Stopped(decks, CutShort(playback) \cup {playback.active}),
                           playback.prepared.deck)
      BY <1>0, <2>3, StoppedTwice
    <3> QED BY <2>2, <2>3, <3>4, <3>5, Nothings
  <2>4. ASSUME NEW player \in PrepareNextTrack(playback.player), HasPrepared(playback),
               playback' = [Promote(playback, player, task[h].id) EXCEPT !.fade = task[h].id],
               decks' = Resumed(Stopped(decks, CutShort(playback)), playback.prepared.deck),
               fades' = fades \cup {[id |-> task[h].id, deck |-> playback.active]}
        PROVE  Apart' /\ Heard'
    <3>1. player \in Players /\ WellFormed(player)
      BY <1>0, <2>4, PrepareNextWellFormed DEF Core, Typed, Playbacks
    <3> DEFINE q == Promote(playback, player, task[h].id)
    <3>2. /\ q \in Playbacks /\ q.retiring = [id |-> task[h].id, deck |-> playback.active]
          /\ q.active = playback.prepared.deck
          /\ q.current = playback.prepared.id /\ q.prepared = NoPrepared
      BY <1>0, <3>1, PromoteFacts
    <3>3. playback' = [q EXCEPT !.fade = task[h].id]
      BY <2>4
    <3> HIDE DEF q
    <3>4. /\ playback'.retiring.deck = playback.active
          /\ playback'.active = playback.prepared.deck
          /\ playback'.current = playback.prepared.id /\ playback'.prepared = NoPrepared
      BY <3>2, <3>3 DEF Playbacks
    <3>5. \A f \in fades' : f \in fades \/ f.deck = playback.active
      BY <2>4
    <3> QED BY <2>2, <2>4, <3>4, <3>5
  <2>5. \/ /\ playback' = [playback EXCEPT !.prepared = NoPrepared]
           /\ decks' = Stopped(decks, {playback.prepared.deck})
           /\ fades' = fades
        \/ /\ HasPrepared(playback)
           /\ \E player \in PrepareNextTrack(playback.player) :
                \/ /\ playback' = ForgetRetiring(Promote(playback, player, task[h].id),
                                                 task[h].id)
                   /\ decks' = Resumed(Stopped(Stopped(decks, CutShort(playback)),
                                               {playback.active}), playback.prepared.deck)
                   /\ fades' = fades
                \/ /\ playback' = [Promote(playback, player, task[h].id)
                                    EXCEPT !.fade = task[h].id]
                   /\ decks' = Resumed(Stopped(decks, CutShort(playback)),
                                       playback.prepared.deck)
                   /\ fades' = fades \cup {[id |-> task[h].id, deck |-> playback.active]}
    <3>0. task[h].id # None
      BY <1>5 DEF TransitionWake, Core, TasksFit, TaskFits
    <3>1. CASE TransitionDropped(h, playback)
      BY <3>1 DEF TransitionDropped
    <3>2. CASE ~TransitionDropped(h, playback)
      <4>1. /\ playback.current = task[h].id /\ playback.due = task[h].id
            /\ playback.prepared.origin = task[h].id
        BY <1>5, <3>2 DEF TransitionWake
      <4>2. playback.active # None
        BY <3>0, <4>1 DEF Core, ActiveFits
      <4>3. HasPrepared(playback)
        BY <3>0, <4>1, OriginPrepared
      <4>4. ~(playback.prepared.armed \/ playback.prepared.started)
        BY DEF Unarmed
      <4> QED BY <1>5, <3>2, <4>1, <4>2, <4>3, <4>4 DEF TransitionWake
    <3> QED BY <3>1, <3>2
  <2> QED BY <2>1, <2>3, <2>4, <2>5
<1> QED BY <1>4, <1>5 DEF Transition

\* The worker takes an event; the end of the current deck passes from the inbox to it.
LEMMA TakenHeard ==
    ASSUME Core, NoArms, Apart, Heard, live, TakeEvent
    PROVE  Apart' /\ Heard'
<1>0. /\ playback' = playback /\ decks' = decks /\ inbox \in Seq(Events) /\ inbox # <<>>
      /\ inbox' = Tail(inbox) /\ Worker \in Tasks /\ task \in [Tasks -> TaskStates]
      /\ fades' = fades /\ dpc' = dpc /\ live' = live /\ task[Worker] = Idle
  BY DEF TakeEvent, Core, Typed, Tasks, sessionVars
<1>1. /\ Len(inbox) \in Nat /\ Len(inbox) # 0 /\ Head(inbox) = inbox[1]
      /\ Head(inbox) \in Events /\ Len(inbox') = Len(inbox) - 1
      /\ DOMAIN inbox = 1..Len(inbox) /\ DOMAIN inbox' = 1..Len(inbox')
      /\ \A i \in 1..Len(inbox') : inbox'[i] = inbox[i + 1]
  BY <1>0, HeadTailProperties, EmptySeq, LenProperties
<1>2. /\ task'[Worker].pc # "install" /\ task'[Worker].id = inbox[1].id
      /\ inbox[1].kind = "ended" => task'[Worker].pc = "advance"
  <2> DEFINE e == Head(inbox)
             pc == HandlerOf(e.kind)
             new == [Idle EXCEPT !.pc = pc, !.id = e.id, !.kind = e.kind,
                                 !.incoming = e.incoming, !.gen = e.gen]
  <2>1. task' = [task EXCEPT ![Worker] = new]
    BY DEF TakeEvent
  <2>2. e \in Events /\ e = inbox[1]
    BY <1>1
  <2> HIDE DEF e
  <2>3. pc # "install" /\ (e.kind = "ended" => pc = "advance")
    BY <2>2 DEF HandlerOf, Events, EventKinds
  <2> HIDE DEF pc
  <2>4. new.pc = pc /\ new.id = e.id
    BY DEF Idle
  <2> HIDE DEF new
  <2> QED BY <1>0, <2>1, <2>2, <2>3, <2>4
<1>3. \A g \in Tasks : g # Worker => task'[g] = task[g]
  BY <1>0 DEF TakeEvent
<1>4. SteadyBut({})
  BY <1>0, SameSteady
<1>5. Apart'
  BY <1>0, <1>2, <1>3, <1>4, ApartKept
<1>6. ASSUME NEW i \in DOMAIN inbox, inbox[i].kind = "ended", inbox[i].id = playback.current
      PROVE  \/ \E j \in DOMAIN inbox' : /\ inbox'[j].kind = "ended"
                                         /\ inbox'[j].id = playback.current
             \/ task'[Worker].pc = "advance" /\ task'[Worker].id = playback.current
  <2>1. CASE i = 1
    BY <1>2, <1>6, <2>1
  <2>2. CASE i # 1
    <3>1. i - 1 \in 1..Len(inbox') /\ (i - 1) + 1 = i
      BY <1>1, <2>2
    <3>2. inbox'[i - 1] = inbox[i]
      BY <1>1, <3>1
    <3> QED BY <1>1, <1>6, <3>1, <3>2
  <2> QED BY <2>1, <2>2
<1>7. task[Worker].pc # "advance"
  BY <1>0 DEF Idle
<1>8. NeverSilent'
  BY <1>0, <1>6, <1>7 DEF Heard, NeverSilent
<1> QED BY <1>0, <1>5, <1>8 DEF Heard, Sounded

LEMMA WorkerHeard ==
    ASSUME Core, NoArms, Unarmed, Apart, Heard, live, DecksStep, WorkerOnly
    PROVE  Apart' /\ Heard'
<1>0. /\ playback \in Playbacks /\ Worker \in Tasks /\ task[Worker] \in TaskStates
      /\ task \in [Tasks -> TaskStates] /\ TaskFits(task[Worker], decks, playback)
      /\ decks \in Seq(Decks)
  BY DEF Core, Typed, Tasks, TasksFit
<1>1. CASE TakeEvent
  BY <1>1, TakenHeard
<1>2. task[Worker].pc \notin ArmSteps
  BY <1>0 DEF NoArms
<1>3. ~(DegradeArmed \/ ReplacementPrepared \/ ReplacementFails \/ InstallReplacement)
  BY <1>2 DEF DegradeArmed, ReplacementPrepared, ReplacementFails, InstallReplacement, ArmSteps
<1>4. CASE TransitionStarted \/ Advance \/ NextStarted \/ NextFails \/ AdvanceAgain
  <2>1. /\ inbox' = inbox /\ dpc' = dpc /\ fades' = fades
        /\ \A g \in Tasks : g # Worker => task'[g] = task[g]
    BY <1>0, <1>4 DEF TransitionStarted, Advance, AdvancePrepared, AdvanceHandoff, AdvanceLoop,
       TakeNextTrack, NextStarted, NextFails, AdvanceAgain, Goto, Finish, sessionVars
  <2>2. task'[Worker].pc # "install"
    <3>1. CASE Finish(Worker)
      BY <1>0, <3>1, FinishedPc
    <3>2. CASE Goto(Worker, "transition") \/ Goto(Worker, "advancing")
      BY <1>0, <3>2, GonePc
    <3>3. ASSUME NEW next, task' = [task EXCEPT ![Worker].pc = "starting",
                                                ![Worker].next = next]
          PROVE  task'[Worker].pc # "install"
      <4>1. task'[Worker] = [task[Worker] EXCEPT !.pc = "starting", !.next = next]
        BY <1>0, <3>3
      <4> QED BY <1>0, <4>1 DEF TaskStates
    <3> QED BY <1>4, <3>1, <3>2, <3>3 DEF TransitionStarted, Advance, AdvancePrepared,
               AdvanceHandoff, AdvanceLoop, TakeNextTrack, NextStarted, NextFails, AdvanceAgain
  <2>3. \A g \in Tasks : task'[g].pc = "install" => /\ task'[g] = task[g] /\ Paused(task[g].deck)
                                                    /\ task[g].deck # playback.prepared.deck
    BY <2>1, <2>2 DEF Apart
  <2>4. CASE /\ playback' = playback /\ decks' = decks
             /\ task[Worker].pc # "advance" \/ task[Worker].id # playback.current
    <3>1. SteadyBut({})
      BY <2>4, SameSteady
    <3> QED BY <1>0, <2>1, <2>2, <2>4, <3>1, ApartKept, HeardKept
  <2>5. CASE TakeNextTrack
    <3>1. SteadyBut({playback.prepared.deck})
      BY <1>0, <2>5, StoppedSteady DEF TakeNextTrack
    <3>2. /\ playback'.active = None /\ playback'.current = None
          /\ playback'.prepared = NoPrepared /\ playback'.retiring = playback.retiring
      BY <2>5, Taken
    <3>3. Apart'
      BY <1>0, <2>1, <2>2, <2>3, <3>1, <3>2, ApartKept DEF HasPrepared
    <3> QED BY <2>1, <3>1, <3>2, <3>3, HeardEnds
  <2>6. CASE Advance
    <3> DEFINE id == task[Worker].id
    <3>1. task[Worker].pc = "advance" /\ OverIn(decks, id) /\ id # None /\ id \in Nat
      BY <1>0, <2>6 DEF Advance, TaskFits, TaskStates
    <3>2. ~EndsPrepared(id)
      <4> SUFFICES ASSUME EndsPrepared(id)
                   PROVE  FALSE
        OBVIOUS
      <4>1. HasPrepared(playback) /\ playback.prepared.id = id /\ Paused(playback.prepared.deck)
        BY DEF EndsPrepared, Apart
      <4>2. decks[playback.prepared.deck].id = id /\ playback.prepared.deck \in DOMAIN decks
        BY <4>1 DEF Core, PreparedFits
      <4>3. PICK d \in DOMAIN decks : decks[d].id = id /\ decks[d].state = "gone"
        BY <3>1 DEF OverIn
      <4>4. d = playback.prepared.deck
        BY <4>2, <4>3 DEF NoArms
      <4> QED BY <4>1, <4>3, <4>4 DEF Paused
    <3>3. CASE HandsOver(id)
      <4>1. HasPrepared(playback) /\ playback.current = id /\ playback.active # None
        BY <3>1, <3>3 DEF HandsOver, Heard
      <4> DEFINE D == CutShort(playback) \cup {playback.active}
                 e == playback.prepared.deck
      <4>2. PICK player \in PrepareNextTrack(playback.player) :
              /\ playback' = [ForgetRetiring(Promote(playback, player, id), id)
                               EXCEPT !.replacing = None]
              /\ decks' = Resumed(Stopped(decks, D), e)
        BY <2>6, <3>2, <3>3, <4>1 DEF Advance, AdvanceHandoff
      <4>3. player \in Players /\ WellFormed(player)
        BY <1>0, PrepareNextWellFormed DEF Core, Typed, Playbacks
      <4>4. /\ playback'.active = e /\ playback'.current = playback.prepared.id
            /\ playback'.prepared = NoPrepared /\ playback'.retiring = NoRetiring
        BY <1>0, <3>1, <4>2, <4>3, HandoffFacts
      <4>5. e \in DOMAIN decks /\ decks[e].state = "paused"
        BY <4>1 DEF Apart, Paused
      <4>6. \A d \in D : ~Paused(d)
        BY NoDeckNone DEF CutShort, Heard, Sounded, Paused
      <4> HIDE DEF D, id
      <4>7. SteadyBut(D \cup {e}) /\ decks'[e].state = "playing"
        BY <1>0, <4>2, <4>5, <4>6, ResumedSteady DEF Paused
      <4>8. playback'.retiring.deck = None
        BY <4>4, Nothings
      <4>9. Heard'
        BY <2>1, <4>1, <4>4, <4>7, <4>8, HeardMoved
      <4>10. \A g \in Tasks : task'[g].pc = "install" => task[g].deck \notin D \cup {e}
        BY <2>3, <4>6
      <4>11. Apart'
        BY <1>0, <2>1, <2>2, <4>4, <4>7, <4>10, ApartKept DEF HasPrepared
      <4> QED BY <4>9, <4>11
    <3>4. CASE ~HandsOver(id)
      <4>1. AdvanceLoop(id)
        BY <2>6, <3>2, <3>4 DEF Advance
      <4> QED BY <2>4, <2>5, <4>1 DEF AdvanceLoop
    <3> QED BY <3>3, <3>4
  <2>7. CASE AdvanceAgain
    BY <2>4, <2>5, <2>7 DEF AdvanceAgain, AdvanceLoop
  <2>8. CASE TransitionStarted
    BY <2>4, <2>8 DEF TransitionStarted
  <2>9. CASE NextFails
    <3>1. PICK player : playback' = [playback EXCEPT !.player = player, !.current = None]
      BY <2>9 DEF NextFails
    <3>2. /\ playback'.active = playback.active /\ playback'.retiring = playback.retiring
          /\ playback'.current = None /\ playback'.prepared = playback.prepared
      BY <1>0, <3>1 DEF Playbacks
    <3>3. decks' = decks /\ SteadyBut({})
      BY <2>9, SameSteady DEF NextFails
    <3> QED BY <1>0, <2>1, <2>2, <3>2, <3>3, ApartKept, HeardEnds
  <2>10. CASE NextStarted
    <3>1. task[Worker].next \in Tracks
      BY <1>0, <2>10 DEF NextStarted, TaskStates, TaskFits, Carrying, AnyTrack
    <3>2. decks' = With(NewDeck(NextDeck, task[Worker].next, "playing"))
      BY <2>10 DEF NextStarted
    <3>3. /\ SteadyBut({}) /\ NextDeck \in DOMAIN decks'
          /\ decks'[NextDeck].state = "playing" /\ decks'[NextDeck].id = NextDeck
      BY <3>1, <3>2, WithSteady DEF DeckStates
    <3>4. /\ playback'.active = NextDeck /\ playback'.current = NextDeck
          /\ playback'.retiring = playback.retiring
          /\ playback'.prepared = playback.prepared
      BY <2>10, StartFacts
    <3>5. Apart'
      BY <1>0, <2>1, <2>2, <3>3, <3>4, ApartKept
    <3>6. \A d : Sounded(d) => d = None \/ (d \in DOMAIN decks' /\ decks'[d].state # "paused")
      BY <3>3, SoundedKept
    <3>7. dpc = "idle" /\ Sounded(playback.retiring.deck) /\ \A f \in fades : Sounded(f.deck)
      BY DEF Heard
    <3>8. NextDeck # None
      BY <1>0, LenProperties DEF NextDeck, None
    <3>9. NeverSilent'
      BY <3>3, <3>4 DEF NeverSilent
    <3> QED BY <2>1, <3>3, <3>4, <3>5, <3>6, <3>7, <3>8, <3>9 DEF Heard, Sounded
  <2> QED BY <1>4, <2>6, <2>7, <2>8, <2>9, <2>10
<1> QED BY <1>1, <1>3, <1>4 DEF WorkerOnly

LEMMA RearmHeard ==
    ASSUME Core, Apart, Heard, live, NEW r \in Rearmers, RearmBegin(r) \/ RearmStep(r)
    PROVE  Apart' /\ Heard'
<1>0. /\ playback \in Playbacks /\ inbox' = inbox /\ decks \in Seq(Decks) /\ r \in Tasks
      /\ task \in [Tasks -> TaskStates] /\ r # Worker /\ Worker \in Tasks
      /\ fades' = fades /\ dpc' = dpc
  BY HandoffAssumption DEF Core, Typed, RearmBegin, RearmStep, RearmClaim, RearmCheck,
     RearmTransition, RearmOutside, Tasks, sessionVars
<1>1. \A g \in Tasks : g # r => task'[g] = task[g]
  BY <1>0 DEF RearmBegin, RearmStep, RearmClaim, RearmCheck, RearmTransition, RearmOutside,
              Goto, Finish
<1>2. task'[r].pc # "install"
  <2>1. CASE Finish(r)
    BY <1>0, <2>1, FinishedPc
  <2>2. CASE Goto(r, "prefetch") \/ Goto(r, "window") \/ Goto(r, "transition")
    BY <1>0, <2>2, GonePc
  <2>3. CASE RearmBegin(r)
    <3>1. task'[r] = [Idle EXCEPT !.pc = "positioned", !.id = playback.current]
      BY <1>0, <2>3 DEF RearmBegin
    <3> QED BY <3>1 DEF Idle
  <2> QED BY <2>1, <2>2, <2>3 DEF RearmStep, RearmClaim, RearmCheck, RearmTransition,
             RearmOutside
<1>3. \A g \in Tasks : task'[g].pc = "install" => task[g].deck # playback.prepared.deck
  BY <1>1, <1>2 DEF Apart
<1> DEFINE GivenUp == /\ playback' = Invalidate(playback)
                      /\ decks' = Stopped(decks, {playback.prepared.deck})
<1>4. CASE ~GivenUp
  <2>1. /\ decks' = decks
        /\ \/ playback' = playback
           \/ playback' = [playback EXCEPT !.rearm = task[r].id,
                 !.due = IF @ = task[r].id /\ ~HasPrepared(playback) THEN None ELSE @]
           \/ playback' = [playback EXCEPT !.rearm = IF @ = task[r].id THEN None ELSE @]
    BY <1>4 DEF RearmBegin, RearmStep, RearmClaim, RearmCheck, RearmTransition, RearmOutside
  <2>2. /\ playback'.active = playback.active /\ playback'.retiring = playback.retiring
        /\ playback'.current = playback.current /\ playback'.prepared = playback.prepared
    BY <1>0, <2>1 DEF Playbacks
  <2>3. SteadyBut({})
    BY <2>1, SameSteady
  <2> QED BY <1>0, <1>1, <1>2, <2>2, <2>3, ApartKept, HeardKept
<1>5. CASE GivenUp
  <2>1. playback' = Invalidate(playback) /\ decks' = Stopped(decks, {playback.prepared.deck})
    BY <1>5
  <2>2. /\ playback'.active = playback.active /\ playback'.retiring = playback.retiring
        /\ playback'.current = playback.current /\ playback'.prepared = NoPrepared
    BY <1>0, <2>1, InvalidateFacts
  <2>3. SteadyBut({playback.prepared.deck})
    BY <1>0, <2>1, StoppedSteady
  <2>4. Apart'
    BY <1>0, <1>1, <1>2, <1>3, <2>2, <2>3, ApartKept DEF HasPrepared
  <2> QED BY <1>0, <1>1, <2>2, <2>3, <2>4, HeardKept
<1> QED BY <1>4, <1>5

LEMMA SessionHeard ==
    ASSUME Core, NoArms, Apart, Heard, live, live',
           FadeEnds \/ Toggle \/ (\E t \in Tracks : EnqueueTrack(t))
    PROVE  Apart' /\ Heard'
<1>0. /\ playback \in Playbacks /\ WellFormed(playback.player) /\ task' = task
      /\ inbox' = inbox /\ decks \in Seq(Decks) /\ dpc' = dpc /\ Worker \in Tasks
  BY DEF Core, Typed, FadeEnds, Toggle, EnqueueTrack, Tasks, sessionVars
<1>1. CASE FadeEnds
  <2>1. PICK f \in fades :
          /\ fades' = fades \ {f}
          /\ decks' = Stopped(decks, {f.deck})
          /\ playback' = ForgetRetiring(playback, f.id)
    BY <1>1 DEF FadeEnds
  <2>2. /\ playback'.active = playback.active /\ playback'.current = playback.current
        /\ playback'.prepared = playback.prepared
        /\ playback'.retiring \in {playback.retiring, NoRetiring}
    <3>1. CASE playback.retiring.id = f.id
      BY <1>0, <2>1, <3>1 DEF ForgetRetiring, Playbacks
    <3>2. CASE playback.retiring.id # f.id
      BY <2>1, <3>2 DEF ForgetRetiring
    <3> QED BY <3>1, <3>2
  <2>3. SteadyBut({f.deck})
    BY <1>0, <2>1, StoppedSteady
  <2>4. ~Paused(f.deck)
    BY NoDeckNone DEF Heard, Sounded, Paused
  <2>5. \A g \in Tasks : task[g].pc = "install" => task[g].deck \notin {f.deck}
    BY <2>4 DEF Apart
  <2>6. HasPrepared(playback) => playback.prepared.deck \notin {f.deck}
    BY <2>4 DEF Apart
  <2>7. HasPrepared(playback') => HasPrepared(playback)
    BY <2>2 DEF HasPrepared
  <2>8. Apart'
    BY <1>0, <2>2, <2>3, <2>5, <2>6, <2>7, ApartKept
  <2> QED BY <1>0, <2>1, <2>2, <2>3, <2>8, HeardKept
<1>2. CASE Toggle
  <2>1. PICK q \in ToggledModes(playback) : playback' = Invalidate(q)
    BY <1>2 DEF Toggle
  <2>2. /\ q \in Playbacks /\ q.retiring = playback.retiring /\ q.active = playback.active
        /\ q.current = playback.current
    BY <1>0, ToggledFacts
  <2>3. /\ playback'.active = playback.active /\ playback'.retiring = playback.retiring
        /\ playback'.current = playback.current /\ playback'.prepared = NoPrepared
    BY <2>1, <2>2, InvalidateFacts
  <2>4. SteadyBut({playback.prepared.deck}) /\ fades' = fades
    BY <1>0, <1>2, StoppedSteady DEF Toggle
  <2>5. \A g \in Tasks : task'[g].pc = "install" => task[g].deck \notin {playback.prepared.deck}
    BY <1>0 DEF Apart
  <2>6. Apart'
    BY <1>0, <2>3, <2>4, <2>5, ApartKept DEF HasPrepared
  <2> QED BY <1>0, <2>3, <2>4, <2>6, HeardKept
<1>3. CASE \E t \in Tracks : EnqueueTrack(t)
  <2>1. PICK player : playback' = [playback EXCEPT !.player = player]
    BY <1>3 DEF EnqueueTrack
  <2>2. /\ playback'.active = playback.active /\ playback'.retiring = playback.retiring
        /\ playback'.current = playback.current /\ playback'.prepared = playback.prepared
    BY <1>0, <2>1 DEF Playbacks
  <2>3. SteadyBut({}) /\ fades' = fades
    BY <1>3, SameSteady DEF EnqueueTrack
  <2> QED BY <1>0, <2>2, <2>3, ApartKept, HeardKept
<1> QED BY <1>1, <1>2, <1>3

\* A deck that ends leaves its report in the inbox.
LEMMA RuntimeHeard ==
    ASSUME Core, NoArms, Apart, Heard, live, NEW d \in DOMAIN decks,
           DeckTimer(d) \/ DeckEnded(d) \/ ArmFires(d)
    PROVE  Apart' /\ Heard'
<1>0. /\ decks \in Seq(Decks) /\ inbox \in Seq(Events) /\ decks[d] \in Decks
      /\ decks[d].id \in Nat
  <2>1. decks \in Seq(Decks) /\ inbox \in Seq(Events)
    BY DEF Core, Typed
  <2>2. decks[d] \in Decks
    BY <2>1, LenProperties, ElementOfSeq
  <2> QED BY <2>1, <2>2 DEF Decks
<1>1. ~ArmFires(d)
  BY DEF NoArms, ArmFires
<1>2. playback' = playback /\ task' = task /\ fades' = fades /\ dpc' = dpc
  BY DEF DeckTimer, DeckEnded, ArmFires, sessionVars
<1>3. PICK kind \in {"prefetch_due", "transition_due", "ended"} :
        /\ Emit(Event(kind, decks[d].id, None, None))
        /\ DeckEnded(d) => kind = "ended"
  BY <1>1 DEF DeckTimer, DeckEnded
<1> DEFINE e == Event(kind, decks[d].id, None, None)
<1>4. e \in Events /\ e.kind = kind /\ e.id = decks[d].id
  <2>1. kind \in EventKinds /\ decks[d].id \in Nat /\ None \in Nat
    BY <1>0, Nothings DEF EventKinds
  <2> QED BY <2>1, EventType DEF Event
<1>5. inbox' = Append(inbox, e)
  BY <1>3 DEF Emit
<1> HIDE DEF e
<1>6. /\ Len(inbox) \in Nat /\ DOMAIN inbox = 1..Len(inbox)
      /\ DOMAIN inbox' = 1..(Len(inbox) + 1)
      /\ \A j \in 1..Len(inbox) : inbox'[j] = inbox[j]
      /\ inbox'[Len(inbox) + 1] = e
  BY <1>0, <1>4, <1>5, AppendProperties, LenProperties
<1>7. \A i \in DOMAIN inbox : i \in DOMAIN inbox' /\ inbox'[i] = inbox[i]
  BY <1>6
<1>8. Len(inbox) + 1 \in DOMAIN inbox'
  BY <1>6
<1>9. /\ DOMAIN decks' = DOMAIN decks
      /\ \A f \in DOMAIN decks : f # d => decks'[f] = decks[f]
      /\ decks'[d].id = decks[d].id /\ decks[d].state # "paused"
      /\ \/ decks'[d].state = decks[d].state
         \/ DeckEnded(d) /\ decks'[d].state = "gone"
  <2>1. CASE DeckTimer(d)
    <3> DEFINE new == [decks[d] EXCEPT !.timers = @ + 1]
    <3>1. new.id = decks[d].id /\ new.state = decks[d].state
      BY <1>0 DEF Decks
    <3>2. decks' = [decks EXCEPT ![d] = new]
      BY <2>1 DEF DeckTimer
    <3> HIDE DEF new
    <3> QED BY <1>0, <2>1, <3>1, <3>2 DEF DeckTimer, Audible
  <2>2. CASE DeckEnded(d)
    <3> DEFINE new == [decks[d] EXCEPT !.state = "gone", !.slot = NoArm]
    <3>1. new.id = decks[d].id /\ new.state = "gone"
      BY <1>0 DEF Decks
    <3>2. decks' = [decks EXCEPT ![d] = new]
      BY <2>2 DEF DeckEnded
    <3> HIDE DEF new
    <3> QED BY <1>0, <2>2, <3>1, <3>2 DEF DeckEnded, Audible
  <2> QED BY <1>1, <2>1, <2>2
<1>10. Apart'
  BY <1>2, <1>9 DEF Apart, Paused
<1>11. \A f : Sounded(f) => f = None \/ (f \in DOMAIN decks' /\ decks'[f].state # "paused")
  BY <1>9 DEF Sounded
<1>12. ASSUME playback.current # None
       PROVE  \/ \E f \in DOMAIN decks' : /\ decks'[f].id = playback.current
                                          /\ decks'[f].state \in {"playing", "stopped"}
              \/ \E i \in DOMAIN inbox' : /\ inbox'[i].kind = "ended"
                                          /\ inbox'[i].id = playback.current
              \/ task[Worker].pc = "advance" /\ task[Worker].id = playback.current
  <2>1. CASE \E f \in DOMAIN decks : /\ decks[f].id = playback.current
                                     /\ decks[f].state \in {"playing", "stopped"}
    <3>1. PICK f \in DOMAIN decks : /\ decks[f].id = playback.current
                                    /\ decks[f].state \in {"playing", "stopped"}
      BY <2>1
    <3>2. CASE f # d \/ decks'[d].state = decks[d].state
      BY <1>9, <3>1, <3>2
    <3>3. CASE f = d /\ DeckEnded(d)
      BY <1>3, <1>4, <1>6, <1>8, <3>1, <3>3
    <3> QED BY <1>9, <3>2, <3>3
  <2>2. CASE \E i \in DOMAIN inbox : inbox[i].kind = "ended" /\ inbox[i].id = playback.current
    BY <1>7, <2>2
  <2> QED BY <1>12, <2>1, <2>2 DEF Heard, NeverSilent
<1>13. NeverSilent'
  BY <1>2, <1>12 DEF NeverSilent
<1> QED BY <1>2, <1>10, <1>11, <1>13 DEF Heard, Sounded

\* Only ArmAccepted and DegradeArmed arm a deck or start one that was armed.
LEMMA UnarmedKept ==
    ASSUME Core, NoArms, Unarmed, [Next]_vars
    PROVE  Unarmed'
<1>0. /\ playback \in Playbacks /\ WellFormed(playback.player)
      /\ task \in [Tasks -> TaskStates] /\ Worker \in Tasks
  BY DEF Core, Typed, Tasks
<1> DEFINE Kept == playback'.prepared \in {playback.prepared, NoPrepared}
           Spared(h) == /\ \A g \in Tasks : g # h => task'[g] = task[g]
                        /\ ~task'[h].armed
<1>1. ASSUME Kept, NEW h \in Tasks, Spared(h)
      PROVE  Unarmed'
  BY <1>1 DEF Unarmed, NoPrepared
<1>2. ~Idle.armed /\ \A id : ~[Idle EXCEPT !.pc = "rearmed", !.id = id].armed
  BY DEF Idle
<1>3. ASSUME NEW h \in Tasks, Finish(h) \/ Return(h)
      PROVE  Spared(h)
  BY <1>0, <1>2, <1>3 DEF Finish, Return
<1>4. ASSUME NEW h \in Tasks, NEW pc, Goto(h, pc)
      PROVE  Spared(h)
  <2>1. task' = [task EXCEPT ![h].pc = pc]
    BY <1>4 DEF Goto
  <2>2. task'[h].armed = task[h].armed
    BY <1>0, <2>1 DEF TaskStates
  <2> QED BY <1>0, <2>1, <2>2 DEF Unarmed
<1>5. CASE playback' = playback /\ task' = task
  BY <1>5 DEF Unarmed
<1> HIDE DEF Kept, Spared
<1>6. ASSUME NEW h \in Tasks, Prefetch(h)
      PROVE  Unarmed'
  <2>1. CASE PrefetchBegin(h)
    <3>1. Kept
      BY <1>0, <2>1, NextGenKeeps DEF PrefetchBegin, Kept
    <3>2. CASE Return(h)
      BY <1>1, <1>3, <3>1, <3>2
    <3>3. CASE ~Return(h)
      <4> DEFINE g == playback.gen + 1
                 next == PeekNextTrack(playback.player)
      <4>1. task' = [task EXCEPT ![h].pc = "preparing", ![h].gen = g, ![h].next = next]
        BY <2>1, <3>3 DEF PrefetchBegin
      <4> HIDE DEF g, next
      <4>2. task'[h].armed = task[h].armed
        BY <1>0, <4>1 DEF TaskStates
      <4>3. Spared(h)
        BY <1>0, <4>1, <4>2 DEF Unarmed, Spared
      <4> QED BY <1>1, <3>1, <4>3
    <3> QED BY <3>2, <3>3
  <2>2. CASE SourcePrepared(h) \/ PrefetchFails(h)
    <3>1. Kept
      BY <2>2 DEF SourcePrepared, PrefetchFails, Kept
    <3>2. Return(h) \/ Goto(h, "planning")
      BY <2>2 DEF SourcePrepared, PrefetchFails
    <3> QED BY <1>1, <1>3, <1>4, <3>1, <3>2
  <2>3. CASE PrepareIncoming(h)
    <3>1. Kept
      BY <2>3 DEF PrepareIncoming, Kept
    <3>2. PICK kind \in scenario.kinds :
            task' = [task EXCEPT ![h].pc = IF kind = "beatmatched" THEN "arming" ELSE "install",
                                 ![h].kind = kind, ![h].deck = NextDeck,
                                 ![h].incoming = NextDeck]
      BY <2>3 DEF PrepareIncoming
    <3>3. task'[h].armed = task[h].armed
      BY <1>0, <3>2 DEF TaskStates
    <3>4. Spared(h)
      BY <1>0, <3>2, <3>3 DEF Unarmed, Spared
    <3> QED BY <1>1, <3>1, <3>4
  <2>4. CASE InstallPrepared(h)
    <3>1. Spared(h)
      BY <1>3, <2>4 DEF InstallPrepared
    <3>2. CASE playback' = playback
      BY <1>1, <3>1, <3>2 DEF Kept
    <3>3. CASE playback' # playback
      <4> DEFINE t == task[h]
                 new == [origin |-> t.id, next |-> t.next, id |-> t.incoming, deck |-> t.deck,
                         kind |-> t.kind, armed |-> t.armed,
                         gen |-> IF t.armed THEN t.gen ELSE None, started |-> FALSE]
      <4>1. /\ playback' = [playback EXCEPT !.prepared = new]
            /\ new.armed = task[h].armed /\ ~new.started
        BY <2>4, <3>3 DEF InstallPrepared
      <4> HIDE DEF new, t
      <4>2. playback'.prepared = new
        BY <1>0, <4>1 DEF Playbacks
      <4> QED BY <3>1, <4>1, <4>2 DEF Spared, Unarmed
    <3> QED BY <3>2, <3>3
  <2>5. ~ArmAccepted(h) /\ ~ArmRejected(h) /\ ~PrepareFallback(h)
    BY DEF NoArms, ArmSteps, ArmAccepted, ArmRejected, PrepareFallback
  <2> QED BY <1>6, <2>1, <2>2, <2>3, <2>4, <2>5 DEF Prefetch
<1>7. ASSUME NEW h \in Tasks, Transition(h)
      PROVE  Unarmed'
  <2>0. task[h].id \in Nat
    BY <1>0 DEF TaskStates
  <2>1. CASE TransitionBegin(h)
    <3>1. ASSUME playback' = playback
          PROVE  Kept
      BY <3>1 DEF Kept
    <3>2. ASSUME playback' # playback
          PROVE  Kept
      <4>1. PICK due \in {playback.due, task[h].id} :
              playback' = [playback EXCEPT !.gen = @ + 1, !.due = due]
        BY <2>1, <3>2 DEF TransitionBegin
      <4> DEFINE p == [playback EXCEPT !.gen = @ + 1]
      <4>2. p \in Playbacks /\ p.prepared = playback.prepared
        BY <1>0, NextGen, NextGenKeeps
      <4>3. playback' = [p EXCEPT !.due = due]
        BY <4>1
      <4> HIDE DEF p
      <4>4. Kept
        BY <4>2, <4>3 DEF Playbacks, Kept
      <4> QED BY <4>4
    <3>3. Kept
      BY <3>1, <3>2
    <3>4. CASE Finish(h)
      BY <1>1, <1>3, <3>3, <3>4
    <3>5. CASE ~Finish(h)
      <4>1. PICK pc, d : task' = [task EXCEPT ![h].pc = pc, ![h].deck = d]
        BY <2>1, <3>5 DEF TransitionBegin
      <4>2. task'[h].armed = task[h].armed
        BY <1>0, <4>1 DEF TaskStates
      <4>3. Spared(h)
        BY <1>0, <4>1, <4>2 DEF Unarmed, Spared
      <4> QED BY <1>1, <3>3, <4>3
    <3> QED BY <3>4, <3>5
  <2>2. CASE CheckTarget(h)
    BY <1>1, <1>3, <1>4, <2>2 DEF CheckTarget, Kept
  <2>3. CASE TransitionWake(h)
    <3>1. ASSUME NEW a \in Nat,
                 \/ playback' = [playback EXCEPT !.prepared = NoPrepared]
                 \/ playback' = [playback EXCEPT !.prepared = NoPrepared, !.active = a]
          PROVE  Kept
      BY <1>0, <3>1 DEF Kept, Playbacks
    <3>2. ASSUME NEW player \in PrepareNextTrack(playback.player),
                 \/ playback' = ForgetRetiring(Promote(playback, player, task[h].id), task[h].id)
                 \/ playback' = [Promote(playback, player, task[h].id) EXCEPT !.fade = task[h].id]
          PROVE  Kept
      <4> DEFINE q == Promote(playback, player, task[h].id)
      <4>1. player \in Players /\ WellFormed(player)
        BY <1>0, PrepareNextWellFormed DEF Playbacks
      <4>2. q \in Playbacks /\ q.prepared = NoPrepared
        BY <1>0, <2>0, <4>1, PromoteFacts
      <4>3. \/ playback' = ForgetRetiring(q, task[h].id)
            \/ playback' = [q EXCEPT !.fade = task[h].id]
        BY <3>2
      <4> HIDE DEF q
      <4>4. playback'.prepared = NoPrepared
        BY <4>2, <4>3, ForgetFacts DEF Playbacks
      <4> QED BY <4>4 DEF Kept
    <3>3. Kept
      <4>1. playback.prepared.deck \in Nat /\ None \in Nat
        BY <1>0, Nothings DEF Playbacks, Prepareds
      <4> QED BY <2>3, <3>1, <3>2, <4>1 DEF TransitionWake, TransitionDropped
    <3> QED BY <1>1, <1>3, <2>3, <3>3 DEF TransitionWake
  <2> QED BY <1>7, <2>1, <2>2, <2>3 DEF Transition
<1>8. CASE WorkerOnly
  <2>0. task[Worker].id \in Nat /\ task[Worker].pc \notin ArmSteps
    BY <1>0 DEF TaskStates, NoArms
  <2>1. ~(DegradeArmed \/ ReplacementPrepared \/ ReplacementFails \/ InstallReplacement)
    BY <2>0 DEF DegradeArmed, ReplacementPrepared, ReplacementFails, InstallReplacement, ArmSteps
  <2>2. CASE TakeEvent
    <3>1. PICK pc, id, kind, i, g :
            task' = [task EXCEPT ![Worker] = [Idle EXCEPT !.pc = pc, !.id = id, !.kind = kind,
                                                          !.incoming = i, !.gen = g]]
      BY <2>2 DEF TakeEvent
    <3>2. ~task'[Worker].armed
      BY <1>0, <3>1 DEF Idle
    <3>3. Kept /\ Spared(Worker)
      BY <1>0, <2>2, <3>1, <3>2 DEF TakeEvent, Kept, Spared
    <3> QED BY <1>0, <1>1, <3>3
  <2>3. CASE TransitionStarted \/ Advance \/ NextStarted \/ NextFails \/ AdvanceAgain
    <3>1. Spared(Worker)
      <4>1. CASE Finish(Worker) \/ Goto(Worker, "transition") \/ Goto(Worker, "advancing")
        BY <1>0, <1>3, <1>4, <4>1
      <4>2. ASSUME NEW next, task' = [task EXCEPT ![Worker].pc = "starting",
                                                  ![Worker].next = next]
            PROVE  Spared(Worker)
        <5>1. task'[Worker].armed = task[Worker].armed
          BY <1>0, <4>2 DEF TaskStates
        <5> QED BY <1>0, <4>2, <5>1 DEF Unarmed, Spared
      <4> QED BY <2>3, <4>1, <4>2 DEF TransitionStarted, Advance, AdvancePrepared,
                 AdvanceHandoff, AdvanceLoop, TakeNextTrack, NextStarted, NextFails, AdvanceAgain
    <3>2. CASE TakeNextTrack
      <4>1. Kept
        BY <3>2, Taken DEF Kept
      <4> QED BY <1>0, <1>1, <3>1, <4>1
    <3>3. CASE Advance /\ AdvancePrepared(task[Worker].id)
      <4>1. playback' = [playback EXCEPT !.gen = @ + 1, !.replacing = None,
                                         !.prepared = NoPrepared]
        BY <3>3 DEF AdvancePrepared
      <4>2. Kept
        BY <1>0, <4>1 DEF Playbacks, Kept
      <4> QED BY <1>0, <1>1, <3>1, <4>2
    <3>4. CASE Advance /\ AdvanceHandoff(task[Worker].id) /\ playback' # playback
      <4>1. PICK player \in PrepareNextTrack(playback.player) :
              playback' = [ForgetRetiring(Promote(playback, player, task[Worker].id),
                                          task[Worker].id) EXCEPT !.replacing = None]
        BY <3>4 DEF AdvanceHandoff
      <4>2. player \in Players /\ WellFormed(player)
        BY <1>0, PrepareNextWellFormed DEF Playbacks
      <4>3. playback'.prepared = NoPrepared
        BY <1>0, <2>0, <4>1, <4>2, HandoffFacts
      <4>4. Kept
        BY <4>3 DEF Kept
      <4> QED BY <1>0, <1>1, <3>1, <4>4
    <3>5. CASE playback' = playback
      <4>1. Kept
        BY <3>5 DEF Kept
      <4> QED BY <1>0, <1>1, <3>1, <4>1
    <3>6. CASE NextFails /\ playback' # playback
      <4>1. PICK player : playback' = [playback EXCEPT !.player = player, !.current = None]
        BY <3>6 DEF NextFails
      <4>2. Kept
        BY <1>0, <4>1 DEF Playbacks, Kept
      <4> QED BY <1>0, <1>1, <3>1, <4>2
    <3>7. CASE NextStarted /\ playback' # playback
      <4>1. PICK player, n : playback' = [playback EXCEPT !.player = player, !.current = n,
                                                          !.active = n]
        BY <3>7 DEF NextStarted
      <4>2. Kept
        BY <1>0, <4>1 DEF Playbacks, Kept
      <4> QED BY <1>0, <1>1, <3>1, <4>2
    <3> QED BY <2>3, <3>2, <3>3, <3>4, <3>5, <3>6, <3>7 DEF TransitionStarted, Advance,
               AdvanceAgain, AdvanceLoop
  <2> QED BY <1>8, <2>1, <2>2, <2>3 DEF WorkerOnly
<1>9. ASSUME NEW r \in Rearmers, RearmBegin(r) \/ RearmStep(r)
      PROVE  Unarmed'
  <2>0. r \in Tasks
    BY DEF Tasks
  <2>1. ASSUME \/ playback' = playback
               \/ playback' = [playback EXCEPT !.rearm = task[r].id,
                     !.due = IF @ = task[r].id /\ ~HasPrepared(playback) THEN None ELSE @]
               \/ playback' = [playback EXCEPT !.rearm = IF @ = task[r].id THEN None ELSE @]
        PROVE  Kept
    BY <1>0, <2>1 DEF Playbacks, Kept
  <2>2. ASSUME playback' = Invalidate(playback)
        PROVE  Kept
    BY <1>0, <2>2, InvalidateFacts DEF Kept
  <2>3. Kept
    BY <1>9, <2>1, <2>2 DEF RearmBegin, RearmStep, RearmClaim, RearmCheck, RearmTransition,
       RearmOutside
  <2>4. Spared(r)
    <3>1. CASE RearmBegin(r)
      <4>1. task' = [task EXCEPT ![r] = [Idle EXCEPT !.pc = "positioned",
                                                     !.id = playback.current]]
        BY <3>1 DEF RearmBegin
      <4>2. ~task'[r].armed
        BY <1>0, <2>0, <4>1 DEF Idle
      <4> QED BY <1>0, <4>1, <4>2 DEF Spared
    <3> QED BY <1>3, <1>4, <1>9, <2>0, <3>1 DEF RearmStep, RearmClaim, RearmCheck,
               RearmTransition, RearmOutside
  <2> QED BY <1>1, <2>0, <2>3, <2>4
<1>10. CASE FadeEnds \/ Commands \/ BeginDisconnect \/ ClearSession \/ LeaveCall
  <2>0. task' = task
    BY <1>10 DEF FadeEnds, Commands, Skip, Toggle, EnqueueTrack, BeginDisconnect,
       ClearSession, LeaveCall
  <2>1. ASSUME FadeEnds
        PROVE  Kept
    BY <1>0, <2>1, ForgetFacts DEF FadeEnds, Kept
  <2>2. ASSUME Skip
        PROVE  Kept
    <3> DEFINE p == Invalidate(playback)
    <3>1. p \in Playbacks /\ p.prepared = NoPrepared
      BY <1>0, InvalidateFacts
    <3>2. \E player : playback' = [p EXCEPT !.player = player, !.active = None,
                                            !.retiring = NoRetiring, !.fade = None]
      BY <2>2 DEF Skip
    <3> HIDE DEF p
    <3> QED BY <3>1, <3>2 DEF Playbacks, Kept
  <2>3. ASSUME ClearSession
        PROVE  Kept
    <3> DEFINE p == Invalidate(playback)
    <3>1. p \in Playbacks /\ p.prepared = NoPrepared
      BY <1>0, InvalidateFacts
    <3>2. \E player : playback' = [p EXCEPT !.player = player, !.active = None,
                                            !.retiring = NoRetiring, !.fade = None,
                                            !.current = None]
      BY <2>3 DEF ClearSession
    <3> HIDE DEF p
    <3> QED BY <3>1, <3>2 DEF Playbacks, Kept
  <2>4. ASSUME Toggle
        PROVE  Kept
    <3>1. PICK q \in ToggledModes(playback) : playback' = Invalidate(q)
      BY <2>4 DEF Toggle
    <3>2. q \in Playbacks
      BY <1>0, ToggledFacts
    <3> QED BY <3>1, <3>2, InvalidateFacts DEF Kept
  <2>5. ASSUME \E t \in Tracks : EnqueueTrack(t)
        PROVE  Kept
    <3>1. PICK player : playback' = [playback EXCEPT !.player = player]
      BY <2>5 DEF EnqueueTrack
    <3> QED BY <1>0, <3>1 DEF Playbacks, Kept
  <2>6. ASSUME BeginDisconnect \/ LeaveCall
        PROVE  Kept
    BY <2>6 DEF BeginDisconnect, LeaveCall, Kept
  <2>7. Kept
    BY <1>10, <2>1, <2>2, <2>3, <2>4, <2>5, <2>6 DEF Commands
  <2> QED BY <2>0, <2>7 DEF Unarmed, Kept, NoPrepared
<1>11. ASSUME NEW d \in DOMAIN decks, DeckTimer(d) \/ DeckEnded(d) \/ ArmFires(d)
       PROVE  Unarmed'
  BY <1>5, <1>11 DEF DeckTimer, DeckEnded, ArmFires
<1>12. CASE UNCHANGED vars
  BY <1>5, <1>12 DEF vars
<1> QED BY <1>6, <1>7, <1>8, <1>9, <1>10, <1>11, <1>12 DEF Next

\* A session that has ended stays so.
LEMMA LiveBefore ==
    ASSUME [Next]_vars, live'
    PROVE  live
<1> USE DEF sessionVars
<1>1. ASSUME NEW h \in Tasks, Prefetch(h)
      PROVE  live' = live
  BY <1>1 DEF Prefetch, PrefetchBegin, SourcePrepared, PrepareIncoming, PrefetchFails,
     ArmAccepted, ArmRejected, PrepareFallback, InstallPrepared
<1>2. ASSUME NEW h \in Tasks, Transition(h)
      PROVE  live' = live
  BY <1>2 DEF Transition, TransitionBegin, CheckTarget, TransitionWake
<1>3. CASE WorkerOnly
  BY <1>3 DEF WorkerOnly, TakeEvent, TransitionStarted, DegradeArmed, ReplacementPrepared,
     ReplacementFails, InstallReplacement, Advance, NextStarted, NextFails, AdvanceAgain
<1>4. ASSUME NEW r \in Rearmers, RearmBegin(r) \/ RearmStep(r)
      PROVE  live' = live
  BY <1>4 DEF RearmBegin, RearmStep, RearmClaim, RearmCheck, RearmTransition, RearmOutside
<1>5. CASE FadeEnds \/ Commands \/ BeginDisconnect \/ ClearSession \/ LeaveCall
  BY <1>5 DEF FadeEnds, Commands, Skip, Toggle, EnqueueTrack, BeginDisconnect, ClearSession,
     LeaveCall
<1>6. ASSUME NEW d \in DOMAIN decks, DeckTimer(d) \/ DeckEnded(d) \/ ArmFires(d)
      PROVE  live' = live
  BY <1>6 DEF DeckTimer, DeckEnded, ArmFires
<1>7. CASE UNCHANGED vars
  BY <1>7 DEF vars
<1> QED BY <1>1, <1>2, <1>3, <1>4, <1>5, <1>6, <1>7 DEF Next

\* A session that nobody skips is heard.
Audience ==
    scenario.skips = 0 /\ "beatmatched" \notin scenario.kinds =>
        NoArms /\ Unarmed /\ Apart /\ Heard

LEMMA InitAudience == Init => Audience
<1> SUFFICES ASSUME Init
             PROVE  Audience
  OBVIOUS
<1> DEFINE deck == NewDeck(1, FirstTrack, "playing")
<1>1. decks = <<deck>> /\ deck.state = "playing" /\ deck.id = 1
  BY DEF Init, NewDeck
<1> HIDE DEF deck
<1>2. DOMAIN decks = {1} /\ decks[1].state = "playing" /\ decks[1].id = 1
  BY <1>1
<1>3. /\ playback.active = 1 /\ playback.current = 1 /\ playback.prepared = NoPrepared
      /\ playback.retiring = NoRetiring /\ fades = {} /\ dpc = "idle"
      /\ \A h \in Tasks : task[h] = Idle
  BY DEF Init
<1>4. Unarmed
  BY <1>3 DEF Unarmed, NoPrepared, Idle
<1>5. Apart
  BY <1>3 DEF Apart, HasPrepared, Idle
<1>6. Heard
  BY <1>2, <1>3 DEF Heard, Sounded, NeverSilent, NoRetiring, None
<1> QED BY <1>4, <1>5, <1>6, InitCalm DEF Audience

LEMMA AudienceKept == Core /\ Audience /\ [Next]_vars => Audience'
<1> SUFFICES ASSUME Core, Audience, [Next]_vars, scenario.skips = 0,
                    "beatmatched" \notin scenario.kinds
             PROVE  NoArms' /\ Unarmed' /\ Apart' /\ Heard'
  BY ScenarioKept DEF Audience
<1>1. NoArms /\ Unarmed /\ Apart /\ Heard
  BY DEF Audience
<1>2. NoArms' /\ Unarmed' /\ DecksStep
  BY <1>1, CalmStep, UnarmedKept, DecksKept
<1>3. CASE ~live'
  BY <1>2, <1>3 DEF Apart, Heard
<1>4. CASE live'
  <2>1. live
    BY <1>4, LiveBefore
  <2>2. CASE UNCHANGED vars
    BY <1>1, <1>2, <2>2 DEF vars, sessionVars, Apart, Paused, Heard, Sounded,
       NeverSilent
  <2>3. ~Skip
    BY DEF Skip, Core, Typed
  <2>4. ~(BeginDisconnect \/ ClearSession \/ LeaveCall)
    BY <1>1, <1>4, <2>1 DEF BeginDisconnect, ClearSession, LeaveCall, Heard
  <2> QED BY <1>1, <1>2, <1>4, <2>1, <2>2, <2>3, <2>4, PrefetchHeard, TransitionHeard,
             WorkerHeard, RearmHeard, SessionHeard, RuntimeHeard DEF Next, Commands
<1> QED BY <1>3, <1>4

\* A session is never silent without a reason: through prefetches, crossfades, failed
\* starts, toggles and rearms, its current track sounds or its end is on the way, as long
\* as nobody skips and the planner chooses no beat-matched start.
THEOREM HeardUnlessSkipped ==
    ASSUME \A s \in Scenarios : s.skips = 0 /\ "beatmatched" \notin s.kinds
    PROVE  Spec => []NeverSilent
<1>1. Core /\ Audience => NeverSilent
  <2> SUFFICES ASSUME Core, Audience, live
               PROVE  NeverSilent
    BY DEF NeverSilent
  <2> QED BY DEF Audience, Heard, Core, Typed
<1> QED BY <1>1, InitAudience, AudienceKept, CoreHolds, PTL DEF Spec
=============================================================================
