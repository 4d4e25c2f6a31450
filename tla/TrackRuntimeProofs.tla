------------------------- MODULE TrackRuntimeProofs -------------------------
(***************************************************************************)
(* The runtime keeps its contract with the coordinator for any number of   *)
(* decks, arms and frames, and however far the event task is behind.       *)
(***************************************************************************)
EXTENDS TrackRuntime, TLAPS

Fires == [deck : Decks, kind : {"tick", "end", "error"}, frame : Nat]

\* TypeOK by parts.
DeckTypes ==
    /\ stage \in [Decks -> {"absent", "created", "hearing", "listening", "registered", "failed"}]
    /\ mode \in [Decks -> Modes]
    /\ frame \in 0..MaxFrame
    /\ lifecycle \in [Decks -> {"running", "stop_requested", "errored", "terminated"}]
    /\ stopping \in [Decks -> {"no", "requested", "sent"}]
CmdTypes ==
    /\ cmds \in [Decks -> Seq({"play", "stop"} \cup Arms)]
    /\ \A d \in Decks : Over(d) => cmds[d] = <<>>
ArmTypes ==
    /\ slot \in [arm : Arms \cup {None}, last : Nat, queued : BOOLEAN]
    /\ arm \in [Arms -> [pc : {"idle", "asked", "known", "armed", "refused"},
                         in : AnyDeck, target : Nat, at : Nat, playing : BOOLEAN]]
    /\ status \in [Arms -> {"none", "pending", "started", "failed"}]
    /\ startedAt \in [Arms -> Nat]
EventTypes ==
    /\ transit \in Seq(SUBSET Fires)
    /\ reports \in [Decks -> Seq({"completed", "stopped", "errored"})]
    /\ answers \in [Arms -> Seq({"started", "late", "failed"})]

\* Nothing was reported of a deck as long as its lifecycle leaves room for it.
ReportsFit ==
    \A d \in Decks : lifecycle[d] \in {"running", "stop_requested"} => reports[d] = <<>>

\* Only an accepted arm is answered, and the armed one is not answered yet.
AnswersFit ==
    /\ \A g \in Arms : answers[g] # <<>> => arm[g].pc = "armed"
    /\ slot # NoSlot =>
          slot.arm \in Arms /\ arm[slot.arm].pc = "armed" /\ answers[slot.arm] = <<>>

\* The end and the error of a deck are fired when it is over.
FiredOver ==
    \A i \in DOMAIN transit : \A e \in transit[i] : e.kind # "tick" => Over(e.deck)

\* A deck that is not registered yet is not there to be mixed.
AbsentIdle == \A d \in Decks : stage[d] = "absent" => mode[d] = "pause"

\* The contract follows from these parts; FiredOver is what makes ArmNotLost hold
\* when a listener empties the slot.
IInv == TypeOK /\ ReportsFit /\ AnswersFit /\ FiredOver /\ AbsentIdle /\ ArmNotLost

-----------------------------------------------------------------------------
LEMMA NoneIsNoArm == None \notin Arms /\ NoSlot.arm = None /\ NoSlot.arm \notin Arms
  BY NoneAssumption DEF NoSlot

LEMMA TypeParts == TypeOK => DeckTypes /\ CmdTypes /\ ArmTypes /\ EventTypes
  BY DEF TypeOK, DeckTypes, CmdTypes, ArmTypes, EventTypes, Fires

LEMMA TypeFromParts == DeckTypes /\ CmdTypes /\ ArmTypes /\ EventTypes /\ AnswersFit => TypeOK
  BY NoneIsNoArm DEF TypeOK, DeckTypes, CmdTypes, ArmTypes, EventTypes, Fires, AnswersFit

LEMMA TypePartsNext ==
  DeckTypes' /\ CmdTypes' /\ ArmTypes' /\ EventTypes' /\ AnswersFit' => TypeOK'
  BY NoneIsNoArm DEF TypeOK, DeckTypes, CmdTypes, ArmTypes, EventTypes, Fires, AnswersFit

LEMMA SlotTypes ==
  /\ NoSlot \in [arm : Arms \cup {None}, last : Nat, queued : BOOLEAN]
  /\ \A g \in Arms, f \in Nat, q \in BOOLEAN :
        [arm |-> g, last |-> f, queued |-> q] \in [arm : Arms \cup {None}, last : Nat, queued : BOOLEAN]
  BY DEF NoSlot

LEMMA NoCommands == <<>> \in Seq({"play", "stop"} \cup Arms)
  OBVIOUS

LEMMA NoReports == <<>> \in Seq({"completed", "stopped", "errored"})
  OBVIOUS

LEMMA NoAnswers == <<>> \in Seq({"started", "late", "failed"})
  OBVIOUS

\* A command sent keeps the commands well typed and away from decks that are over.
LEMMA SendKeeps ==
  ASSUME CmdTypes, NEW d \in Decks, NEW c \in {"play", "stop"} \cup Arms
  PROVE  /\ Send(d, c) \in [Decks -> Seq({"play", "stop"} \cup Arms)]
         /\ \A e \in Decks : Over(e) => Send(d, c)[e] = <<>>
  BY DEF CmdTypes, Send

\* What a deck may fire in a frame.
LEMMA FiredType ==
  ASSUME DeckTypes, NEW d \in Decks, NEW m
  PROVE  Fired(d, m) \in SUBSET Fires
<1>1. frame \in Nat /\ NextFrame \in Nat
  BY RuntimeAssumption DEF DeckTypes, NextFrame
<1> QED BY <1>1 DEF Fired, Fires

\* A listener is taken out of the queue of the event task.
LEMMA FireKeeps ==
  ASSUME transit \in Seq(SUBSET Fires), transit # <<>>, NEW e \in transit[1], Fire(e)
  PROVE  /\ e \in Fires
         /\ transit' \in Seq(SUBSET Fires)
         /\ \A i \in DOMAIN transit' : \A x \in transit'[i] :
               \E j \in DOMAIN transit : x \in transit[j]
<1>1. 1 \in DOMAIN transit /\ transit[1] \in SUBSET Fires
  OBVIOUS
<1>2. CASE transit[1] = {e}
  <2>1. transit' = Tail(transit)
    BY <1>2 DEF Fire
  <2>2. \A i \in DOMAIN transit' : i + 1 \in DOMAIN transit /\ transit'[i] = transit[i + 1]
    BY <2>1
  <2> QED BY <1>1, <2>1, <2>2
<1>3. CASE transit[1] # {e}
  <2>1. transit' = [transit EXCEPT ![1] = @ \ {e}]
    BY <1>3 DEF Fire
  <2>2. transit[1] \ {e} \in SUBSET Fires
    BY <1>1
  <2>3. transit' \in Seq(SUBSET Fires)
    BY <2>1, <2>2
  <2>4. DOMAIN transit' = DOMAIN transit /\ \A i \in DOMAIN transit : transit'[i] \subseteq transit[i]
    BY <2>1
  <2> QED BY <1>1, <2>3, <2>4
<1> QED BY <1>2, <1>3

-----------------------------------------------------------------------------
\* What the event task is behind by at first are frames of the first deck.
LEMMA UnseenFrames ==
  ASSUME Init
  PROVE  /\ transit \in Seq(SUBSET Fires)
         /\ Len(transit) <= MaxLag + 1
         /\ \A i \in DOMAIN transit : \A e \in transit[i] :
               e.kind = "tick" /\ e.frame = Played - Len(transit) + i
<1>1. PICK k \in 0..(MaxLag + 1) : k <= Played /\ transit = Unseen(k)
  BY DEF Init
<1>2. k \in Nat /\ k <= MaxLag + 1 /\ Played \in Nat /\ First \in Decks
  BY <1>1, RuntimeAssumption
<1>3. \A i \in 1..k : {[deck |-> First, kind |-> "tick", frame |-> Played - k + i]} \in SUBSET Fires
  BY <1>1, <1>2 DEF Fires
<1>4. transit \in Seq(SUBSET Fires) /\ Len(transit) = k /\ DOMAIN transit = 1..k
  BY <1>1, <1>2, <1>3 DEF Unseen
<1>5. \A i \in 1..k : transit[i] = {[deck |-> First, kind |-> "tick", frame |-> Played - k + i]}
  BY <1>1 DEF Unseen
<1> QED BY <1>2, <1>4, <1>5

LEMMA InitIInv == Init => IInv
<1> SUFFICES ASSUME Init PROVE IInv
  OBVIOUS
<1>0. transit \in Seq(SUBSET Fires) /\ FiredOver
  BY UnseenFrames DEF FiredOver
<1> USE RuntimeAssumption DEF Init
<1>1. DeckTypes
  BY DEF DeckTypes, Modes
<1>2. CmdTypes
  BY NoCommands DEF CmdTypes
<1>3. ArmTypes
  BY DEF ArmTypes, NoSlot, Unasked, AnyDeck
<1>4. EventTypes
  BY <1>0, NoReports, NoAnswers DEF EventTypes
<1>5. ReportsFit /\ AnswersFit /\ AbsentIdle /\ ArmNotLost
  BY DEF ReportsFit, AnswersFit, AbsentIdle, ArmNotLost, Unasked
<1> QED BY <1>0, <1>1, <1>2, <1>3, <1>4, <1>5, TypeFromParts DEF IInv

\* register_track touches neither the armed starts nor the events.
LEMMA RegistrationKeeps ==
  ASSUME IInv, NEW d \in Decks, Register(d) \/ Registering(d)
  PROVE  IInv'
<1> USE DEF IInv
<1>0. DeckTypes /\ CmdTypes /\ ArmTypes /\ EventTypes
  BY TypeParts
<1>1. UNCHANGED <<frame, lifecycle, stopping, armVars, transit, reports, answers>>
  BY DEF Register, Registering, Listen, ListenForErrors, Ready
<1>2. DeckTypes'
  BY <1>0 DEF DeckTypes, Modes, Register, Registering, Listen, ListenForErrors, Ready
<1>3. ArmTypes' /\ EventTypes'
  BY <1>0, <1>1 DEF ArmTypes, EventTypes, armVars
<1>4. \A x \in Decks : Over(x) => Over(x)'
  BY <1>0 DEF Over, AbsentIdle, DeckTypes, Register, Registering, Listen, ListenForErrors, Ready
<1>5. CmdTypes'
  <2>1. CASE Register(d) \/ Listen(d) \/ ListenForErrors(d)
    <3>1. cmds' = cmds /\ \A x \in Decks : Over(x)' => Over(x)
      BY <1>0, <2>1 DEF Over, DeckTypes, Register, Listen, ListenForErrors
    <3> QED BY <1>0, <3>1 DEF CmdTypes
  <2>2. CASE Ready(d)
    <3>1. mode' = mode /\ (cmds' = cmds \/ cmds' = Send(d, "stop"))
      BY <2>2 DEF Ready
    <3> QED BY <1>0, <3>1, SendKeeps DEF CmdTypes, Over
  <2> QED BY <2>1, <2>2 DEF Registering
<1>6. ReportsFit' /\ AnswersFit'
  BY <1>1 DEF ReportsFit, AnswersFit, armVars
<1>7. FiredOver'
  <2>1. transit' = transit /\ \A i \in DOMAIN transit : \A e \in transit[i] : e.deck \in Decks
    BY <1>0, <1>1 DEF EventTypes, Fires
  <2> QED BY <1>4, <2>1 DEF FiredOver
<1>8. ArmNotLost'
  BY <1>1, <1>4, RuntimeAssumption DEF ArmNotLost, armVars
<1>9. AbsentIdle'
  BY <1>0 DEF AbsentIdle, DeckTypes, Register, Registering, Listen, ListenForErrors, Ready
<1> QED BY <1>2, <1>3, <1>5, <1>6, <1>7, <1>8, <1>9, TypePartsNext

\* The handle's operations.
LEMMA HandleKeeps ==
  ASSUME IInv, NEW d \in Decks, Resume(d) \/ RequestStop(d) \/ SendStop(d)
  PROVE  IInv'
<1> USE DEF IInv
<1>0. DeckTypes /\ CmdTypes /\ ArmTypes /\ EventTypes
  BY TypeParts
<1>1. UNCHANGED <<stage, mode, frame, arm, status, startedAt, transit, reports, answers>>
  BY DEF Resume, RequestStop, SendStop, armVars
<1>2. DeckTypes'
  BY <1>0, <1>1 DEF DeckTypes, Resume, RequestStop, SendStop
<1>3. CmdTypes'
  <2>1. cmds' = cmds \/ cmds' = Send(d, "play") \/ cmds' = Send(d, "stop")
    BY DEF Resume, RequestStop, SendStop
  <2> QED BY <1>0, <1>1, <2>1, SendKeeps DEF CmdTypes, Over
<1>4. slot' = slot \/ (slot' = NoSlot /\ d = First /\ SendStop(d))
  BY DEF Resume, RequestStop, SendStop, armVars, Disarmed
<1>5. ArmTypes'
  BY <1>0, <1>1, <1>4, SlotTypes DEF ArmTypes
<1>6. EventTypes'
  BY <1>0, <1>1 DEF EventTypes
<1>7. ReportsFit'
  <2>1. \A x \in Decks : lifecycle'[x] \in {"running", "stop_requested"}
           => lifecycle[x] \in {"running", "stop_requested"}
    BY <1>0 DEF DeckTypes, Resume, RequestStop, SendStop
  <2> QED BY <1>1, <2>1 DEF ReportsFit
<1>8. AnswersFit' /\ FiredOver' /\ AbsentIdle'
  BY <1>1, <1>4 DEF AnswersFit, FiredOver, AbsentIdle, Over
<1>9. ArmNotLost'
  <2>1. stopping[First] = "sent" => stopping'[First] = "sent"
    BY <1>0, RuntimeAssumption DEF DeckTypes, Resume, RequestStop, SendStop
  <2>2. SendStop(First) => stopping'[First] = "sent"
    BY <1>0, RuntimeAssumption DEF DeckTypes, SendStop
  <2>3. Over(First)' <=> Over(First)
    BY <1>1 DEF Over
  <2> QED BY <1>1, <1>4, <2>1, <2>2, <2>3 DEF ArmNotLost
<1> QED BY <1>2, <1>3, <1>5, <1>6, <1>7, <1>8, <1>9, TypePartsNext

\* arm_transition works on one arm, which is not accepted yet.
LEMMA ArmingKeeps ==
  ASSUME IInv, NEW g \in Arms,
         \/ \E in \in Decks \ {First}, target \in Targets : AskOutgoing(g, in, target)
         \/ Arming(g)
  PROVE  IInv'
<1> USE DEF IInv
<1>0. DeckTypes /\ CmdTypes /\ ArmTypes /\ EventTypes
  BY TypeParts
<1>1. UNCHANGED <<deckVars, status, startedAt, transit, reports, answers>>
  BY DEF Arming, AskOutgoing, AskIncoming, Arm
<1>2. arm[g].pc # "armed" /\ answers[g] = <<>> /\ (slot # NoSlot => slot.arm # g)
  <2>1. arm[g].pc # "armed"
    BY DEF Arming, AskOutgoing, AskIncoming, Arm
  <2> QED BY <2>1 DEF AnswersFit
<1>3. DeckTypes' /\ CmdTypes' /\ EventTypes'
  BY <1>0, <1>1 DEF DeckTypes, CmdTypes, EventTypes, deckVars, Over
<1>4. /\ arm' \in [Arms -> [pc : {"idle", "asked", "known", "armed", "refused"},
                            in : AnyDeck, target : Nat, at : Nat, playing : BOOLEAN]]
      /\ \A h \in Arms \ {g} : arm'[h] = arm[h]
  <2>1. frame \in Nat
    BY <1>0, RuntimeAssumption DEF DeckTypes
  <2>2. [Unasked EXCEPT !.pc = "refused"] \in
           [pc : {"idle", "asked", "known", "armed", "refused"},
            in : AnyDeck, target : Nat, at : Nat, playing : BOOLEAN]
    BY DEF Unasked, AnyDeck
  <2>3. CASE \E in \in Decks \ {First}, target \in Targets : AskOutgoing(g, in, target)
    <3>1. PICK in \in Decks \ {First}, target \in Targets : AskOutgoing(g, in, target)
      BY <2>3
    <3>2. [pc |-> "asked", in |-> in, target |-> target, at |-> frame, playing |-> mode[First] = "play"] \in
             [pc : {"idle", "asked", "known", "armed", "refused"},
              in : AnyDeck, target : Nat, at : Nat, playing : BOOLEAN]
      BY <2>1, RuntimeAssumption DEF AnyDeck
    <3>3. CASE Refuse(g)
      BY <1>0, <2>2, <3>3 DEF ArmTypes, Refuse
    <3>4. CASE arm' = [arm EXCEPT ![g] = [pc |-> "asked", in |-> in, target |-> target,
                                          at |-> frame, playing |-> mode[First] = "play"]]
      BY <1>0, <3>2, <3>4 DEF ArmTypes
    <3> QED BY <3>1, <3>3, <3>4 DEF AskOutgoing
  <2>4. CASE Arming(g)
    BY <1>0, <2>2, <2>4 DEF ArmTypes, Arming, AskIncoming, Arm, Refuse
  <2> QED BY <2>3, <2>4
<1>5. \/ slot' = slot /\ arm'[g].pc # "armed"
      \/ slot = NoSlot /\ slot' = [arm |-> g, last |-> arm[g].at, queued |-> FALSE]
         /\ arm'[g].pc = "armed"
  <2>1. CASE \E in \in Decks \ {First}, target \in Targets : AskOutgoing(g, in, target)
    BY <1>0, <2>1 DEF ArmTypes, AskOutgoing, Refuse, Unasked
  <2>2. CASE AskIncoming(g)
    BY <1>0, <2>2 DEF ArmTypes, AskIncoming, Refuse, Unasked
  <2>3. CASE Arm(g)
    BY <1>0, <2>3 DEF ArmTypes, Arm, Refuse, Unasked, SlotFree
  <2> QED BY <2>1, <2>2, <2>3 DEF Arming
<1>6. ArmTypes'
  <2>1. arm[g].at \in Nat
    BY <1>0 DEF ArmTypes
  <2>2. slot' \in [arm : Arms \cup {None}, last : Nat, queued : BOOLEAN]
    <3>1. CASE slot' = slot
      BY <1>0, <3>1 DEF ArmTypes
    <3>2. CASE slot' = [arm |-> g, last |-> arm[g].at, queued |-> FALSE]
      BY <2>1, <3>2, SlotTypes
    <3> QED BY <1>5, <3>1, <3>2
  <2> QED BY <1>0, <1>1, <1>4, <2>2 DEF ArmTypes
<1>7. ReportsFit' /\ FiredOver' /\ AbsentIdle'
  BY <1>1 DEF ReportsFit, FiredOver, AbsentIdle, Over, deckVars
<1>8. AnswersFit'
  BY <1>1, <1>2, <1>4, <1>5 DEF AnswersFit
<1>9. ArmNotLost'
  BY <1>1, <1>2, <1>4, <1>5, NoneIsNoArm DEF ArmNotLost, Over, deckVars
<1> QED BY <1>3, <1>6, <1>7, <1>8, <1>9, TypePartsNext

\* A mixed frame: decks only come to their end, and what they fire is of them.
LEMMA MixTickKeeps ==
  ASSUME IInv, MixTick
  PROVE  IInv'
<1> USE DEF IInv
<1>0. DeckTypes /\ CmdTypes /\ ArmTypes /\ EventTypes
  BY TypeParts
<1>1. UNCHANGED <<stage, lifecycle, stopping, slot, arm, reports, answers>>
  BY DEF MixTick
<1> DEFINE drained == [d \in Decks |-> IF stage[d] = "absent" THEN mode[d] ELSE Drained(d)]
           Mixed(m, d) == \/ m = drained[d]
                          \/ drained[d] = "play" /\ m = "end"
                          \/ (drained[d] = "play" \/ (stage[d] = "listening" /\ ~Over(d)))
                             /\ m = "error"
           batch == UNION {Fired(d, mode'[d]) : d \in Decks}
<1>2. /\ mode' \in [Decks -> Modes]
      /\ \A d \in Decks : Mixed(mode'[d], d)
      /\ transit' = IF batch = {} THEN transit ELSE Append(transit, batch)
      /\ cmds' = [d \in Decks |-> <<>>]
      /\ frame' = frame \/ frame' = NextFrame
  BY DEF MixTick, Modes
<1> HIDE DEF batch
<1>3. \A d \in Decks : Over(d) => mode'[d] = mode[d]
  BY <1>0, <1>2 DEF Over, Drained, CmdTypes
<1>4. \A d \in Decks : Over(d) => Over(d)'
  BY <1>3 DEF Over
<1>5. NextFrame \in 0..MaxFrame
  BY <1>0, RuntimeAssumption DEF NextFrame, DeckTypes
<1>6. DeckTypes'
  BY <1>0, <1>1, <1>2, <1>5 DEF DeckTypes
<1>7. CmdTypes'
  BY <1>2, NoCommands DEF CmdTypes
<1>8. ArmTypes'
  <2>1. /\ status' = [g \in Arms |-> IF RanOver(g) THEN "failed"
                                     ELSE IF Ran(g) THEN "started" ELSE status[g]]
        /\ startedAt' = [g \in Arms |-> IF Ran(g) THEN NextFrame ELSE startedAt[g]]
    BY DEF MixTick
  <2>2. NextFrame \in Nat
    BY <1>5, RuntimeAssumption
  <2> QED BY <1>0, <1>1, <2>1, <2>2 DEF ArmTypes
<1>9. batch \in SUBSET Fires
  BY <1>0, FiredType DEF batch
<1>10. EventTypes'
  BY <1>0, <1>1, <1>2, <1>9 DEF EventTypes
<1>11. ReportsFit' /\ AnswersFit'
  BY <1>1 DEF ReportsFit, AnswersFit
<1>12. \A e \in batch : e.kind # "tick" => Over(e.deck)'
  <2> SUFFICES ASSUME NEW d \in Decks, NEW e \in Fired(d, mode'[d]), e.kind # "tick"
               PROVE  Over(e.deck)'
    BY DEF batch
  <2> QED BY DEF Fired, Over
<1>13. FiredOver'
  <2> SUFFICES ASSUME NEW i \in DOMAIN transit', NEW e \in transit'[i], e.kind # "tick"
               PROVE  Over(e.deck)'
    BY DEF FiredOver
  <2>1. CASE i \in DOMAIN transit /\ transit'[i] = transit[i]
    BY <1>0, <1>4, <2>1 DEF FiredOver, EventTypes, Fires
  <2>2. CASE transit'[i] = batch
    BY <1>12, <2>2
  <2>3. transit \in Seq(SUBSET Fires)
    BY <1>0 DEF EventTypes
  <2> QED BY <1>2, <1>9, <2>1, <2>2, <2>3
<1>14. AbsentIdle'
  BY <1>1, <1>2 DEF AbsentIdle
<1>15. ArmNotLost'
  BY <1>1, <1>4, RuntimeAssumption DEF ArmNotLost
<1> QED BY <1>6, <1>7, <1>8, <1>10, <1>11, <1>13, <1>14, <1>15, TypePartsNext

\* What the notifier of the armed frame does: it leaves the start armed or
\* answers it.
LEMMA FrameSeenKeeps ==
  ASSUME IInv, NEW f \in Nat, FrameSeen(f), UNCHANGED mode
  PROVE  /\ CmdTypes'
         /\ slot' \in [arm : Arms \cup {None}, last : Nat, queued : BOOLEAN]
         /\ status' \in [Arms -> {"none", "pending", "started", "failed"}]
         /\ \/ answers' = answers /\ (slot' = slot \/ (slot # NoSlot /\ slot'.arm = slot.arm))
            \/ /\ slot # NoSlot
               /\ slot' = NoSlot
               /\ \E o \in {"started", "late", "failed"} :
                     answers' = [answers EXCEPT ![slot.arm] = Append(@, o)]
<1> USE DEF IInv
<1>0. DeckTypes /\ CmdTypes /\ ArmTypes /\ EventTypes
  BY TypeParts
<1> DEFINE g == slot.arm
           Answered == /\ slot # NoSlot
                       /\ \E o \in {"started", "late", "failed"} : Answer(g, o)
                       /\ UNCHANGED <<cmds, status>>
           Waiting == /\ slot # NoSlot
                      /\ slot' = [slot EXCEPT !.last = f]
                      /\ UNCHANGED <<cmds, status, answers>>
           Queued == /\ slot # NoSlot
                     /\ cmds' = Send(arm[g].in, g)
                     /\ ~Over(arm[g].in)
                     /\ status' = [status EXCEPT ![g] = "pending"]
                     /\ slot' = [slot EXCEPT !.last = f, !.queued = TRUE]
                     /\ UNCHANGED answers
<1>1. UNCHANGED <<slot, cmds, status, answers>> \/ Answered \/ Waiting \/ Queued
  BY DEF FrameSeen
<1>2. slot # NoSlot => g \in Arms /\ arm[g].in \in AnyDeck
  BY <1>0 DEF AnswersFit, ArmTypes
<1>3. CASE UNCHANGED <<slot, cmds, status, answers>>
  BY <1>0, <1>3 DEF CmdTypes, ArmTypes, Over
<1>4. CASE Answered
  BY <1>0, <1>4, SlotTypes DEF CmdTypes, ArmTypes, Over, Answer
<1>5. CASE Waiting
  BY <1>0, <1>5 DEF CmdTypes, ArmTypes, Over
<1>6. CASE Queued
  <2>1. slot' \in [arm : Arms \cup {None}, last : Nat, queued : BOOLEAN] /\ slot'.arm = slot.arm
    BY <1>0, <1>6 DEF ArmTypes
  <2>2. status' \in [Arms -> {"none", "pending", "started", "failed"}]
    BY <1>0, <1>2, <1>6 DEF ArmTypes
  <2>3. CmdTypes'
    <3>1. CASE arm[g].in \in Decks
      BY <1>0, <1>2, <1>6, <3>1, SendKeeps DEF CmdTypes, Over
    <3>2. CASE arm[g].in = None
      BY <1>0, <1>6, <3>2, NoneAssumption DEF CmdTypes, Over, Send
    <3> QED BY <1>2, <1>6, <3>1, <3>2 DEF AnyDeck
  <2> QED BY <1>6, <2>1, <2>2, <2>3
<1> QED BY <1>1, <1>3, <1>4, <1>5, <1>6

\* What the listeners of an error and of an end do.
LEMMA OverSeenKeeps ==
  ASSUME IInv, NEW d \in Decks, ErrorSeen(d) \/ EndSeen(d)
  PROVE  /\ slot' = slot \/ (slot' = NoSlot /\ d = First)
         /\ lifecycle' \in [Decks -> {"running", "stop_requested", "errored", "terminated"}]
         /\ \A x \in Decks : /\ reports'[x] = reports[x] \/ (reports[x] = <<>> /\ x = d)
                             /\ lifecycle'[x] \in {"running", "stop_requested"} =>
                                   reports'[x] = reports[x] /\ lifecycle'[x] = lifecycle[x]
         /\ \/ reports' = reports
            \/ \E o \in {"completed", "stopped", "errored"} : reports' = [reports EXCEPT ![d] = Append(@, o)]
<1> USE DEF IInv
<1>0. DeckTypes /\ EventTypes
  BY TypeParts
<1>1. slot' = slot \/ (slot' = NoSlot /\ d = First)
  BY DEF ErrorSeen, EndSeen, Disarmed
<1>2. lifecycle' \in [Decks -> {"running", "stop_requested", "errored", "terminated"}]
  BY <1>0 DEF DeckTypes, ErrorSeen, EndSeen
<1>3. reports \in [Decks -> Seq({"completed", "stopped", "errored"})]
  BY <1>0 DEF EventTypes
<1>4. \/ reports' = reports
      \/ /\ lifecycle[d] \in {"running", "stop_requested"}
         /\ \E o \in {"completed", "stopped", "errored"} :
               reports' = [reports EXCEPT ![d] = Append(@, o)]
  <2>1. CASE ErrorSeen(d)
    BY <2>1 DEF ErrorSeen
  <2>2. CASE EndSeen(d)
    <3> DEFINE r == reports[d]
    <3>1. r \in Seq({"completed", "stopped", "errored"})
      BY <1>3
    <3> HIDE DEF r
    <3>2. r \o <<"completed">> = Append(r, "completed") /\ r \o <<"stopped">> = Append(r, "stopped")
          /\ r \o <<>> = r
      BY <3>1
    <3>3. reports' = [reports EXCEPT ![d] = r \o FinishReason(lifecycle[d])]
      BY <2>2 DEF EndSeen, r
    <3>4. CASE lifecycle[d] \in {"running", "stop_requested"}
      <4>1. FinishReason(lifecycle[d]) \in {<<"completed">>, <<"stopped">>}
        BY <3>4 DEF FinishReason
      <4> QED BY <1>3, <3>2, <3>3, <3>4, <4>1 DEF r
    <3>5. CASE lifecycle[d] \notin {"running", "stop_requested"}
      <4>1. FinishReason(lifecycle[d]) = <<>>
        BY <3>5 DEF FinishReason
      <4> QED BY <1>3, <3>2, <3>3, <4>1 DEF r
    <3> QED BY <3>4, <3>5
  <2> QED BY <2>1, <2>2
<1>5. \/ lifecycle'[d] \notin {"running", "stop_requested"}
      \/ reports' = reports /\ lifecycle'[d] = lifecycle[d]
  <2>1. CASE ErrorSeen(d)
    <3>1. CASE lifecycle[d] = "running"
      <4>1. lifecycle' = [lifecycle EXCEPT ![d] = "errored"]
        BY <2>1, <3>1 DEF ErrorSeen
      <4>2. lifecycle'[d] = "errored"
        BY <1>0, <4>1 DEF DeckTypes
      <4> QED BY <4>2
    <3>2. CASE lifecycle[d] # "running"
      <4>1. lifecycle'[d] = lifecycle[d]
        BY <1>0, <2>1, <3>2 DEF DeckTypes, ErrorSeen
      <4>2. reports' = reports
        BY <2>1, <3>2 DEF ErrorSeen
      <4> QED BY <4>1, <4>2
    <3> QED BY <3>1, <3>2
  <2>2. CASE EndSeen(d)
    <3>1. lifecycle' = [lifecycle EXCEPT ![d] = "terminated"]
      BY <2>2 DEF EndSeen
    <3>2. lifecycle'[d] = "terminated"
      BY <1>0, <3>1 DEF DeckTypes
    <3> QED BY <3>2
  <2> QED BY <2>1, <2>2
<1>6. \A x \in Decks \ {d} : lifecycle'[x] = lifecycle[x]
  BY <1>0 DEF DeckTypes, ErrorSeen, EndSeen
<1>7. \A x \in Decks \ {d} : reports'[x] = reports[x]
  BY <1>3, <1>4
<1>8. reports'[d] = reports[d] \/ reports[d] = <<>>
  BY <1>4 DEF ReportsFit
<1> QED BY <1>1, <1>2, <1>4, <1>5, <1>6, <1>7, <1>8

\* The event task fires one listener.
LEMMA EventTaskKeeps ==
  ASSUME IInv, EventTask
  PROVE  IInv'
<1> USE DEF IInv
<1>0. DeckTypes /\ CmdTypes /\ ArmTypes /\ EventTypes
  BY TypeParts
<1>1. UNCHANGED <<stage, mode, frame, stopping, arm, startedAt>>
  BY DEF EventTask
<1>2. PICK e \in transit[1] :
         /\ transit # <<>>
         /\ Fire(e)
         /\ \/ e.kind = "tick" /\ FrameSeen(e.frame) /\ UNCHANGED <<lifecycle, reports>>
            \/ /\ e.kind = "error" /\ ErrorSeen(e.deck)
               /\ UNCHANGED <<cmds, status, answers>>
            \/ /\ e.kind = "end" /\ EndSeen(e.deck)
               /\ UNCHANGED <<cmds, status, answers>>
  BY DEF EventTask
<1>3. /\ e \in Fires
      /\ transit' \in Seq(SUBSET Fires)
      /\ \A i \in DOMAIN transit' : \A x \in transit'[i] :
            \E j \in DOMAIN transit : x \in transit[j]
  <2>1. transit \in Seq(SUBSET Fires)
    BY <1>0 DEF EventTypes
  <2> QED BY <1>2, <2>1, FireKeeps
<1>4. FiredOver' /\ AbsentIdle'
  BY <1>1, <1>3 DEF FiredOver, AbsentIdle, Over
<1>5. e.deck \in Decks /\ e.frame \in Nat /\ (e.kind # "tick" => Over(e.deck))
  <2>1. 1 \in DOMAIN transit
    BY <1>0, <1>2 DEF EventTypes
  <2> QED BY <1>2, <1>3, <2>1 DEF Fires, FiredOver
<1> SUFFICES /\ lifecycle' \in [Decks -> {"running", "stop_requested", "errored", "terminated"}]
             /\ CmdTypes' /\ ArmTypes'
             /\ reports' \in [Decks -> Seq({"completed", "stopped", "errored"})]
             /\ answers' \in [Arms -> Seq({"started", "late", "failed"})]
             /\ ReportsFit' /\ AnswersFit' /\ ArmNotLost'
  BY <1>0, <1>1, <1>3, <1>4, TypePartsNext DEF DeckTypes, EventTypes
<1>6. CASE e.kind = "tick" /\ FrameSeen(e.frame) /\ UNCHANGED <<lifecycle, reports>>
  <2>1. /\ CmdTypes'
        /\ slot' \in [arm : Arms \cup {None}, last : Nat, queued : BOOLEAN]
        /\ status' \in [Arms -> {"none", "pending", "started", "failed"}]
        /\ \/ answers' = answers /\ (slot' = slot \/ (slot # NoSlot /\ slot'.arm = slot.arm))
           \/ /\ slot # NoSlot
              /\ slot' = NoSlot
              /\ \E o \in {"started", "late", "failed"} :
                    answers' = [answers EXCEPT ![slot.arm] = Append(@, o)]
    BY <1>1, <1>5, <1>6, FrameSeenKeeps
  <2>2. ArmTypes'
    BY <1>0, <1>1, <2>1 DEF ArmTypes
  <2>3. answers' \in [Arms -> Seq({"started", "late", "failed"})]
    <3>1. answers \in [Arms -> Seq({"started", "late", "failed"})]
      BY <1>0 DEF EventTypes
    <3>2. \A o \in {"started", "late", "failed"} : slot # NoSlot =>
             Append(answers[slot.arm], o) \in Seq({"started", "late", "failed"})
      BY <3>1 DEF AnswersFit
    <3> HIDE DEF EventTypes
    <3> QED BY <2>1, <3>1, <3>2
  <2>4. ReportsFit'
    BY <1>6 DEF ReportsFit
  <2>5. AnswersFit' /\ ArmNotLost'
    <3>1. CASE answers' = answers /\ (slot' = slot \/ (slot # NoSlot /\ slot'.arm = slot.arm))
      BY <1>1, <3>1 DEF AnswersFit, ArmNotLost, Over
    <3>2. CASE /\ slot # NoSlot
               /\ slot' = NoSlot
               /\ \E o \in {"started", "late", "failed"} :
                     answers' = [answers EXCEPT ![slot.arm] = Append(@, o)]
      <4>1. answers \in [Arms -> Seq({"started", "late", "failed"})] /\ slot.arm \in Arms
        BY <1>0, <3>2 DEF EventTypes, AnswersFit
      <4>2. answers'[slot.arm] # <<>> /\ \A g \in Arms \ {slot.arm} : answers'[g] = answers[g]
        BY <3>2, <4>1
      <4> QED BY <1>1, <3>2, <4>1, <4>2 DEF AnswersFit, ArmNotLost, Over
    <3> QED BY <2>1, <3>1, <3>2
  <2> QED BY <1>6, <1>0, <2>1, <2>2, <2>3, <2>4, <2>5 DEF DeckTypes, EventTypes
<1>7. CASE (ErrorSeen(e.deck) \/ EndSeen(e.deck)) /\ UNCHANGED <<cmds, status, answers>> /\ e.kind # "tick"
  <2>1. /\ slot' = slot \/ (slot' = NoSlot /\ e.deck = First)
        /\ lifecycle' \in [Decks -> {"running", "stop_requested", "errored", "terminated"}]
        /\ \A x \in Decks : /\ reports'[x] = reports[x] \/ (reports[x] = <<>> /\ x = e.deck)
                            /\ lifecycle'[x] \in {"running", "stop_requested"} =>
                                  reports'[x] = reports[x] /\ lifecycle'[x] = lifecycle[x]
        /\ \/ reports' = reports
           \/ \E o \in {"completed", "stopped", "errored"} :
                 reports' = [reports EXCEPT ![e.deck] = Append(@, o)]
    BY <1>5, <1>7, OverSeenKeeps
  <2>2. CmdTypes'
    BY <1>0, <1>1, <1>7 DEF CmdTypes, Over
  <2>3. ArmTypes'
    BY <1>0, <1>1, <1>7, <2>1, SlotTypes DEF ArmTypes
  <2>4. reports' \in [Decks -> Seq({"completed", "stopped", "errored"})]
    BY <1>0, <2>1 DEF EventTypes
  <2>5. answers' \in [Arms -> Seq({"started", "late", "failed"})]
    BY <1>0, <1>7 DEF EventTypes
  <2>6. ReportsFit'
    BY <2>1 DEF ReportsFit
  <2>7. AnswersFit' /\ ArmNotLost'
    BY <1>1, <1>5, <1>7, <2>1 DEF AnswersFit, ArmNotLost, Over
  <2> QED BY <2>1, <2>2, <2>3, <2>4, <2>5, <2>6, <2>7
<1> QED BY <1>2, <1>6, <1>7

LEMMA IInvInductive == IInv /\ [Next]_vars => IInv'
<1> SUFFICES ASSUME IInv, [Next]_vars PROVE IInv'
  OBVIOUS
<1>1. CASE \E d \in Decks : Register(d) \/ Registering(d) \/ Resume(d) \/ RequestStop(d) \/ SendStop(d)
  BY <1>1, RegistrationKeeps, HandleKeeps
<1>2. CASE \E g \in Arms : \/ \E in \in Decks \ {First}, target \in Targets : AskOutgoing(g, in, target)
                           \/ Arming(g)
  BY <1>2, ArmingKeeps
<1>3. CASE MixTick
  BY <1>3, MixTickKeeps
<1>4. CASE EventTask
  BY <1>4, EventTaskKeeps
<1>5. CASE UNCHANGED vars
  <2>1. TypeOK'
    BY <1>5 DEF IInv, TypeOK, vars, deckVars, armVars, Over
  <2>2. ReportsFit' /\ AnswersFit' /\ FiredOver' /\ AbsentIdle' /\ ArmNotLost'
    BY <1>5 DEF IInv, ReportsFit, AnswersFit, FiredOver, AbsentIdle, ArmNotLost, vars,
                deckVars, armVars, Over
  <2> QED BY <2>1, <2>2 DEF IInv
<1> QED BY <1>1, <1>2, <1>3, <1>4, <1>5 DEF Next

-----------------------------------------------------------------------------
LEMMA IInvAlways == Spec => []IInv
  BY InitIInv, IInvInductive, PTL DEF Spec

\* Every variable of the runtime has its type, no command waits for a deck that is
\* over, and the start in the slot is an accepted one that is not answered yet.
THEOREM TypeCorrect == Spec => []TypeOK
  BY IInvAlways, PTL DEF IInv

\* An accepted arm is answered or armed as long as its deck plays and is not
\* stopped, whatever the listeners do in between.
THEOREM ArmIsNotLost == Spec => []ArmNotLost
  BY IInvAlways, PTL DEF IInv

-----------------------------------------------------------------------------
(* The refinement of DeckContract.                                         *)

Accepted == {g \in Arms : arm[g].pc = "armed"}

\* arm_transition accepts one arm, or none.
LEMMA ArmingAccepts ==
  ASSUME IInv, NEW g \in Arms,
         \/ \E in \in Decks \ {First}, target \in Targets : AskOutgoing(g, in, target)
         \/ Arming(g)
  PROVE  /\ UNCHANGED <<reports, answers>>
         /\ g \notin Accepted
         /\ Accepted' \in {Accepted, Accepted \cup {g}}
<1>1. UNCHANGED <<reports, answers>> /\ g \notin Accepted
  BY DEF Arming, AskOutgoing, AskIncoming, Arm, Accepted
<1>2. arm \in [Arms -> [pc : {"idle", "asked", "known", "armed", "refused"},
                        in : AnyDeck, target : Nat, at : Nat, playing : BOOLEAN]]
  BY DEF IInv, TypeOK
<1>3. \A h \in Arms \ {g} : arm'[h] = arm[h]
  BY <1>2 DEF Arming, AskOutgoing, AskIncoming, Arm, Refuse
<1> QED BY <1>1, <1>3 DEF Accepted

LEMMA ContractStep ==
  ASSUME IInv, [Next]_vars
  PROVE  [Contract!Next]_Contract!vars
<1> DEFINE Same == UNCHANGED <<reports, Accepted, answers>>
           Reported == \E d \in Decks : /\ reports[d] = <<>>
                                        /\ \E o \in {"completed", "stopped", "errored"} :
                                              reports' = [reports EXCEPT ![d] = <<o>>]
                                        /\ UNCHANGED <<Accepted, answers>>
           Accepting == \E g \in Arms : /\ g \notin Accepted
                                        /\ Accepted' = Accepted \cup {g}
                                        /\ UNCHANGED <<reports, answers>>
           Answering == \E g \in Arms : /\ g \in Accepted /\ answers[g] = <<>>
                                        /\ \E o \in {"started", "late", "failed"} :
                                              answers' = [answers EXCEPT ![g] = <<o>>]
                                        /\ UNCHANGED <<reports, Accepted>>
<1> SUFFICES Same \/ Reported \/ Accepting \/ Answering
  BY DEF Contract!Next, Contract!vars, Contract!Report, Contract!Accept, Contract!Answer,
         Contract!Reasons, Contract!Outcomes, Accepted
<1>1. CASE \E d \in Decks : Register(d) \/ Registering(d) \/ Resume(d) \/ RequestStop(d) \/ SendStop(d)
  <2>1. Same
    BY <1>1 DEF Register, Registering, Listen, ListenForErrors, Ready, Resume, RequestStop, SendStop, Accepted, armVars
  <2> QED BY <2>1
<1>2. CASE \E g \in Arms : \/ \E in \in Decks \ {First}, target \in Targets : AskOutgoing(g, in, target)
                           \/ Arming(g)
  <2>1. Same \/ Accepting
    BY <1>2, ArmingAccepts
  <2> QED BY <2>1
<1>3. CASE MixTick
  <2>1. Same
    BY <1>3 DEF MixTick, Accepted
  <2> QED BY <2>1
<1>4. CASE EventTask
  <2>0. UNCHANGED <<arm, Accepted, mode>> /\ DeckTypes /\ EventTypes
    BY <1>4, TypeParts DEF EventTask, Accepted, IInv
  <2>1. PICK e \in transit[1] :
         /\ transit # <<>>
         /\ \/ e.kind = "tick" /\ FrameSeen(e.frame) /\ UNCHANGED reports
            \/ (ErrorSeen(e.deck) \/ EndSeen(e.deck)) /\ UNCHANGED answers
    BY <1>4 DEF EventTask
  <2>2. 1 \in DOMAIN transit /\ e \in Fires
    BY <2>0, <2>1 DEF EventTypes
  <2>3. CASE e.kind = "tick" /\ FrameSeen(e.frame) /\ UNCHANGED reports
    <3>1. \/ answers' = answers
          \/ /\ slot # NoSlot
             /\ \E o \in {"started", "late", "failed"} :
                   answers' = [answers EXCEPT ![slot.arm] = Append(@, o)]
      <4>1. e.frame \in Nat
        BY <2>2 DEF Fires
      <4> QED BY <2>0, <2>3, <4>1, FrameSeenKeeps
    <3>2. slot # NoSlot => slot.arm \in Arms /\ slot.arm \in Accepted /\ answers[slot.arm] = <<>>
      BY DEF IInv, AnswersFit, Accepted
    <3>3. Same \/ Answering
      <4>1. CASE answers' = answers
        BY <2>0, <2>3, <4>1
      <4>2. ASSUME slot # NoSlot, NEW o \in {"started", "late", "failed"},
                   answers' = [answers EXCEPT ![slot.arm] = Append(@, o)]
            PROVE  Answering
        <5>1. answers' = [answers EXCEPT ![slot.arm] = <<o>>]
          <6>1. Append(<<>>, o) = <<o>> /\ answers[slot.arm] = <<>>
            BY <3>2, <4>2
          <6> QED BY <4>2, <6>1
        <5> QED BY <2>0, <2>3, <3>2, <4>2, <5>1
      <4> QED BY <3>1, <4>1, <4>2
    <3> QED BY <3>3
  <2>4. CASE (ErrorSeen(e.deck) \/ EndSeen(e.deck)) /\ UNCHANGED answers
    <3>1. e.deck \in Decks
      BY <2>2 DEF Fires
    <3>2. /\ reports'[e.deck] = reports[e.deck] \/ reports[e.deck] = <<>>
          /\ \/ reports' = reports
             \/ \E o \in {"completed", "stopped", "errored"} :
                   reports' = [reports EXCEPT ![e.deck] = Append(@, o)]
      BY <2>4, <3>1, OverSeenKeeps
    <3>3. reports \in [Decks -> Seq({"completed", "stopped", "errored"})]
      BY <2>0 DEF EventTypes
    <3>4. Same \/ Reported
      <4>1. CASE reports' = reports
        BY <2>0, <2>4, <4>1
      <4>2. ASSUME NEW o \in {"completed", "stopped", "errored"},
                   reports' = [reports EXCEPT ![e.deck] = Append(@, o)]
            PROVE  Reported
        <5>1. reports'[e.deck] = Append(reports[e.deck], o)
          BY <3>1, <3>3, <4>2
        <5>2. Append(reports[e.deck], o) # reports[e.deck]
          BY <3>1, <3>3
        <5>3. reports[e.deck] = <<>>
          BY <3>2, <5>1, <5>2
        <5>4. reports' = [reports EXCEPT ![e.deck] = <<o>>]
          BY <4>2, <5>3
        <5> QED BY <2>0, <2>4, <3>1, <5>3, <5>4
      <4> QED BY <3>2, <4>1, <4>2
    <3> QED BY <3>4
  <2> QED BY <2>1, <2>3, <2>4
<1>5. CASE UNCHANGED vars
  <2>1. Same
    BY <1>5 DEF vars, armVars, Accepted
  <2> QED BY <2>1
<1> QED BY <1>1, <1>2, <1>3, <1>4, <1>5 DEF Next

\* The runtime implements the contract the coordinator is written against: a deck
\* is reported over at most once and an armed start answered at most once, and only
\* when it was accepted.
THEOREM RuntimeKeepsContract == Spec => KeepsContract
<1>1. Init => Contract!Init
  BY DEF Init, Contract!Init, Unasked
<1>2. IInv /\ [Next]_vars => [Contract!Next]_Contract!vars
  BY ContractStep
<1> QED BY <1>1, <1>2, IInvAlways, PTL DEF Spec, KeepsContract, Contract!Spec

-----------------------------------------------------------------------------
(* No end is lost.                                                          *)

\* What the lifecycle says was reported, was.
Said == \A d \in Decks : lifecycle[d] \in {"errored", "terminated"} => reports[d] # <<>>

\* The end of d is still in the event task's queue.
Coming(d) == \E i \in DOMAIN transit : \E e \in transit[i] : e.deck = d /\ e.kind = "end"

\* A deck whose listeners are fired once it is over: those steps that mix or fire
\* nothing leave everything about ends alone.
LEMMA QuietKeepsEnds ==
  ASSUME IInv, Said, EndNotLost, UNCHANGED <<transit, reports>>,
         \A d \in Decks : stage'[d] = "registered" /\ Over(d)' => stage[d] = "registered" /\ Over(d),
         \A d \in Decks : lifecycle'[d] \in {"errored", "terminated"} => lifecycle'[d] = lifecycle[d]
  PROVE  Said' /\ EndNotLost'
  BY DEF Said, EndNotLost

LEMMA MixTickEnds ==
  ASSUME IInv, Said, EndNotLost, MixTick
  PROVE  Said' /\ EndNotLost'
<1>0. DeckTypes /\ CmdTypes /\ transit \in Seq(SUBSET Fires)
  BY TypeParts DEF IInv, EventTypes
<1>1. UNCHANGED <<stage, lifecycle, reports>>
  BY DEF MixTick
<1> DEFINE batch == UNION {Fired(d, mode'[d]) : d \in Decks}
<1>2. transit' = IF batch = {} THEN transit ELSE Append(transit, batch)
  BY DEF MixTick
<1>3. \A d \in Decks : mode'[d] \in Modes
  BY DEF MixTick, Modes
<1>4. ASSUME NEW d \in Decks, stage[d] = "registered", ~Over(d), Over(d)'
      PROVE  \E e \in batch : e.deck = d /\ e.kind = "end"
  <2>1. mode'[d] \in {"stop", "end", "error"} /\ Hears(d, "end")
    BY <1>4 DEF Over, Hears
  <2>2. [deck |-> d, kind |-> "end", frame |-> frame] \in Fired(d, mode'[d])
    BY <1>4, <2>1 DEF Fired
  <2> QED BY <2>2
<1>5. \A d \in Decks : Fired(d, mode'[d]) \in SUBSET Fires
  BY <1>0, FiredType
<1>6. batch \in SUBSET Fires
  BY <1>5
<1> HIDE DEF batch
<1>7. \A i \in DOMAIN transit : i \in DOMAIN transit' /\ transit'[i] = transit[i]
  BY <1>0, <1>2, <1>6
<1>8. batch # {} => \E i \in DOMAIN transit' : transit'[i] = batch
  BY <1>0, <1>2, <1>6
<1>9. ASSUME NEW d \in Decks, stage'[d] = "registered", Over(d)'
      PROVE  reports'[d] # <<>> \/ Coming(d)'
  <2>1. CASE Over(d)
    BY <1>1, <1>7, <1>9, <2>1 DEF EndNotLost, Coming
  <2>2. CASE ~Over(d)
    BY <1>1, <1>4, <1>8, <1>9, <2>2 DEF Coming
  <2> QED BY <2>1, <2>2
<1> QED BY <1>1, <1>9 DEF Said, EndNotLost, Coming

\* A listener that fires an end has it reported, unless it was reported before.
LEMMA EventTaskEnds ==
  ASSUME IInv, Said, EndNotLost, EventTask
  PROVE  Said' /\ EndNotLost'
<1>0. /\ DeckTypes /\ transit \in Seq(SUBSET Fires)
      /\ reports \in [Decks -> Seq({"completed", "stopped", "errored"})]
  BY TypeParts DEF IInv, EventTypes
<1>1. UNCHANGED <<stage, mode>>
  BY DEF EventTask
<1>2. PICK e \in transit[1] :
         /\ transit # <<>>
         /\ Fire(e)
         /\ \/ e.kind = "tick" /\ FrameSeen(e.frame) /\ UNCHANGED <<lifecycle, reports>>
            \/ e.kind = "error" /\ ErrorSeen(e.deck)
            \/ e.kind = "end" /\ EndSeen(e.deck)
  BY DEF EventTask
<1>3. 1 \in DOMAIN transit /\ e \in Fires /\ e.deck \in Decks
  BY <1>0, <1>2 DEF Fires
<1>4. \A i \in DOMAIN transit : \A x \in transit[i] \ {e} : \E j \in DOMAIN transit' : x \in transit'[j]
  <2>1. CASE transit[1] = {e}
    <3>1. transit' = Tail(transit)
      BY <1>2, <2>1 DEF Fire
    <3>2. \A i \in DOMAIN transit \ {1} : i - 1 \in DOMAIN transit' /\ transit'[i - 1] = transit[i]
      BY <1>0, <1>2, <3>1
    <3> QED BY <2>1, <3>2
  <2>2. CASE transit[1] # {e}
    <3>1. transit' = [transit EXCEPT ![1] = @ \ {e}]
      BY <1>2, <2>2 DEF Fire
    <3> QED BY <1>0, <3>1
  <2> QED BY <2>1, <2>2
<1>5. \A x \in Decks \ {e.deck} : lifecycle'[x] = lifecycle[x] /\ reports'[x] = reports[x]
  <2>1. CASE UNCHANGED <<lifecycle, reports>>
    BY <2>1
  <2>2. CASE ErrorSeen(e.deck)
    BY <1>0, <2>2 DEF DeckTypes, ErrorSeen
  <2>3. CASE EndSeen(e.deck)
    BY <1>0, <2>3 DEF DeckTypes, EndSeen
  <2> QED BY <1>2, <2>1, <2>2, <2>3
<1> DEFINE r == reports[e.deck]
<1>6. r \in Seq({"completed", "stopped", "errored"})
  BY <1>0, <1>3
<1>7. /\ r # <<>> => reports'[e.deck] # <<>>
      /\ lifecycle'[e.deck] \in {"errored", "terminated"} => reports'[e.deck] # <<>>
      /\ e.kind = "end" => reports'[e.deck] # <<>>
  <2>1. CASE e.kind = "tick" /\ UNCHANGED <<lifecycle, reports>>
    BY <1>3, <2>1 DEF Said
  <2>2. CASE e.kind = "error" /\ ErrorSeen(e.deck)
    <3>1. CASE lifecycle[e.deck] = "running"
      <4>1. reports'[e.deck] = Append(r, "errored")
        BY <1>0, <1>3, <2>2, <3>1 DEF ErrorSeen
      <4>2. Append(r, "errored") # <<>>
        BY <1>6
      <4> QED BY <2>2, <4>1, <4>2
    <3>2. CASE lifecycle[e.deck] # "running"
      <4>1. reports' = reports /\ lifecycle'[e.deck] = lifecycle[e.deck]
        BY <1>0, <1>3, <2>2, <3>2 DEF DeckTypes, ErrorSeen
      <4> QED BY <1>3, <2>2, <4>1 DEF Said
    <3> QED BY <3>1, <3>2
  <2>3. CASE e.kind = "end" /\ EndSeen(e.deck)
    <3>1. reports'[e.deck] = r \o FinishReason(lifecycle[e.deck])
      BY <1>0, <1>3, <2>3 DEF EndSeen
    <3>2. r \o <<"completed">> # <<>> /\ r \o <<"stopped">> # <<>> /\ r \o <<>> = r
      BY <1>6
    <3>3. lifecycle[e.deck] \in {"running", "stop_requested", "errored", "terminated"}
      BY <1>0, <1>3 DEF DeckTypes
    <3>4. lifecycle[e.deck] \in {"errored", "terminated"} => r # <<>>
      BY <1>3 DEF Said
    <3> HIDE DEF r
    <3>5. reports'[e.deck] # <<>>
      BY <3>1, <3>2, <3>3, <3>4 DEF FinishReason
    <3> QED BY <3>5
  <2> QED BY <1>2, <2>1, <2>2, <2>3
<1> HIDE DEF r
<1>8. Said'
  BY <1>5, <1>7 DEF Said
<1>9. ASSUME NEW d \in Decks, stage'[d] = "registered", Over(d)', reports'[d] = <<>>
      PROVE  Coming(d)'
  <2>1. reports[d] = <<>> /\ ~(e.deck = d /\ e.kind = "end")
    BY <1>5, <1>7, <1>9 DEF r
  <2>2. PICK i \in DOMAIN transit : \E x \in transit[i] : x.deck = d /\ x.kind = "end"
    BY <1>1, <1>9, <2>1 DEF EndNotLost, Over
  <2>3. PICK x \in transit[i] : x.deck = d /\ x.kind = "end"
    BY <2>2
  <2> QED BY <1>4, <2>1, <2>2, <2>3 DEF Coming
<1> QED BY <1>8, <1>9 DEF EndNotLost, Coming

LEMMA EndsStep == IInv /\ Said /\ EndNotLost /\ [Next]_vars => (Said /\ EndNotLost)'
<1> SUFFICES ASSUME IInv, Said, EndNotLost, [Next]_vars PROVE (Said /\ EndNotLost)'
  OBVIOUS
<1>0. DeckTypes
  BY TypeParts DEF IInv
<1>1. ASSUME NEW d \in Decks, Register(d) \/ Registering(d) PROVE (Said /\ EndNotLost)'
  <2>1. UNCHANGED <<lifecycle, transit, reports>>
    BY <1>1 DEF Register, Registering, Listen, ListenForErrors, Ready
  <2>2. \A x \in Decks : stage'[x] = "registered" /\ Over(x)' => stage[x] = "registered" /\ Over(x)
    BY <1>0, <1>1 DEF DeckTypes, Over, Register, Registering, Listen, ListenForErrors, Ready
  <2> QED BY <2>1, <2>2, QuietKeepsEnds
<1>2. ASSUME NEW d \in Decks, Resume(d) \/ RequestStop(d) \/ SendStop(d) PROVE (Said /\ EndNotLost)'
  <2>1. UNCHANGED <<stage, mode, transit, reports>>
    BY <1>2 DEF Resume, RequestStop, SendStop
  <2>2. \A x \in Decks : lifecycle'[x] \in {"errored", "terminated"} => lifecycle'[x] = lifecycle[x]
    BY <1>0, <1>2 DEF DeckTypes, Resume, RequestStop, SendStop
  <2> QED BY <2>1, <2>2, QuietKeepsEnds DEF Over
<1>3. ASSUME NEW g \in Arms, \/ \E in \in Decks \ {First}, target \in Targets : AskOutgoing(g, in, target)
                             \/ Arming(g)
      PROVE  (Said /\ EndNotLost)'
  <2>1. UNCHANGED <<stage, mode, lifecycle, transit, reports>>
    BY <1>3 DEF AskOutgoing, Arming, AskIncoming, Arm, deckVars
  <2> QED BY <2>1, QuietKeepsEnds DEF Over
<1>4. CASE UNCHANGED vars
  <2>1. UNCHANGED <<stage, mode, lifecycle, transit, reports>>
    BY <1>4 DEF vars, deckVars
  <2> QED BY <2>1, QuietKeepsEnds DEF Over
<1> QED BY <1>1, <1>2, <1>3, <1>4, MixTickEnds, EventTaskEnds DEF Next

\* A deck that was handed out does not end unnoticed, whatever stops, errors and
\* ends fall together and however far the event task is behind.
THEOREM EndIsNotLost == Spec => []EndNotLost
<1>1. Init => Said /\ EndNotLost
  BY DEF Init, Said, EndNotLost, Over
<1> QED BY <1>1, EndsStep, IInvAlways, PTL DEF Spec

-----------------------------------------------------------------------------
(* Starts are on time.                                                      *)

Tick(e) == e.kind = "tick"

\* The event task is behind by no more frames than are in its queue.
TicksFit ==
    /\ Len(transit) <= MaxLag + 1
    /\ \A i \in DOMAIN transit : \A e \in transit[i] : Tick(e) =>
          e.frame <= frame /\ frame <= e.frame + (Len(transit) - i)

\* A start is queued once, when its trigger frame has been mixed.
CmdsFit ==
    \A d \in Decks : \A i \in DOMAIN cmds[d] : cmds[d][i] \in Arms =>
        status[cmds[d][i]] = "pending" /\ arm[cmds[d][i]].target <= frame + 1

ArmsFit ==
    \A g \in Arms :
        /\ status[g] # "none" => arm[g].pc = "armed"
        /\ arm[g].pc \in {"asked", "known", "armed"} => arm[g].target \in Targets
        /\ Started(g) => status[g] = "started"

\* A started deck did not start early, nor later than the frames the event task is
\* still to see allow.
StartsFit ==
    \A g \in Arms : status[g] = "started" =>
        /\ arm[g].target <= startedAt[g]
        /\ startedAt[g] <= NextFrame
        /\ \A i \in DOMAIN transit : \A e \in transit[i] : Tick(e) =>
              startedAt[g] + i <= e.frame + MaxLag + 1

TimeInv == TicksFit /\ CmdsFit /\ ArmsFit /\ StartsFit /\ StartsOnTime

LEMMA TimeTypes ==
  ASSUME IInv
  PROVE  /\ frame \in Nat /\ frame <= MaxFrame
         /\ NextFrame \in Nat /\ frame <= NextFrame /\ NextFrame <= frame + 1
         /\ MaxLag \in Nat /\ MaxFrame \in Nat
         /\ transit \in Seq(SUBSET Fires)
         /\ cmds \in [Decks -> Seq({"play", "stop"} \cup Arms)]
         /\ status \in [Arms -> {"none", "pending", "started", "failed"}]
         /\ startedAt \in [Arms -> Nat]
         /\ answers \in [Arms -> Seq({"started", "late", "failed"})]
         /\ arm \in [Arms -> [pc : {"idle", "asked", "known", "armed", "refused"},
                              in : AnyDeck, target : Nat, at : Nat, playing : BOOLEAN]]
<1>1. DeckTypes /\ CmdTypes /\ ArmTypes /\ EventTypes
  BY TypeParts DEF IInv
<1>2. frame \in Nat /\ frame <= MaxFrame /\ MaxLag \in Nat /\ MaxFrame \in Nat
  BY <1>1, RuntimeAssumption DEF DeckTypes
<1>3. NextFrame \in Nat /\ frame <= NextFrame /\ NextFrame <= frame + 1
  BY <1>2 DEF NextFrame
<1> QED BY <1>1, <1>2, <1>3 DEF CmdTypes, ArmTypes, EventTypes

\* Registration and handle send plain commands and touch nothing else of a start.
LEMMA PlainKeepsTime ==
  ASSUME IInv, TimeInv, UNCHANGED <<frame, arm, status, startedAt, transit, answers>>,
         \/ cmds' = cmds
         \/ \E d \in Decks : \E c \in {"play", "stop"} : cmds' = Send(d, c)
  PROVE  TimeInv'
<1>0. cmds \in [Decks -> Seq({"play", "stop"} \cup Arms)]
  BY TimeTypes
<1>1. TicksFit' /\ ArmsFit' /\ StartsFit' /\ StartsOnTime'
  BY DEF TimeInv, TicksFit, ArmsFit, StartsFit, StartsOnTime, Started, NextFrame
<1>2. CmdsFit'
  <2>1. CASE cmds' = cmds
    BY <2>1 DEF TimeInv, CmdsFit
  <2>2. ASSUME NEW d \in Decks, NEW c \in {"play", "stop"}, cmds' = Send(d, c), cmds' # cmds
        PROVE  CmdsFit'
    <3>1. cmds' = [cmds EXCEPT ![d] = Append(@, c)] /\ c \notin Arms
      BY <2>2, RuntimeAssumption DEF Send
    <3>2. \A x \in Decks : \A i \in DOMAIN cmds'[x] :
             cmds'[x][i] = c \/ (i \in DOMAIN cmds[x] /\ cmds'[x][i] = cmds[x][i])
      BY <1>0, <3>1
    <3> QED BY <3>1, <3>2 DEF TimeInv, CmdsFit
  <2> QED BY <2>1, <2>2
<1> QED BY <1>1, <1>2 DEF TimeInv

\* An arm is asked for and accepted before anything is queued for it.
LEMMA ArmingKeepsTime ==
  ASSUME IInv, TimeInv, NEW g \in Arms,
         \/ \E in \in Decks \ {First}, target \in Targets : AskOutgoing(g, in, target)
         \/ Arming(g)
  PROVE  TimeInv'
<1>0. arm \in [Arms -> [pc : {"idle", "asked", "known", "armed", "refused"},
                        in : AnyDeck, target : Nat, at : Nat, playing : BOOLEAN]]
  BY TimeTypes
<1>1. UNCHANGED <<frame, cmds, status, startedAt, transit, answers>> /\ arm[g].pc # "armed"
  BY DEF Arming, AskOutgoing, AskIncoming, Arm, deckVars
<1>2. \A h \in Arms \ {g} : arm'[h] = arm[h]
  BY <1>0 DEF Arming, AskOutgoing, AskIncoming, Arm, Refuse
<1>3. arm'[g].pc \in {"asked", "known", "armed"} => arm'[g].target \in Targets
  <2>1. ASSUME NEW in \in Decks \ {First}, NEW target \in Targets, AskOutgoing(g, in, target)
        PROVE  arm'[g].pc \in {"asked", "known", "armed"} => arm'[g].target \in Targets
    BY <1>0, <2>1 DEF AskOutgoing, Refuse, Unasked
  <2>2. CASE AskIncoming(g)
    BY <1>0, <2>2 DEF AskIncoming, Refuse, Unasked, TimeInv, ArmsFit
  <2>3. CASE Arm(g)
    BY <1>0, <2>3 DEF Arm, Refuse, Unasked, TimeInv, ArmsFit
  <2> QED BY <2>1, <2>2, <2>3 DEF Arming
<1>4. status[g] = "none" /\ ~Started(g)
  BY <1>1 DEF TimeInv, ArmsFit
<1>5. ArmsFit' /\ CmdsFit'
  BY <1>1, <1>2, <1>3, <1>4 DEF TimeInv, ArmsFit, CmdsFit, Started
<1>6. TicksFit' /\ StartsFit' /\ StartsOnTime'
  BY <1>1, <1>2, <1>4 DEF TimeInv, TicksFit, StartsFit, StartsOnTime, Started, NextFrame
<1> QED BY <1>5, <1>6 DEF TimeInv

\* The mixer starts what is queued in the frame after it was queued.
LEMMA MixTickKeepsTime ==
  ASSUME IInv, TimeInv, MixTick
  PROVE  TimeInv'
<1>0. /\ frame \in Nat /\ frame <= MaxFrame
      /\ NextFrame \in Nat /\ frame <= NextFrame /\ NextFrame <= frame + 1
      /\ MaxLag \in Nat /\ MaxFrame \in Nat
      /\ transit \in Seq(SUBSET Fires)
      /\ status \in [Arms -> {"none", "pending", "started", "failed"}]
      /\ startedAt \in [Arms -> Nat]
  BY TimeTypes
<1> DEFINE batch == UNION {Fired(d, mode'[d]) : d \in Decks}
<1>1. /\ UNCHANGED <<arm, answers>>
      /\ Len(transit) <= MaxLag
      /\ transit' = IF batch = {} THEN transit ELSE Append(transit, batch)
      /\ frame' = IF mode'[First] = "play" THEN NextFrame ELSE frame
      /\ cmds' = [d \in Decks |-> <<>>]
      /\ status' = [g \in Arms |-> IF RanOver(g) THEN "failed"
                                   ELSE IF Ran(g) THEN "started" ELSE status[g]]
      /\ startedAt' = [g \in Arms |-> IF Ran(g) THEN NextFrame ELSE startedAt[g]]
  BY DEF MixTick
<1>2. \A e \in batch : Tick(e) => e.frame = NextFrame /\ frame' = NextFrame
  <2> SUFFICES ASSUME NEW d \in Decks, NEW e \in Fired(d, mode'[d]), Tick(e)
               PROVE  e.frame = NextFrame /\ mode'[First] = "play"
    BY <1>1
  <2> QED BY DEF Fired, Tick
<1>3. mode'[First] = "play" => batch # {}
  <2>1. mode'[First] = "play"
          => [deck |-> First, kind |-> "tick", frame |-> NextFrame] \in Fired(First, mode'[First])
    BY DEF Fired
  <2> QED BY <2>1, RuntimeAssumption
<1>4. batch \in SUBSET Fires
  <2>1. DeckTypes
    BY TypeParts DEF IInv
  <2> QED BY <2>1, FiredType
<1> HIDE DEF batch
<1>5. /\ frame <= frame' /\ frame' <= NextFrame /\ NextFrame <= NextFrame'
      /\ frame' \in Nat /\ NextFrame' \in Nat
  BY <1>0, <1>1, RuntimeAssumption DEF NextFrame
<1>6. /\ Len(transit') \in Nat /\ Len(transit') <= MaxLag + 1 /\ Len(transit) <= Len(transit')
      /\ frame' # frame => Len(transit') = Len(transit) + 1
  BY <1>0, <1>1, <1>3, <1>4
<1>7. \A i \in DOMAIN transit' :
         \/ i \in DOMAIN transit /\ transit'[i] = transit[i]
         \/ i = Len(transit') /\ transit'[i] = batch
  BY <1>0, <1>1, <1>4
<1>8. \A i \in DOMAIN transit : i \in Nat /\ i <= Len(transit) /\ \A e \in transit[i] : e.frame \in Nat
  BY <1>0 DEF Fires
<1>9. TicksFit'
  <2> SUFFICES ASSUME NEW i \in DOMAIN transit', NEW e \in transit'[i], Tick(e)
               PROVE  e.frame <= frame' /\ frame' <= e.frame + (Len(transit') - i)
    BY <1>6 DEF TicksFit, Tick
  <2>1. CASE i \in DOMAIN transit /\ transit'[i] = transit[i]
    <3>1. e.frame <= frame /\ frame <= e.frame + (Len(transit) - i)
      BY <2>1 DEF TimeInv, TicksFit
    <3>2. /\ i \in Nat /\ e.frame \in Nat /\ Len(transit) \in Nat
          /\ frame' = frame \/ frame' = frame + 1
      BY <1>0, <1>5, <1>8, <2>1
    <3>3. CASE frame' = frame
      BY <1>0, <1>6, <3>1, <3>2, <3>3
    <3>4. CASE frame' # frame
      BY <1>0, <1>6, <3>1, <3>2, <3>4
    <3> QED BY <3>3, <3>4
  <2>2. CASE i = Len(transit') /\ transit'[i] = batch
    BY <1>0, <1>2, <1>6, <2>2
  <2> QED BY <1>7, <2>1, <2>2
<1>10. CmdsFit'
  BY <1>1 DEF CmdsFit
<1>11. \A g \in Arms : Ran(g) => /\ status[g] = "pending" /\ arm[g].target <= frame + 1
                                 /\ arm[g].pc = "armed" /\ arm[g].target \in Targets
  BY DEF Ran, TimeInv, CmdsFit, ArmsFit
<1>12. \A g \in Arms : RanOver(g) => Ran(g)
  BY DEF Ran, RanOver
<1>13. ArmsFit'
  BY <1>1, <1>11, <1>12 DEF TimeInv, ArmsFit, Started
<1>14. StartsOnTime'
  BY <1>0, <1>1, <1>11 DEF TimeInv, ArmsFit, StartsOnTime, Started
<1>15. StartsFit'
  <2> SUFFICES ASSUME NEW g \in Arms, status'[g] = "started"
               PROVE  /\ arm[g].target <= startedAt'[g]
                      /\ startedAt'[g] <= NextFrame'
                      /\ \A i \in DOMAIN transit' : \A e \in transit'[i] : Tick(e) =>
                            startedAt'[g] + i <= e.frame + MaxLag + 1
    BY <1>1 DEF StartsFit, Tick
  <2>1. startedAt'[g] \in Nat /\ startedAt'[g] <= NextFrame
    BY <1>0, <1>1 DEF TimeInv, StartsFit
  <2>2. arm[g].target <= startedAt'[g]
    <3>1. CASE Ran(g)
      <4>1. startedAt'[g] = NextFrame
        BY <1>1, <3>1
      <4>2. arm[g].target \in Nat /\ arm[g].target < MaxFrame
        <5>1. arm[g].target \in Targets
          BY <1>11, <3>1
        <5>2. arm[g].target \in Nat /\ MaxFrame > arm[g].target + 1 + MaxLag
          BY <5>1, RuntimeAssumption
        <5> QED BY <1>0, <5>2
      <4> QED BY <1>0, <1>11, <3>1, <4>1, <4>2 DEF NextFrame
    <3>2. CASE ~Ran(g)
      BY <1>1, <1>12, <3>2 DEF TimeInv, StartsFit
    <3> QED BY <3>1, <3>2
  <2>3. ASSUME NEW i \in DOMAIN transit', NEW e \in transit'[i], Tick(e)
        PROVE  startedAt'[g] + i <= e.frame + MaxLag + 1
    <3>1. CASE i \in DOMAIN transit /\ transit'[i] = transit[i]
      <4>1. e.frame \in Nat /\ i \in Nat /\ frame <= e.frame + (Len(transit) - i)
        BY <1>8, <2>3, <3>1 DEF TimeInv, TicksFit
      <4> QED BY <1>0, <1>1, <2>1, <4>1
    <3>2. CASE i = Len(transit') /\ transit'[i] = batch
      <4>1. e.frame = NextFrame
        BY <1>2, <2>3, <3>2
      <4> QED BY <1>0, <1>6, <2>1, <3>2, <4>1
    <3> QED BY <1>7, <3>1, <3>2
  <2> QED BY <1>0, <1>5, <2>1, <2>2, <2>3
<1> QED BY <1>9, <1>10, <1>13, <1>14, <1>15 DEF TimeInv

\* The event task queues a start or answers for it at the frame it sees.
LEMMA EventTaskKeepsTime ==
  ASSUME IInv, TimeInv, EventTask
  PROVE  TimeInv'
<1>0. /\ frame \in Nat /\ MaxLag \in Nat
      /\ transit \in Seq(SUBSET Fires)
      /\ cmds \in [Decks -> Seq({"play", "stop"} \cup Arms)]
      /\ status \in [Arms -> {"none", "pending", "started", "failed"}]
      /\ startedAt \in [Arms -> Nat]
      /\ answers \in [Arms -> Seq({"started", "late", "failed"})]
      /\ arm \in [Arms -> [pc : {"idle", "asked", "known", "armed", "refused"},
                           in : AnyDeck, target : Nat, at : Nat, playing : BOOLEAN]]
  BY TimeTypes
<1>1. UNCHANGED <<frame, arm, startedAt>>
  BY DEF EventTask
<1>2. PICK e \in transit[1] :
         /\ transit # <<>>
         /\ Fire(e)
         /\ \/ e.kind = "tick" /\ FrameSeen(e.frame)
            \/ UNCHANGED <<cmds, status, answers>>
  BY DEF EventTask
<1>3. 1 \in DOMAIN transit /\ e \in Fires
  BY <1>0, <1>2
<1>4. /\ Len(transit') \in Nat /\ Len(transit') <= Len(transit)
      /\ \A i \in DOMAIN transit' : \A x \in transit'[i] :
            \E j \in DOMAIN transit :
               x \in transit[j] /\ i <= j /\ Len(transit') - i = Len(transit) - j
  <2>1. CASE transit[1] = {e}
    <3>1. transit' = Tail(transit)
      BY <1>2, <2>1 DEF Fire
    <3>2. /\ Len(transit') = Len(transit) - 1
          /\ \A i \in DOMAIN transit' : /\ i + 1 \in DOMAIN transit /\ i <= i + 1
                                        /\ transit'[i] = transit[i + 1]
                                        /\ Len(transit') - i = Len(transit) - (i + 1)
      BY <1>0, <1>2, <3>1
    <3> QED BY <1>0, <1>2, <3>2
  <2>2. CASE transit[1] # {e}
    <3>1. transit' = [transit EXCEPT ![1] = @ \ {e}]
      BY <1>2, <2>2 DEF Fire
    <3>2. /\ Len(transit') = Len(transit)
          /\ \A i \in DOMAIN transit' : i \in DOMAIN transit /\ transit'[i] \subseteq transit[i]
      BY <1>0, <3>1
    <3> QED BY <1>0, <3>2
  <2> QED BY <2>1, <2>2
<1>5. \A i \in DOMAIN transit : i \in Nat /\ \A x \in transit[i] : x.frame \in Nat
  BY <1>0 DEF Fires
<1>6. TicksFit'
  <2> SUFFICES ASSUME NEW i \in DOMAIN transit', NEW x \in transit'[i], Tick(x)
               PROVE  x.frame <= frame /\ frame <= x.frame + (Len(transit') - i)
    BY <1>0, <1>1, <1>4 DEF TimeInv, TicksFit, Tick
  <2>1. PICK j \in DOMAIN transit : x \in transit[j] /\ Len(transit') - i = Len(transit) - j
    BY <1>4
  <2> QED BY <2>1 DEF TimeInv, TicksFit
<1>7. \A g \in Arms : status[g] = "started" =>
         \A i \in DOMAIN transit' : \A x \in transit'[i] : Tick(x) =>
            startedAt[g] + i <= x.frame + MaxLag + 1
  <2> SUFFICES ASSUME NEW g \in Arms, status[g] = "started",
                      NEW i \in DOMAIN transit', NEW x \in transit'[i], Tick(x)
               PROVE  startedAt[g] + i <= x.frame + MaxLag + 1
    OBVIOUS
  <2>1. PICK j \in DOMAIN transit : x \in transit[j] /\ i <= j
    BY <1>4
  <2>2. startedAt[g] + j <= x.frame + MaxLag + 1
    BY <2>1 DEF TimeInv, StartsFit
  <2>3. i \in Nat
    BY <1>4
  <2> QED BY <1>0, <1>5, <2>1, <2>2, <2>3
<1> DEFINE h == slot.arm
           f == e.frame
           Queued == /\ slot # NoSlot
                     /\ f >= arm[h].target - 1
                     /\ cmds' = Send(arm[h].in, h)
                     /\ status' = [status EXCEPT ![h] = "pending"]
                     /\ UNCHANGED answers
           Answered(o) == /\ slot # NoSlot
                          /\ answers' = [answers EXCEPT ![h] = Append(@, o)]
                          /\ UNCHANGED <<cmds, status>>
<1>8. \/ UNCHANGED <<cmds, status, answers>>
      \/ Tick(e) /\ Queued
      \/ \E o \in {"late", "failed"} : Answered(o)
      \/ Tick(e) /\ Answered("started") /\ status[h] = "started" /\ OnTime(f, arm[h].target)
  <2>1. CASE UNCHANGED <<cmds, status, answers>>
    BY <2>1
  <2>2. CASE e.kind = "tick" /\ FrameSeen(f)
    <3>1. f \in Nat
      BY <1>3 DEF Fires
    <3>2. slot # NoSlot => h \in Arms /\ arm[h].target \in Nat
      BY <1>0 DEF IInv, AnswersFit
    <3> QED BY <2>2, <3>1, <3>2 DEF FrameSeen, Answer, Tick, TriggerFrame
  <2> QED BY <1>2, <2>1, <2>2
<1>9. CASE UNCHANGED <<cmds, status, answers>>
  <2>1. CmdsFit' /\ ArmsFit' /\ StartsOnTime'
    BY <1>1, <1>9 DEF TimeInv, CmdsFit, ArmsFit, StartsOnTime, Started
  <2>2. StartsFit'
    BY <1>1, <1>7, <1>9 DEF TimeInv, StartsFit, NextFrame, Tick
  <2> QED BY <1>6, <2>1, <2>2 DEF TimeInv
<1>10. slot # NoSlot => h \in Arms /\ arm[h].pc = "armed" /\ answers[h] = <<>>
  BY DEF IInv, AnswersFit
<1>11. CASE Tick(e) /\ Queued
  <2>1. f \in Nat /\ f <= frame /\ arm[h].target \in Nat
    BY <1>0, <1>3, <1>10, <1>11 DEF Fires, TimeInv, TicksFit
  <2>2. \A d \in Decks : \A i \in DOMAIN cmds'[d] :
           cmds'[d][i] = h \/ (i \in DOMAIN cmds[d] /\ cmds'[d][i] = cmds[d][i])
    BY <1>0, <1>10, <1>11 DEF Send
  <2>3. CmdsFit'
    <3>1. status'[h] = "pending" /\ \A g \in Arms \ {h} : status'[g] = status[g]
      BY <1>0, <1>10, <1>11
    <3>2. arm[h].target <= frame + 1
      BY <1>0, <1>11, <2>1
    <3> QED BY <1>1, <2>2, <3>1, <3>2 DEF TimeInv, CmdsFit
  <2>4. ~Started(h)
    <3>1. <<>> # <<"started">>
      OBVIOUS
    <3>2. answers[h] = <<>>
      BY <1>10, <1>11
    <3> QED BY <3>1, <3>2 DEF Started
  <2>5. ArmsFit' /\ StartsOnTime'
    BY <1>0, <1>1, <1>10, <1>11, <2>4 DEF TimeInv, ArmsFit, StartsOnTime, Started
  <2>6. StartsFit'
    BY <1>0, <1>1, <1>7, <1>10, <1>11 DEF TimeInv, StartsFit, NextFrame, Tick
  <2> QED BY <1>6, <2>3, <2>5, <2>6 DEF TimeInv
<1>12. ASSUME NEW o \in {"started", "late", "failed"}, Answered(o),
              o = "started" => Tick(e) /\ status[h] = "started" /\ OnTime(f, arm[h].target)
       PROVE  TimeInv'
  <2>1. answers'[h] = <<o>> /\ \A g \in Arms \ {h} : answers'[g] = answers[g]
    <3>1. Append(<<>>, o) = <<o>>
      OBVIOUS
    <3> QED BY <1>0, <1>10, <1>12, <3>1
  <2>2. \A g \in Arms : Started(g)' => Started(g) \/ (g = h /\ o = "started")
    BY <2>1 DEF Started
  <2>3. o = "started" => startedAt[h] \in arm[h].target .. (arm[h].target + 1 + MaxLag)
    <3> SUFFICES ASSUME o = "started" PROVE startedAt[h] \in arm[h].target .. (arm[h].target + 1 + MaxLag)
      OBVIOUS
    <3>1. /\ f \in Nat /\ startedAt[h] \in Nat /\ arm[h].target \in Nat
          /\ f <= arm[h].target + 1
      BY <1>0, <1>3, <1>10, <1>12 DEF Fires, OnTime
    <3>2. arm[h].target <= startedAt[h] /\ startedAt[h] + 1 <= f + MaxLag + 1
      BY <1>3, <1>10, <1>12 DEF TimeInv, StartsFit
    <3> QED BY <1>0, <3>1, <3>2
  <2>4. CmdsFit' /\ ArmsFit' /\ StartsOnTime'
    BY <1>1, <1>12, <2>2, <2>3 DEF TimeInv, CmdsFit, ArmsFit, StartsOnTime
  <2>5. StartsFit'
    BY <1>1, <1>7, <1>12 DEF TimeInv, StartsFit, NextFrame, Tick
  <2> QED BY <1>6, <2>4, <2>5 DEF TimeInv
<1> QED BY <1>8, <1>9, <1>11, <1>12

LEMMA TimeStep == IInv /\ TimeInv /\ [Next]_vars => TimeInv'
<1> SUFFICES ASSUME IInv, TimeInv, [Next]_vars PROVE TimeInv'
  OBVIOUS
<1>1. ASSUME NEW d \in Decks,
             Register(d) \/ Registering(d) \/ Resume(d) \/ RequestStop(d) \/ SendStop(d)
      PROVE  TimeInv'
  <2>1. UNCHANGED <<frame, arm, status, startedAt, transit, answers>>
    BY <1>1 DEF Register, Registering, Listen, ListenForErrors, Ready, Resume, RequestStop,
                SendStop, armVars
  <2>2. cmds' = cmds \/ \E c \in {"play", "stop"} : cmds' = Send(d, c)
    BY <1>1 DEF Register, Registering, Listen, ListenForErrors, Ready, Resume, RequestStop,
                SendStop
  <2> QED BY <2>1, <2>2, PlainKeepsTime
<1>2. CASE UNCHANGED vars
  <2>1. UNCHANGED <<frame, cmds, arm, status, startedAt, transit, answers>>
    BY <1>2 DEF vars, deckVars, armVars
  <2> QED BY <2>1, PlainKeepsTime
<1> QED BY <1>1, <1>2, ArmingKeepsTime, MixTickKeepsTime, EventTaskKeepsTime DEF Next

\* A start announced as started was never early, and late by no more than the skew
\* the code allows and the lag of the event task, for any target frames, any number
\* of arms and any lag.
THEOREM StartsAreOnTime == Spec => []StartsOnTime
<1>1. Init => TimeInv
  <2> SUFFICES ASSUME Init PROVE TimeInv
    OBVIOUS
  <2>1. Len(transit) \in Nat /\ DOMAIN transit = 1..Len(transit)
    BY UnseenFrames
  <2>2. TicksFit
    BY <2>1, UnseenFrames, RuntimeAssumption DEF TicksFit, Init
  <2>3. CmdsFit /\ ArmsFit /\ StartsFit /\ StartsOnTime
    BY DEF Init, CmdsFit, ArmsFit, StartsFit, StartsOnTime, Started, Unasked
  <2> QED BY <2>2, <2>3 DEF TimeInv
<1>2. TimeInv => StartsOnTime
  BY DEF TimeInv
<1> QED BY <1>1, <1>2, TimeStep, IInvAlways, PTL DEF Spec
=============================================================================
