----------------------- MODULE EventDeliveryProofs -----------------------
(***************************************************************************)
(* The runtime events of a guild are handled one at a time, for any number  *)
(* of guilds, events, workers and permits and any capacities: a worker that *)
(* serves is the one in the map.                                            *)
(***************************************************************************)
EXTENDS EventDelivery, SequenceTheorems, FiniteSetTheorems, TLAPS

Inv == Shape /\ HoldsOne /\ ServingIsMapped

\* What a task took out of its mailbox is an event of a known guild.
LEMMA HeldEvent ==
  ASSUME Shape, HoldsOne, NEW t \in Tasks,
         phase[t] \in Routing \cup {"permit", "handling"}
  PROVE  Head(holding[t]) \in Events /\ Head(holding[t]).guild \in Guilds
<1>1. holding[t] \in Seq(Events)
  BY DEF Shape
<1>2. Len(holding[t]) = 1
  BY DEF HoldsOne
<1>3. Head(holding[t]) \in Events
  BY <1>1, <1>2
<1> QED
  BY <1>3, EventsAssumption

LEMMA NothingHeld == << >> \in Seq(Events) /\ Len(<< >>) = 0
  OBVIOUS

\* Neither way of adding to a mailbox leaves its type.
LEMMA PutType ==
  ASSUME Shape, NEW t \in Tasks, NEW e \in Events, NEW capacity,
         PutMain(t, e) \/ PutOverflow(t, e, capacity)
  PROVE  mailbox' \in [Tasks -> [main : Seq(Events), overflow : Seq(Events), notified : BOOLEAN]]
<1> DEFINE Box == [main : Seq(Events), overflow : Seq(Events), notified : BOOLEAN]
<1>1. mailbox \in [Tasks -> Box] /\ mailbox[t] \in Box
  BY DEF Shape
<1>2. Append(mailbox[t].main, e) \in Seq(Events) /\ Append(mailbox[t].overflow, e) \in Seq(Events)
  BY <1>1
<1>3. CASE PutMain(t, e)
  BY <1>1, <1>2, <1>3 DEF PutMain
<1>4. CASE PutOverflow(t, e, capacity)
  <2> DEFINE Long == IF ~Listed(mailbox[t].overflow, e) /\ Len(mailbox[t].overflow) < capacity
                       THEN Append(mailbox[t].overflow, e) ELSE mailbox[t].overflow
  <2>1. Long \in Seq(Events)
    BY <1>1, <1>2
  <2>2. mailbox' = [mailbox EXCEPT ![t] = [mailbox[t] EXCEPT !.notified = TRUE, !.overflow = Long]]
    BY <1>1, <1>4 DEF PutOverflow
  <2> HIDE DEF Long
  <2> QED
    BY <1>1, <2>1, <2>2
<1> QED
  BY <1>3, <1>4

\* The map and the phases of the workers decide ServingIsMapped: nothing else
\* disturbs it, and a worker may move between the phases it serves in.
LEMMA MappedFrame ==
  ASSUME ServingIsMapped, UNCHANGED <<serves, entry>>,
         \A w \in Workers :
           /\ phase'[w] \in Serving => phase[w] \in Serving
           /\ phase'[w] = "unborn" <=> phase[w] = "unborn"
  PROVE  ServingIsMapped'
BY DEF ServingIsMapped

LEMMA SendStep ==
  ASSUME Inv, NEW e \in Events, Send(e) \/ Spill(e)
  PROVE  Inv'
<1>1. e \in Events /\ Router \in Tasks
  BY DEF Tasks
<1>2. owed' \subseteq Identities
  BY DEF Inv, Shape, Send, Spill, Accept, Identities
<1>3. mailbox' \in [Tasks -> [main : Seq(Events), overflow : Seq(Events), notified : BOOLEAN]]
  BY <1>1, PutType DEF Inv, Shape, Send, Spill
<1>4. UNCHANGED <<phase, holding, serves, entry, warned>> /\ spilling' \subseteq Events
  BY DEF Inv, Shape, Send, Spill
<1> QED
  BY <1>2, <1>3, <1>4 DEF Inv, Shape, HoldsOne, ServingIsMapped

LEMMA ReceiveStep ==
  ASSUME Inv, NEW t \in Tasks, Receive(t)
  PROVE  Inv'
<1> DEFINE Box == [main : Seq(Events), overflow : Seq(Events), notified : BOOLEAN]
<1>1. /\ mailbox \in [Tasks -> Box] /\ mailbox[t] \in Box
      /\ phase \in [Tasks -> Phases] /\ holding \in [Tasks -> Seq(Events)]
  BY DEF Inv, Shape
<1>2. UNCHANGED <<serves, entry, spilling, owed, warned>>
  BY DEF Receive
<1>3. /\ phase[t] \in Polling
      /\ phase' = [phase EXCEPT ![t] = phase'[t]]
      /\ phase'[t] \in Polling \cup {Received(t)}
  BY <1>1 DEF Receive, TakeMain, TakeOverflow, MainIsEmpty, OverflowIsEmpty, Woken, Polling
<1>4. Received(t) \in {"route", "permit"} /\ (t \in Workers => Received(t) = "permit")
  BY DEF Received, Router, Workers
<1>5. phase' \in [Tasks -> Phases]
  BY <1>1, <1>3, <1>4 DEF Phases, Polling, Serving, Routing
<1>6. /\ mailbox' \in [Tasks -> Box] /\ holding' \in [Tasks -> Seq(Events)]
      /\ \A u \in Tasks : Len(holding'[u]) =
           IF phase'[u] \in Routing \cup {"permit", "handling"} THEN 1 ELSE 0
  <2>1. CASE TakeMain(t)
    <3>1. /\ Head(mailbox[t].main) \in Events /\ Tail(mailbox[t].main) \in Seq(Events)
      BY <1>1, <2>1 DEF TakeMain
    <3>2. mailbox' = [mailbox EXCEPT ![t] = [mailbox[t] EXCEPT !.main = Tail(mailbox[t].main)]]
      BY <1>1, <2>1 DEF TakeMain
    <3>3. mailbox' \in [Tasks -> Box]
      BY <1>1, <3>1, <3>2
    <3>4. holding' = [holding EXCEPT ![t] = <<Head(mailbox[t].main)>>] /\ phase'[t] = Received(t)
      BY <1>1, <2>1 DEF TakeMain
    <3>5. <<Head(mailbox[t].main)>> \in Seq(Events) /\ Len(<<Head(mailbox[t].main)>>) = 1
      BY <3>1
    <3> QED
      BY <1>1, <1>3, <1>4, <3>3, <3>4, <3>5 DEF Inv, HoldsOne, Routing
  <2>2. CASE TakeOverflow(t)
    <3>1. /\ Head(mailbox[t].overflow) \in Events /\ Tail(mailbox[t].overflow) \in Seq(Events)
      BY <1>1, <2>2 DEF TakeOverflow
    <3>2. mailbox' = [mailbox EXCEPT ![t] = [mailbox[t] EXCEPT !.overflow = Tail(mailbox[t].overflow)]]
      BY <1>1, <2>2 DEF TakeOverflow
    <3>3. mailbox' \in [Tasks -> Box]
      BY <1>1, <3>1, <3>2
    <3>4. holding' = [holding EXCEPT ![t] = <<Head(mailbox[t].overflow)>>] /\ phase'[t] = Received(t)
      BY <1>1, <2>2 DEF TakeOverflow
    <3>5. <<Head(mailbox[t].overflow)>> \in Seq(Events) /\ Len(<<Head(mailbox[t].overflow)>>) = 1
      BY <3>1
    <3> QED
      BY <1>1, <1>3, <1>4, <3>3, <3>4, <3>5 DEF Inv, HoldsOne, Routing
  <2>3. CASE MainIsEmpty(t) \/ OverflowIsEmpty(t) \/ Woken(t)
    <3>1. phase'[t] \in Polling /\ UNCHANGED holding
      BY <1>1, <2>3 DEF MainIsEmpty, OverflowIsEmpty, Woken, Polling
    <3>2. mailbox' = mailbox \/ mailbox' = [mailbox EXCEPT ![t] = [mailbox[t] EXCEPT !.notified = FALSE]]
      BY <1>1, <2>3 DEF MainIsEmpty, OverflowIsEmpty, Woken
    <3>3. mailbox' \in [Tasks -> Box]
      BY <1>1, <3>2
    <3> QED
      BY <1>1, <1>3, <3>1, <3>3 DEF Inv, HoldsOne, Routing, Polling
  <2> QED
    BY <2>1, <2>2, <2>3 DEF Receive
<1>7. ServingIsMapped'
  <2>1. \A w \in Workers : /\ phase'[w] \in Serving => phase[w] \in Serving
                           /\ phase'[w] = "unborn" <=> phase[w] = "unborn"
    BY <1>1, <1>3, <1>4 DEF Serving, Polling, Tasks
  <2> QED
    BY <1>2, <2>1, MappedFrame DEF Inv
<1> QED
  BY <1>2, <1>5, <1>6, <1>7 DEF Inv, Shape, HoldsOne

\* The router goes back to its mailbox with empty hands.
LEMMA ReturnsEmpty ==
  ASSUME Shape, HoldsOne, RouterReturns
  PROVE  HoldsOne'
<1> SUFFICES ASSUME NEW t \in Tasks
             PROVE  Len(holding'[t]) =
                      IF phase'[t] \in Routing \cup {"permit", "handling"} THEN 1 ELSE 0
  BY DEF HoldsOne
<1>1. phase \in [Tasks -> Phases] /\ holding \in [Tasks -> Seq(Events)]
  BY DEF Shape
<1>2. CASE t = Router
  <2>1. holding'[t] = << >> /\ phase'[t] = "main"
    BY <1>1, <1>2 DEF RouterReturns
  <2> QED
    BY <2>1, NothingHeld DEF Routing
<1>3. CASE t # Router
  BY <1>1, <1>3 DEF RouterReturns, HoldsOne
<1> QED
  BY <1>2, <1>3

LEMMA RouteStep ==
  ASSUME Inv, Route
  PROVE  Inv'
<1>1. Router \in Tasks /\ Router \notin Workers /\ Workers \subseteq Tasks
  BY DEF Tasks, Workers, Router
<1>2. phase[Router] \in Routing
  BY DEF Route, FindWorker, SpawnWorker, Deliver, DeliverOverflow, DeliverClosed, Routing
<1>3. Routed \in Events /\ Routed.guild \in Guilds
  BY <1>1, <1>2, HeldEvent DEF Inv, Routed
<1> HIDE DEF Routed
<1>4. CASE FindWorker
  <2>1. UNCHANGED <<mailbox, holding, serves, entry, spilling, owed, warned>>
    BY <1>4 DEF FindWorker
  <2>2. phase' = [phase EXCEPT ![Router] = "deliver"] /\ phase \in [Tasks -> Phases]
    BY <1>4 DEF FindWorker, Inv, Shape
  <2>3. phase' \in [Tasks -> Phases]
    BY <2>2 DEF Phases, Routing
  <2>4. ServingIsMapped'
    BY <1>1, <2>1, <2>2, MappedFrame DEF Inv
  <2>5. HoldsOne'
    BY <1>1, <1>2, <2>1, <2>2 DEF Inv, HoldsOne, Routing
  <2> QED
    BY <2>1, <2>3, <2>4, <2>5 DEF Inv, Shape
<1>5. CASE SpawnWorker
  <2>1. PICK w \in Workers :
          /\ serves[w] = {} /\ serves' = [serves EXCEPT ![w] = {Routed.guild}]
          /\ entry' = [entry EXCEPT ![Routed.guild] = {w}]
          /\ phase' = [phase EXCEPT ![w] = "main", ![Router] = "deliver"]
    BY <1>5 DEF SpawnWorker
  <2>2. entry[Routed.guild] = {} /\ UNCHANGED <<mailbox, holding, spilling, owed, warned>>
    BY <1>5 DEF SpawnWorker
  <2>3. /\ phase \in [Tasks -> Phases] /\ serves \in [Workers -> SUBSET Guilds]
        /\ entry \in [Guilds -> SUBSET Workers]
    BY DEF Inv, Shape
  <2>4. phase' \in [Tasks -> Phases]
    BY <2>1, <2>3 DEF Phases, Routing, Serving, Polling
  <2>5. serves' \in [Workers -> SUBSET Guilds] /\ entry' \in [Guilds -> SUBSET Workers]
    BY <1>3, <2>1, <2>3
  <2>6. phase[w] = "unborn"
    BY <2>1 DEF Inv, ServingIsMapped
  <2>7. HoldsOne'
    BY <1>1, <1>2, <2>1, <2>2, <2>3, <2>6 DEF Inv, HoldsOne, Routing
  <2>8. ServingIsMapped'
    <3> SUFFICES ASSUME NEW v \in Workers
                 PROVE  /\ phase'[v] \in Serving => \E g \in Guilds : serves'[v] = {g} /\ entry'[g] = {v}
                        /\ phase'[v] = "unborn" <=> serves'[v] = {}
      BY DEF ServingIsMapped
    <3>1. CASE v = w
      <4>1. serves'[w] = {Routed.guild} /\ entry'[Routed.guild] = {w} /\ phase'[w] = "main"
        BY <1>1, <1>3, <2>1, <2>3
      <4> QED
        BY <1>3, <3>1, <4>1
    <3>2. CASE v # w
      <4>1. phase'[v] = phase[v] /\ serves'[v] = serves[v]
        BY <1>1, <2>1, <2>3, <3>2
      <4>2. ASSUME phase[v] \in Serving
            PROVE  \E g \in Guilds : serves[v] = {g} /\ entry'[g] = {v}
        <5>1. PICK g \in Guilds : serves[v] = {g} /\ entry[g] = {v}
          BY <4>2 DEF Inv, ServingIsMapped
        <5>2. g # Routed.guild
          BY <2>2, <5>1
        <5> QED
          BY <2>1, <2>3, <5>1, <5>2
      <4> QED
        BY <4>1, <4>2 DEF Inv, ServingIsMapped
    <3> QED
      BY <3>1, <3>2
  <2> QED
    BY <2>2, <2>4, <2>5, <2>7, <2>8 DEF Inv, Shape
<1>6. CASE Deliver \/ DeliverOverflow
  <2>1. UNCHANGED <<serves, entry, spilling, owed>> /\ warned' \subseteq Guilds
    BY <1>3, <1>6 DEF Deliver, DeliverOverflow, Inv, Shape
  <2>2. \/ RouterReturns
        \/ phase' = [phase EXCEPT ![Router] = "overflows"] /\ UNCHANGED holding
    BY <1>6 DEF Deliver, DeliverOverflow
  <2>3. /\ phase \in [Tasks -> Phases] /\ holding \in [Tasks -> Seq(Events)]
    BY DEF Inv, Shape
  <2>4. phase' \in [Tasks -> Phases] /\ holding' \in [Tasks -> Seq(Events)]
    BY <1>1, <2>2, <2>3, NothingHeld DEF RouterReturns, Phases, Routing, Serving, Polling
  <2>5. mailbox' \in [Tasks -> [main : Seq(Events), overflow : Seq(Events), notified : BOOLEAN]]
    <3>1. CASE target \in Tasks
      BY <1>3, <1>6, <3>1, PutType DEF Deliver, DeliverOverflow, Inv, Shape
    <3>2. CASE target \notin Tasks
      <4>1. mailbox' = mailbox
        BY <1>6, <3>2 DEF Deliver, DeliverOverflow, PutMain, PutOverflow, Inv, Shape
      <4> QED
        BY <4>1 DEF Inv, Shape
    <3> QED
      BY <3>1, <3>2
  <2>6. HoldsOne'
    <3>1. CASE RouterReturns
      BY <3>1, ReturnsEmpty DEF Inv
    <3>2. CASE phase' = [phase EXCEPT ![Router] = "overflows"] /\ UNCHANGED holding
      BY <1>1, <1>2, <2>3, <3>2 DEF Inv, HoldsOne, Routing
    <3> QED
      BY <2>2, <3>1, <3>2
  <2>7. ServingIsMapped'
    <3>1. \A w \in Workers : phase'[w] = phase[w]
      BY <1>1, <2>2, <2>3 DEF RouterReturns
    <3> QED
      BY <2>1, <3>1, MappedFrame DEF Inv
  <2> QED
    BY <2>1, <2>4, <2>5, <2>6, <2>7 DEF Inv, Shape
<1>7. CASE DeliverClosed
  <2>1. /\ UNCHANGED <<mailbox, serves, spilling, owed, warned>> /\ RouterReturns
        /\ entry' = [entry EXCEPT ![Routed.guild] = @ \ {target}] /\ phase[target] = "gone"
    BY <1>7 DEF DeliverClosed
  <2>2. /\ phase \in [Tasks -> Phases] /\ holding \in [Tasks -> Seq(Events)]
        /\ entry \in [Guilds -> SUBSET Workers]
    BY DEF Inv, Shape
  <2>3. /\ phase' \in [Tasks -> Phases] /\ holding' \in [Tasks -> Seq(Events)]
        /\ entry' \in [Guilds -> SUBSET Workers]
    <3>1. phase' \in [Tasks -> Phases]
      BY <1>1, <2>1, <2>2 DEF RouterReturns, Phases, Serving, Polling
    <3>2. holding' \in [Tasks -> Seq(Events)]
      BY <1>1, <2>1, <2>2, NothingHeld DEF RouterReturns
    <3>3. entry' \in [Guilds -> SUBSET Workers]
      BY <1>3, <2>1, <2>2
    <3> QED
      BY <3>1, <3>2, <3>3
  <2>4. HoldsOne'
    BY <2>1, ReturnsEmpty DEF Inv
  <2>5. ServingIsMapped'
    <3> SUFFICES ASSUME NEW v \in Workers
                 PROVE  /\ phase'[v] \in Serving => \E g \in Guilds : serves'[v] = {g} /\ entry'[g] = {v}
                        /\ phase'[v] = "unborn" <=> serves'[v] = {}
      BY DEF ServingIsMapped
    <3>1. phase'[v] = phase[v] /\ serves'[v] = serves[v]
      BY <1>1, <2>1, <2>2 DEF RouterReturns
    <3>2. ASSUME phase[v] \in Serving
          PROVE  \E g \in Guilds : serves[v] = {g} /\ entry'[g] = {v}
      <4>1. PICK g \in Guilds : serves[v] = {g} /\ entry[g] = {v}
        BY <3>2 DEF Inv, ServingIsMapped
      <4>2. v # target
        BY <2>1, <3>2 DEF Serving, Polling
      <4> QED
        BY <2>1, <2>2, <4>1, <4>2
    <3> QED
      BY <3>1, <3>2 DEF Inv, ServingIsMapped
  <2> QED
    BY <2>1, <2>3, <2>4, <2>5 DEF Inv, Shape
<1> QED
  BY <1>4, <1>5, <1>6, <1>7 DEF Route

\* A worker leaves the phases it serves in no later than the map.
LEMMA WorkStep ==
  ASSUME Inv, NEW w \in Workers, Work(w) \/ Panic(w)
  PROVE  Inv'
<1>1. w \in Tasks /\ Workers \subseteq Tasks
  BY DEF Tasks
<1>2. /\ mailbox \in [Tasks -> [main : Seq(Events), overflow : Seq(Events), notified : BOOLEAN]]
      /\ phase \in [Tasks -> Phases] /\ holding \in [Tasks -> Seq(Events)]
      /\ entry \in [Guilds -> SUBSET Workers]
  BY DEF Inv, Shape
<1>3. UNCHANGED <<serves, spilling, warned>> /\ owed' \subseteq Identities
  BY DEF Work, Panic, StartHandling, FinishHandling, Retire, Leave, Gone, Inv, Shape
<1>4. mailbox' \in [Tasks -> [main : Seq(Events), overflow : Seq(Events), notified : BOOLEAN]]
  <2>1. mailbox' = mailbox \/ mailbox' = [mailbox EXCEPT ![w] = EmptyMailbox]
    BY DEF Work, Panic, StartHandling, FinishHandling, Retire, Leave, Gone
  <2>2. EmptyMailbox \in [main : Seq(Events), overflow : Seq(Events), notified : BOOLEAN]
    BY NothingHeld DEF EmptyMailbox
  <2> QED
    BY <1>2, <2>1, <2>2
<1>5. /\ phase[w] \in {"permit", "handling", "leaving"}
      /\ \/ phase' = [phase EXCEPT ![w] = "handling"] /\ phase[w] = "permit" /\ UNCHANGED holding
         \/ /\ \/ phase' = [phase EXCEPT ![w] = "main"] /\ phase[w] = "handling"
               \/ phase' = [phase EXCEPT ![w] = "leaving"]
               \/ phase' = [phase EXCEPT ![w] = "gone"]
            /\ holding' = [holding EXCEPT ![w] = << >>]
  BY DEF Work, Panic, StartHandling, FinishHandling, Retire, Leave, Gone
<1>6. phase' \in [Tasks -> Phases] /\ holding' \in [Tasks -> Seq(Events)]
  <2>1. phase' \in [Tasks -> Phases]
    BY <1>2, <1>5 DEF Phases, Serving, Polling
  <2>2. holding' \in [Tasks -> Seq(Events)]
    BY <1>2, <1>5, NothingHeld
  <2> QED
    BY <2>1, <2>2
<1>7. HoldsOne'
  <2> SUFFICES ASSUME NEW t \in Tasks
               PROVE  Len(holding'[t]) =
                        IF phase'[t] \in Routing \cup {"permit", "handling"} THEN 1 ELSE 0
    BY DEF HoldsOne
  <2>1. CASE t # w
    BY <1>1, <1>2, <1>5, <2>1 DEF Inv, HoldsOne
  <2>2. CASE t = w /\ phase' = [phase EXCEPT ![w] = "handling"]
    BY <1>1, <1>2, <1>5, <2>2 DEF Inv, HoldsOne, Routing
  <2>3. CASE t = w /\ phase'[w] # "handling"
    BY <1>1, <1>2, <1>5, <2>3, NothingHeld DEF Routing
  <2> QED
    BY <1>1, <1>2, <1>5, <2>1, <2>2, <2>3
<1>8. entry' \in [Guilds -> SUBSET Workers]
  BY <1>2 DEF Work, Panic, StartHandling, FinishHandling, Retire, Leave, Gone
<1>9. ServingIsMapped'
  <2>1. \A v \in Workers : /\ phase'[v] \in Serving => phase[v] \in Serving
                           /\ phase'[v] = "unborn" <=> phase[v] = "unborn"
    BY <1>1, <1>2, <1>5 DEF Serving, Polling
  <2>2. CASE UNCHANGED entry
    BY <1>3, <2>1, <2>2, MappedFrame DEF Inv
  <2>3. CASE Retire(w)
    <3> SUFFICES ASSUME NEW v \in Workers
                 PROVE  /\ phase'[v] \in Serving => \E g \in Guilds : serves'[v] = {g} /\ entry'[g] = {v}
                        /\ phase'[v] = "unborn" <=> serves'[v] = {}
      BY DEF ServingIsMapped
    <3>1. ASSUME phase'[v] \in Serving
          PROVE  \E g \in Guilds : serves[v] = {g} /\ entry'[g] = {v}
      <4>1. PICK g \in Guilds : serves[v] = {g} /\ entry[g] = {v}
        BY <2>1, <3>1 DEF Inv, ServingIsMapped
      <4>2. v # w
        BY <1>1, <1>2, <2>3, <3>1 DEF Retire, Serving, Polling
      <4>3. entry'[g] = entry[g] \/ entry'[g] = entry[g] \ {w}
        BY <2>3 DEF Retire
      <4> QED
        BY <4>1, <4>2, <4>3
    <3> QED
      BY <1>3, <2>1, <3>1 DEF Inv, ServingIsMapped
  <2> QED
    BY <2>2, <2>3 DEF Work, Panic, StartHandling, FinishHandling, Leave, Gone
<1> QED
  BY <1>3, <1>4, <1>6, <1>7, <1>8, <1>9 DEF Inv, Shape

\* At start the map is empty and no worker has been spawned.
LEMMA InitInv ==
  ASSUME Init
  PROVE  Inv
<1>1. Shape
  BY DEF Init, Shape, EmptyMailbox, Phases, Serving, Polling
<1>2. HoldsOne
  BY DEF Init, HoldsOne, Routing
<1>3. ServingIsMapped
  BY DEF Init, ServingIsMapped, Serving, Polling, Tasks, Workers, Router
<1> QED
  BY <1>1, <1>2, <1>3 DEF Inv

LEMMA InvStep ==
  ASSUME Inv, [Next]_vars
  PROVE  Inv'
<1>1. CASE UNCHANGED vars
  BY <1>1 DEF vars, Inv, Shape, HoldsOne, ServingIsMapped
<1> QED
  BY <1>1, SendStep, ReceiveStep, RouteStep, WorkStep DEF Next

\* Two workers that serve one guild are both the one in its map entry.
LEMMA MappedIsAlone ==
  ASSUME ServingIsMapped
  PROVE  OneHandlerPerGuild
BY DEF ServingIsMapped, OneHandlerPerGuild, Serving

\* The runtime events of a guild are handled one at a time, whatever is sent and
\* whichever workers retire or die (playback.rs:497-599).
THEOREM OneHandler == Spec => []OneHandlerPerGuild
<1>1. Init => Inv
  BY InitInv
<1>2. Inv /\ [Next]_vars => Inv'
  BY InvStep
<1>3. Inv => OneHandlerPerGuild
  BY MappedIsAlone DEF Inv
<1> QED
  BY <1>1, <1>2, <1>3, PTL DEF Spec

-----------------------------------------------------------------------------
(* What a dead worker costs *)

Inv2 == Inv /\ NamesItsOwn /\ BouncedIsForgotten

LEMMA RoutedStays ==
  ASSUME Inv, NEW t \in Tasks, Receive(t), t # Router
  PROVE  holding'[Router] = holding[Router]
BY DEF Receive, TakeMain, TakeOverflow, MainIsEmpty, OverflowIsEmpty, Woken, Inv, Shape, Tasks

LEMMA OtherStep2 ==
  ASSUME Inv2,
         \/ \E e \in Events : Send(e) \/ Spill(e)
         \/ \E t \in Tasks : Receive(t)
         \/ \E w \in Workers : Work(w) \/ Panic(w)
  PROVE  NamesItsOwn' /\ BouncedIsForgotten'
<1>1. Router \in Tasks /\ Router \notin Workers /\ Workers \subseteq Tasks
  BY DEF Tasks, Workers, Router
<1>2. phase \in [Tasks -> Phases] /\ holding \in [Tasks -> Seq(Events)] /\ entry \in [Guilds -> SUBSET Workers]
  BY DEF Inv2, Inv, Shape
<1>3. CASE \E e \in Events : Send(e) \/ Spill(e)
  BY <1>3 DEF Send, Spill, Inv2, NamesItsOwn, BouncedIsForgotten, Routed
<1>4. ASSUME NEW t \in Tasks, Receive(t)
      PROVE  NamesItsOwn' /\ BouncedIsForgotten'
  <2>1. /\ UNCHANGED <<serves, entry, target, bounced>>
        /\ phase[t] \in Polling /\ phase' = [phase EXCEPT ![t] = phase'[t]]
        /\ phase'[t] \in Polling \cup {Received(t)}
    BY <1>2, <1>4 DEF Receive, TakeMain, TakeOverflow, MainIsEmpty, OverflowIsEmpty, Woken, Polling
  <2>2. Received(t) \notin {"deliver", "overflows"}
    BY DEF Received
  <2>3. phase'[Router] \in {"deliver", "overflows"} =>
          phase[Router] = phase'[Router] /\ holding'[Router] = holding[Router]
    BY <1>1, <1>2, <1>4, <2>1, <2>2, RoutedStays DEF Polling, Inv2
  <2>4. \A w \in Workers : phase[w] = "gone" => phase'[w] = "gone"
    BY <1>1, <1>2, <2>1 DEF Polling
  <2> QED
    BY <2>1, <2>3, <2>4 DEF Inv2, NamesItsOwn, BouncedIsForgotten, Routed
<1>5. ASSUME NEW w \in Workers, Work(w) \/ Panic(w)
      PROVE  NamesItsOwn' /\ BouncedIsForgotten'
  <2>1. UNCHANGED <<serves, target, bounced>>
    BY <1>5 DEF Work, Panic, StartHandling, FinishHandling, Retire, Leave, Gone
  <2>2. /\ phase[w] # "gone"
        /\ \E p \in Phases : phase' = [phase EXCEPT ![w] = p]
        /\ holding' = holding \/ holding' = [holding EXCEPT ![w] = << >>]
    BY <1>5 DEF Work, Panic, StartHandling, FinishHandling, Retire, Leave, Gone,
                Phases, Serving, Polling
  <2>3. \A g \in Guilds : entry'[g] \subseteq entry[g]
    BY <1>5 DEF Work, Panic, StartHandling, FinishHandling, Retire, Leave, Gone
  <2>4. phase'[Router] = phase[Router] /\ holding'[Router] = holding[Router]
    BY <1>1, <1>2, <2>2
  <2>5. \A v \in Workers : phase[v] = "gone" => phase'[v] = "gone"
    BY <1>1, <1>2, <2>2
  <2> QED
    BY <2>1, <2>3, <2>4, <2>5 DEF Inv2, NamesItsOwn, BouncedIsForgotten, Routed
<1> QED
  BY <1>3, <1>4, <1>5

LEMMA RouteStep2 ==
  ASSUME Inv2, Route
  PROVE  NamesItsOwn' /\ BouncedIsForgotten'
<1>1. Router \in Tasks /\ Router \notin Workers /\ Workers \subseteq Tasks
  BY DEF Tasks, Workers, Router
<1>2. /\ phase \in [Tasks -> Phases] /\ holding \in [Tasks -> Seq(Events)]
      /\ entry \in [Guilds -> SUBSET Workers] /\ serves \in [Workers -> SUBSET Guilds]
      /\ bounced \in [Workers -> Nat]
  BY DEF Inv2, Inv, Shape, BouncedIsForgotten
<1>3. phase[Router] \in Routing
  BY DEF Route, FindWorker, SpawnWorker, Deliver, DeliverOverflow, DeliverClosed, Routing
<1>4. Routed.guild \in Guilds
  BY <1>1, <1>3, HeldEvent DEF Inv2, Inv, Routed
<1>5. CASE FindWorker
  <2>1. UNCHANGED <<holding, serves, entry, bounced>> /\ target' \in entry[Routed.guild]
        /\ phase' = [phase EXCEPT ![Router] = "deliver"]
    BY <1>5 DEF FindWorker
  <2>2. target' \in Workers /\ serves[target'] = {Routed.guild} /\ bounced[target'] = 0
    BY <1>2, <1>4, <2>1 DEF Inv2, NamesItsOwn, BouncedIsForgotten
  <2>3. \A w \in Workers : phase'[w] = phase[w]
    BY <1>1, <1>2, <2>1
  <2> QED
    BY <1>2, <2>1, <2>2, <2>3 DEF Inv2, NamesItsOwn, BouncedIsForgotten, Routed
<1>6. CASE SpawnWorker
  <2>1. PICK w \in Workers :
          /\ serves[w] = {} /\ serves' = [serves EXCEPT ![w] = {Routed.guild}]
          /\ entry' = [entry EXCEPT ![Routed.guild] = {w}]
          /\ phase' = [phase EXCEPT ![w] = "main", ![Router] = "deliver"]
          /\ target' = w
    BY <1>6 DEF SpawnWorker
  <2>2. UNCHANGED <<holding, bounced>>
    BY <1>6 DEF SpawnWorker
  <2>3. phase[w] = "unborn"
    BY <2>1 DEF Inv2, Inv, ServingIsMapped
  <2>4. bounced[w] = 0
    BY <2>3 DEF Inv2, BouncedIsForgotten
  <2>5. \A g \in Guilds : w \notin entry[g]
    BY <2>1 DEF Inv2, NamesItsOwn
  <2>6. NamesItsOwn'
    <3>1. serves'[w] = {Routed'.guild} /\ target' = w
      BY <1>2, <2>1, <2>2 DEF Routed
    <3>2. \A g \in Guilds : \A v \in entry'[g] : serves'[v] = {g}
      BY <1>2, <1>4, <2>1, <2>5 DEF Inv2, NamesItsOwn
    <3> QED
      BY <3>1, <3>2 DEF NamesItsOwn
  <2>7. \A v \in Workers : v # w => phase'[v] = phase[v]
    BY <1>1, <1>2, <2>1
  <2> QED
    BY <1>2, <1>4, <2>1, <2>2, <2>4, <2>6, <2>7 DEF Inv2, BouncedIsForgotten
<1>7. CASE Deliver \/ DeliverOverflow
  <2>1. UNCHANGED <<serves, entry, target, bounced>>
    BY <1>7 DEF Deliver, DeliverOverflow
  <2>2. /\ phase[Router] \in {"deliver", "overflows"} /\ phase'[Router] # "deliver"
        /\ phase'[Router] = "overflows" => holding' = holding
        /\ \A w \in Workers : phase'[w] = phase[w]
    BY <1>1, <1>2, <1>7 DEF Deliver, DeliverOverflow, RouterReturns
  <2> QED
    BY <2>1, <2>2 DEF Inv2, NamesItsOwn, BouncedIsForgotten, Routed
<1>8. CASE DeliverClosed
  <2>1. /\ UNCHANGED <<serves, target>> /\ RouterReturns
        /\ entry' = [entry EXCEPT ![Routed.guild] = @ \ {target}]
        /\ bounced' = [bounced EXCEPT ![target] = @ + 1]
        /\ phase[Router] = "deliver" /\ phase[target] = "gone"
    BY <1>8 DEF DeliverClosed
  <2>2. target \in Workers /\ serves[target] = {Routed.guild} /\ bounced[target] = 0
    BY <1>2, <2>1 DEF Inv2, NamesItsOwn, BouncedIsForgotten
  <2>3. phase'[Router] = "main" /\ \A w \in Workers : phase'[w] = phase[w]
    BY <1>1, <1>2, <2>1 DEF RouterReturns
  <2>4. \A g \in Guilds : target \notin entry'[g] /\ entry'[g] \subseteq entry[g]
    <3>1. \A g \in Guilds : g # Routed.guild => target \notin entry[g]
      BY <2>2 DEF Inv2, NamesItsOwn
    <3> QED
      BY <1>2, <1>4, <2>1, <3>1
  <2>5. bounced'[target] = 1 /\ \A w \in Workers : w # target => bounced'[w] = bounced[w]
    BY <1>2, <2>1, <2>2
  <2>6. bounced' \in [Workers -> Nat]
    BY <1>2, <2>1, <2>2
  <2> QED
    BY <2>1, <2>2, <2>3, <2>4, <2>5, <2>6 DEF Inv2, NamesItsOwn, BouncedIsForgotten
<1> QED
  BY <1>5, <1>6, <1>7, <1>8 DEF Route

LEMMA Inv2Step == Inv2 /\ [Next]_vars => Inv2'
<1> SUFFICES ASSUME Inv2, [Next]_vars PROVE Inv2'
  OBVIOUS
<1>1. Inv'
  BY InvStep DEF Inv2
<1>2. CASE UNCHANGED vars
  BY <1>1, <1>2 DEF vars, Inv2, NamesItsOwn, BouncedIsForgotten, Routed
<1>3. CASE Next
  BY <1>1, <1>3, OtherStep2, RouteStep2 DEF Next, Inv2
<1> QED
  BY <1>2, <1>3

\* A worker that died is charged for at most one later event, since noticing it
\* removes it from the map and worker ids are not reused (playback.rs:548-553).
THEOREM DeadWorkerIsNoticedOnce == Spec => []DeadWorkerCostsOneEvent
<1>1. Init => Inv2
  <2> SUFFICES ASSUME Init PROVE Inv2
    OBVIOUS
  <2>1. NamesItsOwn /\ BouncedIsForgotten
    BY DEF Init, NamesItsOwn, BouncedIsForgotten, Tasks
  <2> QED
    BY <2>1, InitInv DEF Inv2
<1>2. Inv2 /\ [Next]_vars => Inv2'
  BY Inv2Step
<1>3. Inv2 => DeadWorkerCostsOneEvent
  BY DEF Inv2, BouncedIsForgotten, DeadWorkerCostsOneEvent
<1> QED
  BY <1>1, <1>2, <1>3, PTL DEF Spec

-----------------------------------------------------------------------------
(* No critical event is lost without a reason                               *)

Elems(s) == {s[i] : i \in 1..Len(s)}

\* What is on its way through the mailbox and the hands of a task.
Cargo(t) ==
  Elems(mailbox[t].main) \cup Elems(mailbox[t].overflow)
    \cup (IF phase[t] = "handling" THEN {} ELSE Elems(holding[t]))

\* A worker carries the events of its guild.
CargoFits == \A w \in Workers : \A e \in Cargo(w) : serves[w] = {e.guild}

Carried(id) == \E t \in Tasks : \E e \in Cargo(t) : Identity(e) = id

\* NoSilentLoss, without the events that are being handled: one of those may
\* have been accepted again meanwhile.
Tracked == \A id \in owed : Excused(id.guild) \/ Carried(id)

Inv3 == Inv2 /\ CargoFits /\ Tracked

LEMMA ElemsOfSeq ==
  /\ Elems(<< >>) = {}
  /\ \A e \in Events : Elems(<<e>>) = {e}
  /\ \A s \in Seq(Events), e \in Events : Elems(Append(s, e)) = Elems(s) \cup {e}
  /\ \A s \in Seq(Events) : s # << >> => Elems(s) = {Head(s)} \cup Elems(Tail(s))
  /\ \A s \in Seq(Events) : Elems(s) \subseteq Events
<1>1. Elems(<< >>) = {} /\ \A e \in Events : Elems(<<e>>) = {e}
  BY DEF Elems
<1>2. ASSUME NEW s \in Seq(Events), NEW e \in Events
      PROVE  Elems(Append(s, e)) = Elems(s) \cup {e}
  <2>1. /\ Len(Append(s, e)) = Len(s) + 1 /\ Append(s, e)[Len(s) + 1] = e
        /\ \A i \in 1..Len(s) : Append(s, e)[i] = s[i]
    OBVIOUS
  <2>2. Len(s) \in Nat
    OBVIOUS
  <2>3. 1..(Len(s) + 1) = 1..Len(s) \cup {Len(s) + 1}
    BY <2>2
  <2> QED
    BY <2>1, <2>3 DEF Elems
<1>3. ASSUME NEW s \in Seq(Events), s # << >>
      PROVE  Elems(s) = {Head(s)} \cup Elems(Tail(s))
  <2>1. /\ Len(s) \in Nat /\ Len(s) # 0 /\ Head(s) = s[1] /\ Len(Tail(s)) = Len(s) - 1
        /\ \A i \in 1..(Len(s) - 1) : Tail(s)[i] = s[i + 1]
    BY <1>3
  <2>2. ASSUME NEW i \in 1..Len(s)
        PROVE  s[i] \in {Head(s)} \cup Elems(Tail(s))
    <3>1. CASE i = 1
      BY <2>1, <3>1
    <3>2. CASE i # 1
      <4>1. i - 1 \in 1..(Len(s) - 1) /\ (i - 1) + 1 = i
        BY <2>1, <3>2
      <4>2. Tail(s)[i - 1] = s[i]
        BY <2>1, <4>1
      <4> QED
        BY <2>1, <4>1, <4>2 DEF Elems
    <3> QED
      BY <3>1, <3>2
  <2>3. Head(s) \in Elems(s)
    BY <2>1 DEF Elems
  <2>4. ASSUME NEW i \in 1..Len(Tail(s)) PROVE Tail(s)[i] \in Elems(s)
    <3>1. i + 1 \in 1..Len(s) /\ Tail(s)[i] = s[i + 1]
      BY <2>1
    <3> QED
      BY <3>1 DEF Elems
  <2> QED
    BY <2>2, <2>3, <2>4 DEF Elems
<1>4. \A s \in Seq(Events) : Elems(s) \subseteq Events
  BY DEF Elems
<1> QED
  BY <1>1, <1>2, <1>3, <1>4

LEMMA ElemsOfOne == \A s \in Seq(Events) : Len(s) = 1 => Elems(s) = {Head(s)} /\ Head(s) \in Events
<1> SUFFICES ASSUME NEW s \in Seq(Events), Len(s) = 1
             PROVE  Elems(s) = {Head(s)} /\ Head(s) \in Events
  OBVIOUS
<1>1. Head(s) = s[1] /\ s[1] \in Events
  OBVIOUS
<1>2. 1..Len(s) = {1}
  OBVIOUS
<1> QED
  BY <1>1, <1>2 DEF Elems

\* The two ways of adding to a mailbox: an event that is put is carried, or one
\* of its identity already is.
LEMMA PutCargo ==
  ASSUME Shape, NEW t \in Tasks, NEW e \in Events, NEW capacity,
         PutMain(t, e) \/ PutOverflow(t, e, capacity)
  PROVE  LET rest(u) == IF phase[u] = "handling" THEN {} ELSE Elems(holding[u])
             boxed(u) == Elems(mailbox[u].main) \cup Elems(mailbox[u].overflow)
             boxedNext(u) == Elems(mailbox'[u].main) \cup Elems(mailbox'[u].overflow)
         IN  /\ \A u \in Tasks : u # t => boxedNext(u) = boxed(u)
             /\ boxedNext(t) \in {boxed(t), boxed(t) \cup {e}}
             /\ PutMain(t, e) \/ Queued(t, e, capacity) =>
                  \E f \in boxedNext(t) : Identity(f) = Identity(e)
<1> DEFINE Box == [main : Seq(Events), overflow : Seq(Events), notified : BOOLEAN]
           boxed(u) == Elems(mailbox[u].main) \cup Elems(mailbox[u].overflow)
           boxedNext(u) == Elems(mailbox'[u].main) \cup Elems(mailbox'[u].overflow)
<1>1. mailbox \in [Tasks -> Box] /\ mailbox[t] \in Box
  BY DEF Shape
<1>2. \A u \in Tasks : u # t => mailbox'[u] = mailbox[u]
  BY <1>1 DEF PutMain, PutOverflow
<1>3. CASE PutMain(t, e)
  <2>1. mailbox'[t].main = Append(mailbox[t].main, e) /\ mailbox'[t].overflow = mailbox[t].overflow
    BY <1>1, <1>3 DEF PutMain
  <2>2. boxedNext(t) = boxed(t) \cup {e}
    BY <1>1, <2>1, ElemsOfSeq
  <2> QED
    BY <1>2, <2>2
<1>4. CASE PutOverflow(t, e, capacity)
  <2> DEFINE list == mailbox[t].overflow
  <2>1. mailbox'[t].main = mailbox[t].main
    BY <1>1, <1>4 DEF PutOverflow
  <2>2. mailbox'[t].overflow = IF ~Listed(list, e) /\ Len(list) < capacity THEN Append(list, e) ELSE list
    BY <1>1, <1>4 DEF PutOverflow
  <2>3. boxedNext(t) \in {boxed(t), boxed(t) \cup {e}}
    BY <1>1, <2>1, <2>2, ElemsOfSeq
  <2>4. ASSUME Queued(t, e, capacity)
        PROVE  \E f \in boxedNext(t) : Identity(f) = Identity(e)
    <3>1. CASE Listed(list, e)
      BY <2>2, <3>1 DEF Listed, Elems
    <3>2. CASE ~Listed(list, e)
      <4>1. mailbox'[t].overflow = Append(list, e)
        BY <2>2, <2>4, <3>2 DEF Queued
      <4>2. e \in boxedNext(t)
        BY <1>1, <4>1, ElemsOfSeq
      <4> QED
        BY <4>2
    <3> QED
      BY <3>1, <3>2
  <2>5. PutMain(t, e) => boxedNext(t) = boxed(t) \cup {e}
    <3> SUFFICES ASSUME PutMain(t, e) PROVE boxedNext(t) = boxed(t) \cup {e}
      OBVIOUS
    <3>1. mailbox'[t].main = Append(mailbox[t].main, e) /\ mailbox'[t].overflow = mailbox[t].overflow
      BY <1>1 DEF PutMain
    <3> QED
      BY <1>1, <3>1, ElemsOfSeq
  <2> QED
    BY <1>2, <2>3, <2>4, <2>5
<1> QED
  BY <1>3, <1>4

\* Neither excuse is withdrawn.
LEMMA ExcusesStay ==
  ASSUME Inv2, [Next]_vars
  PROVE  \A g \in Guilds : Excused(g) => Excused(g)'
<1>1. /\ phase \in [Tasks -> Phases] /\ serves \in [Workers -> SUBSET Guilds]
      /\ Workers \subseteq Tasks /\ Router \notin Workers
  BY DEF Inv2, Inv, Shape, Tasks, Workers, Router
<1>2. warned \subseteq warned'
  BY DEF Next, Send, Spill, Receive, Route, FindWorker, SpawnWorker, Deliver, DeliverOverflow,
         DeliverClosed, Work, Panic, StartHandling, FinishHandling, Retire, Leave, Gone, vars
<1>3. \A w \in Workers : serves[w] \subseteq serves'[w]
  <2>1. CASE SpawnWorker
    BY <1>1, <2>1 DEF SpawnWorker
  <2>2. CASE UNCHANGED serves
    BY <2>2
  <2> QED
    BY <2>1, <2>2 DEF Next, Send, Spill, Receive, Route, FindWorker, Deliver, DeliverOverflow,
       DeliverClosed, Work, Panic, StartHandling, FinishHandling, Retire, Leave, Gone, vars
<1>4. \A w \in Workers : phase[w] \in {"leaving", "gone"} => phase'[w] \in {"leaving", "gone"}
  <2>1. ASSUME NEW t \in Tasks, Receive(t), NEW w \in Workers, phase[w] \in {"leaving", "gone"}
        PROVE  phase'[w] = phase[w]
    BY <1>1, <2>1 DEF Receive, TakeMain, TakeOverflow, MainIsEmpty, OverflowIsEmpty, Woken
  <2>2. ASSUME Route, NEW w \in Workers, phase[w] \in {"leaving", "gone"}
        PROVE  phase'[w] = phase[w]
    <3>1. serves[w] # {}
      BY <2>2 DEF Inv2, Inv, ServingIsMapped
    <3> QED
      BY <1>1, <2>2, <3>1 DEF Route, FindWorker, SpawnWorker, Deliver, DeliverOverflow,
         DeliverClosed, RouterReturns
  <2>3. ASSUME NEW v \in Workers, Work(v) \/ Panic(v), NEW w \in Workers,
               phase[w] \in {"leaving", "gone"}
        PROVE  phase'[w] \in {"leaving", "gone"}
    BY <1>1, <2>3 DEF Work, Panic, StartHandling, FinishHandling, Retire, Leave, Gone
  <2>4. ASSUME NEW e \in Events, Send(e) \/ Spill(e) PROVE UNCHANGED phase
    BY <2>4 DEF Send, Spill
  <2>5. CASE UNCHANGED vars
    BY <2>5 DEF vars
  <2> QED
    BY <2>1, <2>2, <2>3, <2>4, <2>5 DEF Next
<1> QED
  BY <1>2, <1>3, <1>4 DEF Excused

\* What it takes to keep Tracked: excuses stay, what was carried and is still owed
\* is carried on or excused, and what is newly owed is carried.
LEMMA TrackedFrame ==
  ASSUME Shape, Tracked,
         \A g \in Guilds : Excused(g) => Excused(g)',
         \A t \in Tasks : \A e \in Cargo(t) :
            Identity(e) \in owed' => Carried(Identity(e))' \/ Excused(e.guild)',
         \A id \in owed' : id \in owed \/ Carried(id)'
  PROVE  Tracked'
<1> SUFFICES ASSUME NEW id \in owed', id \in owed PROVE Excused(id.guild)' \/ Carried(id)'
  BY DEF Tracked
<1>1. id.guild \in Guilds
  <2>1. PICK e \in Events : id = Identity(e)
    BY DEF Shape, Identities
  <2>2. id.guild = e.guild
    BY <2>1 DEF Identity
  <2> QED
    BY <2>2, EventsAssumption
<1>2. CASE Excused(id.guild)
  BY <1>1, <1>2
<1>3. CASE Carried(id)
  <2>1. PICK t \in Tasks : \E e \in Cargo(t) : Identity(e) = id
    BY <1>3 DEF Carried
  <2>2. PICK e \in Cargo(t) : Identity(e) = id
    BY <2>1
  <2>3. e.guild = id.guild
    BY <2>2 DEF Identity
  <2> QED
    BY <2>2, <2>3
<1> QED
  BY <1>2, <1>3 DEF Tracked

LEMMA CargoUnchanged ==
  ASSUME UNCHANGED <<mailbox, phase, holding, serves, owed>>, CargoFits, Tracked, Shape,
         \A g \in Guilds : Excused(g) => Excused(g)'
  PROVE  CargoFits' /\ Tracked'
<1>1. \A t : Cargo(t)' = Cargo(t)
  BY DEF Cargo
<1>2. CargoFits'
  BY <1>1 DEF CargoFits
<1>3. \A id : Carried(id) => Carried(id)'
  BY <1>1 DEF Carried
<1> QED
  BY <1>2, <1>3, TrackedFrame DEF Carried

LEMMA SendStep3 ==
  ASSUME Inv3, NEW e \in Events, Send(e) \/ Spill(e)
  PROVE  CargoFits' /\ Tracked'
<1>0. /\ Shape /\ Router \in Tasks /\ Router \notin Workers
      /\ \A g \in Guilds : Excused(g) => Excused(g)'
  BY ExcusesStay DEF Inv3, Inv2, Inv, Tasks, Workers, Router, Next
<1>1. UNCHANGED <<phase, holding, serves>>
  BY DEF Send, Spill
<1>2. \/ mailbox' = mailbox /\ owed' = owed
      \/ PutMain(Router, e) /\ owed' \subseteq owed \cup {Identity(e)}
      \/ /\ PutOverflow(Router, e, SpillCapacity)
         /\ owed' \subseteq owed \cup {Identity(e)}
         /\ Queued(Router, e, SpillCapacity) \/ owed' = owed
  BY DEF Send, Spill, Accept
<1>3. CASE mailbox' = mailbox /\ owed' = owed
  BY <1>0, <1>1, <1>3, CargoUnchanged DEF Inv3
<1>4. CASE PutMain(Router, e) \/ PutOverflow(Router, e, SpillCapacity)
  <2>1. /\ \A u \in Tasks : u # Router => Cargo(u)' = Cargo(u)
        /\ Cargo(Router) \subseteq Cargo(Router)'
        /\ PutMain(Router, e) \/ Queued(Router, e, SpillCapacity) => Carried(Identity(e))'
    BY <1>0, <1>1, <1>4, PutCargo DEF Cargo, Carried
  <2>2. CargoFits'
    BY <1>0, <1>1, <2>1 DEF CargoFits, Inv3, Tasks
  <2>3. \A t \in Tasks : Cargo(t) \subseteq Cargo(t)'
    BY <2>1
  <2>4. \A id \in owed' : id \in owed \/ Carried(id)'
    BY <1>2, <1>4, <2>1, <1>3
  <2>5. \A t \in Tasks : \A f \in Cargo(t) : Carried(Identity(f))'
    BY <2>3 DEF Carried
  <2> QED
    BY <1>0, <2>2, <2>4, <2>5, TrackedFrame DEF Inv3
<1> QED
  BY <1>2, <1>3, <1>4

LEMMA ReceiveStep3 ==
  ASSUME Inv3, NEW t \in Tasks, Receive(t)
  PROVE  CargoFits' /\ Tracked'
<1> DEFINE Box == [main : Seq(Events), overflow : Seq(Events), notified : BOOLEAN]
<1>0. /\ Shape /\ \A g \in Guilds : Excused(g) => Excused(g)'
  BY ExcusesStay DEF Inv3, Inv2, Inv, Next
<1>1. /\ mailbox \in [Tasks -> Box] /\ mailbox[t] \in Box
      /\ phase \in [Tasks -> Phases] /\ holding \in [Tasks -> Seq(Events)]
  BY <1>0 DEF Shape
<1>2. UNCHANGED <<serves, owed>>
  BY DEF Receive
<1>3. /\ phase[t] \in Polling /\ phase'[t] # "handling"
      /\ \A u \in Tasks : u # t => mailbox'[u] = mailbox[u] /\ phase'[u] = phase[u] /\ holding'[u] = holding[u]
  BY <1>1 DEF Receive, TakeMain, TakeOverflow, MainIsEmpty, OverflowIsEmpty, Woken, Polling, Received
<1>4. Len(holding[t]) = 0
  BY <1>3 DEF Inv3, Inv2, Inv, HoldsOne, Polling, Routing
<1>5. holding[t] = << >> /\ phase[t] # "handling"
  BY <1>1, <1>3, <1>4 DEF Polling
<1>6. Cargo(t)' = Cargo(t)
  <2>1. CASE TakeMain(t)
    <3> DEFINE s == mailbox[t].main
    <3>1. s \in Seq(Events) /\ s # << >> /\ Head(s) \in Events
      BY <1>1, <2>1 DEF TakeMain
    <3>2. /\ mailbox'[t].main = Tail(s) /\ mailbox'[t].overflow = mailbox[t].overflow
          /\ holding'[t] = <<Head(s)>>
      BY <1>1, <2>1 DEF TakeMain
    <3>3. Elems(s) = {Head(s)} \cup Elems(Tail(s)) /\ Elems(<<Head(s)>>) = {Head(s)} /\ Elems(<< >>) = {}
      BY <3>1, ElemsOfSeq
    <3> HIDE DEF s
    <3>4. Cargo(t) = Elems(s) \cup Elems(mailbox[t].overflow)
      BY <1>5, <3>3 DEF Cargo, s
    <3>5. Cargo(t)' = Elems(Tail(s)) \cup Elems(mailbox[t].overflow) \cup {Head(s)}
      BY <1>3, <3>2, <3>3 DEF Cargo
    <3> QED
      BY <3>3, <3>4, <3>5
  <2>2. CASE TakeOverflow(t)
    <3> DEFINE s == mailbox[t].overflow
    <3>1. s \in Seq(Events) /\ s # << >> /\ Head(s) \in Events
      BY <1>1, <2>2 DEF TakeOverflow
    <3>2. /\ mailbox'[t].overflow = Tail(s) /\ mailbox'[t].main = mailbox[t].main
          /\ holding'[t] = <<Head(s)>>
      BY <1>1, <2>2 DEF TakeOverflow
    <3>3. Elems(s) = {Head(s)} \cup Elems(Tail(s)) /\ Elems(<<Head(s)>>) = {Head(s)} /\ Elems(<< >>) = {}
      BY <3>1, ElemsOfSeq
    <3> HIDE DEF s
    <3>4. Cargo(t) = Elems(mailbox[t].main) \cup Elems(s)
      BY <1>5, <3>3 DEF Cargo, s
    <3>5. Cargo(t)' = Elems(mailbox[t].main) \cup Elems(Tail(s)) \cup {Head(s)}
      BY <1>3, <3>2, <3>3 DEF Cargo
    <3> QED
      BY <3>3, <3>4, <3>5
  <2>3. CASE MainIsEmpty(t) \/ OverflowIsEmpty(t) \/ Woken(t)
    <3>1. /\ mailbox'[t].main = mailbox[t].main /\ mailbox'[t].overflow = mailbox[t].overflow
          /\ holding'[t] = holding[t]
      BY <1>1, <2>3 DEF MainIsEmpty, OverflowIsEmpty, Woken
    <3> QED
      BY <1>3, <1>5, <3>1 DEF Cargo
  <2> QED
    BY <2>1, <2>2, <2>3 DEF Receive
<1>7. \A u \in Tasks : Cargo(u)' = Cargo(u)
  BY <1>3, <1>6 DEF Cargo
<1>8. CargoFits'
  BY <1>2, <1>7 DEF CargoFits, Inv3, Tasks
<1>9. \A u \in Tasks : \A e \in Cargo(u) : Carried(Identity(e))'
  BY <1>7 DEF Carried
<1> QED
  BY <1>0, <1>2, <1>8, <1>9, TrackedFrame DEF Inv3

LEMMA WorkStep3 ==
  ASSUME Inv3, NEW w \in Workers, Work(w) \/ Panic(w)
  PROVE  CargoFits' /\ Tracked'
<1> DEFINE Box == [main : Seq(Events), overflow : Seq(Events), notified : BOOLEAN]
<1>0. /\ Shape /\ w \in Tasks /\ Workers \subseteq Tasks
      /\ \A g \in Guilds : Excused(g) => Excused(g)'
  BY ExcusesStay DEF Inv3, Inv2, Inv, Next, Tasks
<1>1. /\ mailbox \in [Tasks -> Box] /\ phase \in [Tasks -> Phases]
      /\ holding \in [Tasks -> Seq(Events)] /\ Elems(<< >>) = {}
  BY <1>0, ElemsOfSeq DEF Shape
<1>2. /\ UNCHANGED serves /\ owed' \subseteq owed
      /\ \A u \in Tasks : u # w => mailbox'[u] = mailbox[u] /\ phase'[u] = phase[u] /\ holding'[u] = holding[u]
  BY <1>1 DEF Work, Panic, StartHandling, FinishHandling, Retire, Leave, Gone
<1>3. \A u \in Tasks : u # w => Cargo(u)' = Cargo(u)
  BY <1>2 DEF Cargo
<1>4. /\ Cargo(w)' \subseteq Cargo(w)
      /\ \A e \in Cargo(w) : e \in Cargo(w)' \/ Identity(e) \notin owed' \/ Excused(e.guild)'
  <2>1. CASE StartHandling(w)
    <3>1. mailbox' = mailbox /\ holding' = holding /\ phase'[w] = "handling" /\ phase[w] = "permit"
          /\ owed' = owed \ {Identity(Handled(w))}
      BY <1>0, <1>1, <2>1 DEF StartHandling
    <3>2. Len(holding[w]) = 1
      BY <1>0, <3>1 DEF Inv3, Inv2, Inv, HoldsOne
    <3>3. Elems(holding[w]) = {Handled(w)}
      BY <1>0, <1>1, <3>2, ElemsOfOne DEF Handled
    <3> QED
      BY <3>1, <3>3 DEF Cargo
  <2>2. CASE FinishHandling(w) \/ Retire(w)
    <3>1. mailbox' = mailbox /\ holding'[w] = << >> /\ phase[w] = "handling"
      BY <1>0, <1>1, <2>2 DEF FinishHandling, Retire
    <3> QED
      BY <1>1, <3>1 DEF Cargo
  <2>3. CASE Leave(w) \/ Panic(w)
    <3>1. /\ mailbox'[w].main = << >> /\ mailbox'[w].overflow = << >> /\ holding'[w] = << >>
          /\ phase'[w] = "gone"
      BY <1>0, <1>1, <2>3 DEF Leave, Panic, Gone, EmptyMailbox
    <3>2. Cargo(w)' = {}
      BY <1>1, <3>1 DEF Cargo
    <3>3. \A e \in Cargo(w) : Excused(e.guild)'
      BY <1>2, <3>1 DEF Inv3, CargoFits, Excused
    <3> QED
      BY <3>2, <3>3
  <2> QED
    BY <2>1, <2>2, <2>3 DEF Work
<1>5. CargoFits'
  BY <1>0, <1>2, <1>3, <1>4 DEF CargoFits, Inv3
<1>6. \A u \in Tasks : \A e \in Cargo(u) :
         Identity(e) \in owed' => Carried(Identity(e))' \/ Excused(e.guild)'
  BY <1>0, <1>3, <1>4 DEF Carried
<1> QED
  BY <1>0, <1>2, <1>5, <1>6, TrackedFrame DEF Inv3

\* The router drops an event only if that is nothing critical, has been reported,
\* or its worker has ended.
LEMMA RouteStep3 ==
  ASSUME Inv3, Route
  PROVE  CargoFits' /\ Tracked'
<1> DEFINE Box == [main : Seq(Events), overflow : Seq(Events), notified : BOOLEAN]
<1>0. /\ Shape /\ Router \in Tasks /\ Router \notin Workers /\ Workers \subseteq Tasks
      /\ \A g \in Guilds : Excused(g) => Excused(g)'
  BY ExcusesStay DEF Inv3, Inv2, Inv, Next, Tasks, Workers, Router
<1>1. /\ mailbox \in [Tasks -> Box] /\ phase \in [Tasks -> Phases]
      /\ holding \in [Tasks -> Seq(Events)] /\ Elems(<< >>) = {}
      /\ serves \in [Workers -> SUBSET Guilds] /\ owed \subseteq Identities
  BY <1>0, ElemsOfSeq DEF Shape
<1>2. phase[Router] \in Routing /\ owed' = owed
  BY DEF Route, FindWorker, SpawnWorker, Deliver, DeliverOverflow, DeliverClosed, Routing
<1>3. PICK r \in Events : r = Routed /\ Elems(holding[Router]) = {r}
  <2>1. Len(holding[Router]) = 1
    BY <1>0, <1>2 DEF Inv3, Inv2, Inv, HoldsOne
  <2> QED
    BY <1>0, <1>1, <2>1, ElemsOfOne DEF Routed
<1>4. phase[Router] \in {"deliver", "overflows"} =>
         \E w \in Workers : w = target /\ serves[w] = {r.guild}
  BY <1>3 DEF Inv3, Inv2, NamesItsOwn
<1> HIDE DEF Routed
<1>5. CASE FindWorker \/ SpawnWorker
  <2>1. UNCHANGED <<mailbox, holding>>
    BY <1>5 DEF FindWorker, SpawnWorker
  <2>2. \A u \in Tasks : (phase'[u] = "handling") <=> (phase[u] = "handling")
    <3>1. CASE FindWorker
      BY <1>0, <1>1, <1>2, <3>1 DEF FindWorker, Routing
    <3>2. CASE SpawnWorker
      <4>1. PICK w \in Workers : serves[w] = {} /\ phase' = [phase EXCEPT ![w] = "main", ![Router] = "deliver"]
        BY <3>2 DEF SpawnWorker
      <4>2. phase[w] = "unborn"
        BY <4>1 DEF Inv3, Inv2, Inv, ServingIsMapped
      <4> QED
        BY <1>0, <1>1, <1>2, <4>1, <4>2 DEF Routing
    <3> QED
      BY <1>5, <3>1, <3>2
  <2>3. \A u \in Tasks : Cargo(u)' = Cargo(u)
    BY <2>1, <2>2 DEF Cargo
  <2>4. \A u \in Workers : serves[u] # {} => serves'[u] = serves[u]
    BY <1>1, <1>5 DEF FindWorker, SpawnWorker
  <2>5. CargoFits'
    <3> SUFFICES ASSUME NEW u \in Workers, NEW e \in Cargo(u) PROVE serves'[u] = {e.guild}
      BY <1>0, <2>3 DEF CargoFits
    <3>1. serves[u] = {e.guild}
      BY DEF Inv3, CargoFits
    <3> QED
      BY <2>4, <3>1
  <2>6. \A u \in Tasks : \A e \in Cargo(u) : Carried(Identity(e))'
    BY <2>3 DEF Carried
  <2> QED
    BY <1>0, <1>2, <2>5, <2>6, TrackedFrame DEF Inv3
<1>6. CASE phase' = [phase EXCEPT ![Router] = "overflows"] /\ UNCHANGED <<mailbox, holding, serves>>
  <2>1. \A u \in Tasks : (phase'[u] = "handling") <=> (phase[u] = "handling")
    BY <1>0, <1>1, <1>2, <1>6 DEF Routing
  <2>2. \A u \in Tasks : Cargo(u)' = Cargo(u)
    BY <1>6, <2>1 DEF Cargo
  <2>3. CargoFits'
    BY <1>0, <1>6, <2>2 DEF CargoFits, Inv3
  <2>4. \A u \in Tasks : \A e \in Cargo(u) : Carried(Identity(e))'
    BY <2>2 DEF Carried
  <2> QED
    BY <1>0, <1>2, <2>3, <2>4, TrackedFrame DEF Inv3
\* The router is done with the event in its hands.
<1>7. ASSUME RouterReturns, UNCHANGED serves, NEW w \in Workers, serves[w] = {r.guild},
             \/ PutMain(w, r)
             \/ /\ PutOverflow(w, r, OverflowCapacity)
                /\ Queued(w, r, OverflowCapacity) \/ r.guild \in warned'
             \/ UNCHANGED mailbox /\ (~Critical(r) \/ phase[w] = "gone")
      PROVE  CargoFits' /\ Tracked'
  <2>1. /\ phase'[Router] = "main" /\ holding'[Router] = << >>
        /\ \A u \in Tasks : u # Router => phase'[u] = phase[u] /\ holding'[u] = holding[u]
    BY <1>0, <1>1, <1>7 DEF RouterReturns
  <2>2. /\ \A u \in Tasks : Elems(mailbox'[u].main) \cup Elems(mailbox'[u].overflow) \in
             {Elems(mailbox[u].main) \cup Elems(mailbox[u].overflow),
              Elems(mailbox[u].main) \cup Elems(mailbox[u].overflow) \cup (IF u = w THEN {r} ELSE {})}
        /\ PutMain(w, r) \/ (PutOverflow(w, r, OverflowCapacity)
                                       /\ Queued(w, r, OverflowCapacity)) =>
             \E f \in Elems(mailbox'[w].main) \cup Elems(mailbox'[w].overflow) :
                Identity(f) = Identity(r)
    <3>1. CASE UNCHANGED mailbox /\ ~(PutMain(w, r) \/ PutOverflow(w, r, OverflowCapacity))
      BY <3>1
    <3>2. CASE PutMain(w, r) \/ PutOverflow(w, r, OverflowCapacity)
      BY <1>0, <1>3, <1>7, <3>2, PutCargo
    <3> QED
      BY <1>7, <3>1, <3>2
  <2>3. \A u \in Workers : Cargo(u) \subseteq Cargo(u)' /\ Cargo(u)' \subseteq Cargo(u) \cup (IF u = w THEN {r} ELSE {})
    BY <1>0, <2>1, <2>2 DEF Cargo
  <2>4. Cargo(Router) \subseteq Cargo(Router)' \cup {r}
    BY <1>0, <1>1, <1>3, <1>7, <2>1, <2>2 DEF Cargo
  <2>5. CargoFits'
    BY <1>7, <2>3 DEF CargoFits, Inv3
  <2>6. Identity(r) \in owed => Carried(Identity(r))' \/ Excused(r.guild)'
    <3>1. CASE PutMain(w, r) \/ (PutOverflow(w, r, OverflowCapacity)
                                           /\ Queued(w, r, OverflowCapacity))
      <4>1. PICK f \in Elems(mailbox'[w].main) \cup Elems(mailbox'[w].overflow) :
                Identity(f) = Identity(r)
        BY <2>2, <3>1
      <4>2. f \in Cargo(w)'
        BY <4>1 DEF Cargo
      <4> QED
        BY <1>0, <1>7, <4>1, <4>2 DEF Carried
    <3>2. CASE r.guild \in warned'
      BY <3>2 DEF Excused
    <3>3. CASE ~Critical(r)
      <4>1. \A e \in Events : Critical(e) => Identity(e).kind # Identity(r).kind
        BY <1>3, <3>3, EventsAssumption DEF Critical, Identity, CriticalKinds, Kinds
      <4> QED
        BY <1>1, <4>1 DEF Identities
    <3>4. CASE phase[w] = "gone"
      <4>1. phase'[w] = "gone" /\ serves'[w] = {r.guild}
        BY <1>0, <1>7, <2>1, <3>4
      <4> QED
        BY <1>7, <4>1 DEF Excused
    <3> QED
      BY <1>7, <3>1, <3>2, <3>3, <3>4
  <2>7. \A u \in Tasks : \A e \in Cargo(u) :
           Identity(e) \in owed' => Carried(Identity(e))' \/ Excused(e.guild)'
    <3> SUFFICES ASSUME NEW u \in Tasks, NEW e \in Cargo(u), Identity(e) \in owed'
                 PROVE  Carried(Identity(e))' \/ Excused(e.guild)'
      OBVIOUS
    <3>1. CASE e \in Cargo(u)'
      BY <3>1 DEF Carried
    <3>2. CASE e \notin Cargo(u)'
      <4>1. u = Router \/ u \in Workers
        BY DEF Tasks
      <4>2. e = r
        BY <2>3, <2>4, <3>2, <4>1
      <4> QED
        BY <1>2, <2>6, <4>2
    <3> QED
      BY <3>1, <3>2
  <2> QED
    BY <1>0, <1>2, <2>5, <2>7, TrackedFrame DEF Inv3
<1>8. CASE Deliver
  BY <1>3, <1>4, <1>6, <1>7, <1>8 DEF Deliver
<1>9. CASE DeliverOverflow
  BY <1>3, <1>4, <1>7, <1>9 DEF DeliverOverflow
<1>10. CASE DeliverClosed
  BY <1>3, <1>4, <1>7, <1>10 DEF DeliverClosed
<1> QED
  BY <1>5, <1>8, <1>9, <1>10 DEF Route

\* An accepted critical event is on its way, was handled, or its loss has a
\* reason: its guild's worker ended, or a saturated list was reported
\* (contracts/src/lib.rs:170-176).
THEOREM NothingIsLostSilently == Spec => []NoSilentLoss
<1>1. Init => Inv3
  <2> SUFFICES ASSUME Init PROVE Inv3
    OBVIOUS
  <2>1. Inv2
    BY InitInv DEF Init, Inv2, NamesItsOwn, BouncedIsForgotten, Tasks
  <2>2. \A t \in Tasks : Cargo(t) = {}
    BY ElemsOfSeq DEF Init, Cargo, EmptyMailbox
  <2>3. CargoFits /\ Tracked
    BY <2>2 DEF Init, CargoFits, Tracked, Tasks
  <2> QED
    BY <2>1, <2>3 DEF Inv3
<1>2. Inv3 /\ [Next]_vars => Inv3'
  <2> SUFFICES ASSUME Inv3, [Next]_vars PROVE Inv3'
    OBVIOUS
  <2>1. Inv2'
    BY Inv2Step DEF Inv3
  <2>2. CASE UNCHANGED vars
    <3>1. Shape /\ \A g \in Guilds : Excused(g) => Excused(g)'
      BY <2>2 DEF Inv3, Inv2, Inv, vars, Excused
    <3>2. CargoFits' /\ Tracked'
      BY <2>2, <3>1, CargoUnchanged DEF Inv3, vars
    <3> QED
      BY <2>1, <3>2 DEF Inv3
  <2>3. CASE Next
    BY <2>1, <2>3, SendStep3, ReceiveStep3, RouteStep3, WorkStep3 DEF Next, Inv3
  <2> QED
    BY <2>2, <2>3
<1>3. Inv3 => NoSilentLoss
  <2> SUFFICES ASSUME Inv3, NEW id \in owed, Carried(id) PROVE \E t \in Tasks : InMailbox(t, id)
    BY DEF Inv3, Tracked, NoSilentLoss
  <2>1. PICK t \in Tasks : \E e \in Cargo(t) : Identity(e) = id
    BY DEF Carried
  <2>2. InMailbox(t, id)
    BY <2>1 DEF Cargo, InMailbox, Elems
  <2> QED
    BY <2>2
<1> QED
  BY <1>1, <1>2, <1>3, PTL DEF Spec
-----------------------------------------------------------------------------
(* Capacities and permits *)

\* What the channel and the list of a task can hold.
MainLimit(t) == IF t = Router THEN IngressCapacity ELSE QueueCapacity
ListLimit(t) == IF t = Router THEN SpillCapacity ELSE OverflowCapacity

Limits ==
  \A t \in Tasks : /\ Len(mailbox[t].main) <= MainLimit(t)
                   /\ Len(mailbox[t].overflow) <= ListLimit(t)

\* The router never handles, the workers never route.
Places ==
  \A t \in Tasks : phase[t] \in IF t = Router THEN Polling \cup Routing ELSE Phases \ Routing

\* Who has a permit.
Holders == {w \in Workers : phase[w] \in {"handling", "leaving"}}

PermitsKept == permits \in Nat /\ permits + Cardinality(Holders) = Permits

Inv4 == Inv2 /\ Limits /\ Places /\ PermitsKept

LEMMA LimitTypes ==
  /\ Permits \in Nat
  /\ \A t \in Tasks : MainLimit(t) \in Nat /\ ListLimit(t) \in Nat
  BY EventsAssumption DEF MainLimit, ListLimit

LEMMA HoldersFinite == IsFiniteSet(Holders) /\ Cardinality(Holders) \in Nat
<1>1. MaxWorkers \in Int /\ 1 \in Int
  BY EventsAssumption
<1>2. IsFiniteSet(Workers)
  BY <1>1, FS_Interval DEF Workers
<1>3. Holders \in SUBSET Workers
  BY DEF Holders
<1>4. IsFiniteSet(Holders)
  BY <1>2, <1>3, FS_Subset
<1> QED
  BY <1>4, FS_CardinalityType

\* An event goes into a channel that has room, or into a list that is not full.
LEMMA PutLimits ==
  ASSUME Shape, Limits, NEW t \in Tasks, NEW e \in Events,
         \/ PutMain(t, e) /\ HasRoom(t, MainLimit(t))
         \/ PutOverflow(t, e, ListLimit(t))
  PROVE  Limits'
<1> SUFFICES ASSUME NEW u \in Tasks
             PROVE  Len(mailbox'[u].main) <= MainLimit(u) /\ Len(mailbox'[u].overflow) <= ListLimit(u)
  BY DEF Limits, MainLimit, ListLimit
<1> DEFINE Box == [main : Seq(Events), overflow : Seq(Events), notified : BOOLEAN]
<1>1. mailbox \in [Tasks -> Box] /\ mailbox[t] \in Box /\ mailbox[u] \in Box
  BY DEF Shape
<1>2. /\ Len(mailbox[u].main) <= MainLimit(u) /\ Len(mailbox[u].overflow) <= ListLimit(u)
      /\ Len(mailbox[t].main) <= MainLimit(t) /\ Len(mailbox[t].overflow) <= ListLimit(t)
  BY DEF Limits
<1>3. CASE u # t
  <2>1. mailbox'[u] = mailbox[u]
    BY <1>1, <1>3 DEF PutMain, PutOverflow
  <2> QED BY <1>2, <2>1
<1>4. CASE u = t /\ PutMain(t, e) /\ HasRoom(t, MainLimit(t))
  <2>1. mailbox'[t] = [mailbox[t] EXCEPT !.main = Append(mailbox[t].main, e)]
    BY <1>1, <1>4 DEF PutMain
  <2>2. /\ Len(mailbox[t].main) \in Nat
        /\ Len(Append(mailbox[t].main, e)) = Len(mailbox[t].main) + 1
    BY <1>1
  <2>3. Len(Append(mailbox[t].main, e)) <= MainLimit(t)
    BY <1>4, <2>2, LimitTypes DEF HasRoom
  <2> QED BY <1>1, <1>2, <1>4, <2>1, <2>3
<1>5. CASE u = t /\ PutOverflow(t, e, ListLimit(t))
  <2> DEFINE long == IF ~Listed(mailbox[t].overflow, e) /\ Len(mailbox[t].overflow) < ListLimit(t)
                       THEN Append(mailbox[t].overflow, e) ELSE mailbox[t].overflow
  <2>1. mailbox'[t] = [mailbox[t] EXCEPT !.notified = TRUE, !.overflow = long]
    BY <1>1, <1>5 DEF PutOverflow
  <2>2. /\ Len(mailbox[t].overflow) \in Nat
        /\ Len(Append(mailbox[t].overflow, e)) = Len(mailbox[t].overflow) + 1
    BY <1>1
  <2>3. Len(long) <= ListLimit(t)
    BY <1>2, <2>2, LimitTypes
  <2> HIDE DEF long
  <2> QED BY <1>1, <1>2, <1>5, <2>1, <2>3
<1> QED
  BY <1>3, <1>4, <1>5

\* A mailbox that only became shorter is still within its limits.
LEMMA TakeLimits ==
  ASSUME Shape, Limits, NEW t \in Tasks,
         NEW box \in [main : Seq(Events), overflow : Seq(Events), notified : BOOLEAN],
         Len(box.main) <= Len(mailbox[t].main), Len(box.overflow) <= Len(mailbox[t].overflow),
         mailbox' = [mailbox EXCEPT ![t] = box]
  PROVE  Limits'
<1> SUFFICES ASSUME NEW u \in Tasks
             PROVE  Len(mailbox'[u].main) <= MainLimit(u) /\ Len(mailbox'[u].overflow) <= ListLimit(u)
  BY DEF Limits, MainLimit, ListLimit
<1> DEFINE Box == [main : Seq(Events), overflow : Seq(Events), notified : BOOLEAN]
<1>1. mailbox \in [Tasks -> Box] /\ mailbox[t] \in Box
  BY DEF Shape
<1>2. /\ Len(mailbox[u].main) <= MainLimit(u) /\ Len(mailbox[u].overflow) <= ListLimit(u)
      /\ Len(mailbox[t].main) <= MainLimit(t) /\ Len(mailbox[t].overflow) <= ListLimit(t)
  BY DEF Limits
<1>3. /\ Len(box.main) \in Nat /\ Len(box.overflow) \in Nat
      /\ Len(mailbox[t].main) \in Nat /\ Len(mailbox[t].overflow) \in Nat
  BY <1>1
<1>4. CASE u = t
  <2>1. mailbox'[u] = box
    BY <1>1, <1>4
  <2> QED BY <1>2, <1>3, <1>4, <2>1, LimitTypes
<1>5. CASE u # t
  BY <1>1, <1>2, <1>5
<1> QED
  BY <1>4, <1>5

\* A step between phases without a permit, or between phases with one, keeps the
\* permits as they are.
LEMMA HoldersFrame ==
  ASSUME PermitsKept, permits' = permits,
         \A w \in Workers : phase'[w] \in {"handling", "leaving"}
                              <=> phase[w] \in {"handling", "leaving"}
  PROVE  PermitsKept'
<1>1. Holders' = Holders
  BY DEF Holders
<1> QED
  BY <1>1 DEF PermitsKept

\* One worker takes a permit.
LEMMA PermitTaken ==
  ASSUME Shape, PermitsKept, NEW w \in Workers, permits > 0, permits' = permits - 1,
         phase[w] \notin {"handling", "leaving"}, phase' = [phase EXCEPT ![w] = "handling"]
  PROVE  PermitsKept'
<1>1. phase \in [Tasks -> Phases] /\ Workers \subseteq Tasks
  BY DEF Shape, Tasks
<1>2. Holders' = Holders \cup {w} /\ w \notin Holders
  BY <1>1 DEF Holders
<1>3. Cardinality(Holders') = Cardinality(Holders) + 1
  BY <1>2, HoldersFinite, FS_AddElement
<1> QED
  BY <1>3, HoldersFinite, LimitTypes DEF PermitsKept

\* One worker gives its permit back.
LEMMA PermitReturned ==
  ASSUME Shape, PermitsKept, NEW w \in Workers, permits' = permits + 1,
         phase[w] \in {"handling", "leaving"},
         \E p \in {"main", "gone"} : phase' = [phase EXCEPT ![w] = p]
  PROVE  PermitsKept'
<1>1. phase \in [Tasks -> Phases] /\ Workers \subseteq Tasks
  BY DEF Shape, Tasks
<1>2. Holders' = Holders \ {w} /\ w \in Holders
  BY <1>1 DEF Holders
<1>3. Cardinality(Holders') = Cardinality(Holders) - 1
  BY <1>2, HoldersFinite, FS_RemoveElement
<1> QED
  BY <1>3, HoldersFinite, LimitTypes DEF PermitsKept

LEMMA SendStep4 ==
  ASSUME Inv4, NEW e \in Events, Send(e) \/ Spill(e)
  PROVE  Limits' /\ Places' /\ PermitsKept'
<1>1. Router \in Tasks /\ MainLimit(Router) = IngressCapacity /\ ListLimit(Router) = SpillCapacity
  BY DEF Tasks, MainLimit, ListLimit
<1>2. \/ PutMain(Router, e) /\ HasRoom(Router, IngressCapacity)
      \/ PutOverflow(Router, e, SpillCapacity)
      \/ mailbox' = mailbox
  BY DEF Send, Spill
<1>3. Limits'
  <2>1. CASE mailbox' = mailbox
    BY <2>1 DEF Inv4, Limits, MainLimit, ListLimit
  <2> QED
    BY <1>1, <1>2, <2>1, PutLimits DEF Inv4, Inv2, Inv
<1>4. UNCHANGED <<phase, permits>>
  BY DEF Send, Spill
<1>5. Places'
  BY <1>4 DEF Inv4, Places
<1>6. PermitsKept'
  BY <1>4, HoldersFrame DEF Inv4
<1> QED
  BY <1>3, <1>5, <1>6

LEMMA ReceiveStep4 ==
  ASSUME Inv4, NEW t \in Tasks, Receive(t)
  PROVE  Limits' /\ Places' /\ PermitsKept'
<1> DEFINE Box == [main : Seq(Events), overflow : Seq(Events), notified : BOOLEAN]
<1>1. /\ mailbox \in [Tasks -> Box] /\ mailbox[t] \in Box /\ phase \in [Tasks -> Phases]
  BY DEF Inv4, Inv2, Inv, Shape
<1>2. /\ phase[t] \in Polling /\ phase' = [phase EXCEPT ![t] = phase'[t]]
      /\ phase'[t] \in Polling \cup {Received(t)} /\ permits' = permits
  BY <1>1 DEF Receive, TakeMain, TakeOverflow, MainIsEmpty, OverflowIsEmpty, Woken, Polling
<1>3. Received(t) = IF t = Router THEN "route" ELSE "permit"
  BY DEF Received
<1>4. PICK box \in Box :
        /\ mailbox' = [mailbox EXCEPT ![t] = box]
        /\ Len(box.main) <= Len(mailbox[t].main) /\ Len(box.overflow) <= Len(mailbox[t].overflow)
  <2>1. CASE TakeMain(t)
    <3> DEFINE box == [mailbox[t] EXCEPT !.main = Tail(mailbox[t].main)]
    <3>1. /\ Tail(mailbox[t].main) \in Seq(Events) /\ Len(mailbox[t].main) \in Nat
          /\ Len(Tail(mailbox[t].main)) = Len(mailbox[t].main) - 1 /\ Len(mailbox[t].overflow) \in Nat
      BY <1>1, <2>1 DEF TakeMain
    <3>2. mailbox' = [mailbox EXCEPT ![t] = box]
      BY <1>1, <2>1 DEF TakeMain
    <3>3. box \in Box /\ box.main = Tail(mailbox[t].main) /\ box.overflow = mailbox[t].overflow
      BY <1>1, <3>1
    <3> HIDE DEF box
    <3>4. Len(box.main) <= Len(mailbox[t].main) /\ Len(box.overflow) <= Len(mailbox[t].overflow)
      BY <3>1, <3>3
    <3> QED BY <3>2, <3>3, <3>4
  <2>2. CASE TakeOverflow(t)
    <3> DEFINE box == [mailbox[t] EXCEPT !.overflow = Tail(mailbox[t].overflow)]
    <3>1. /\ Tail(mailbox[t].overflow) \in Seq(Events) /\ Len(mailbox[t].overflow) \in Nat
          /\ Len(Tail(mailbox[t].overflow)) = Len(mailbox[t].overflow) - 1
          /\ Len(mailbox[t].main) \in Nat
      BY <1>1, <2>2 DEF TakeOverflow
    <3>2. mailbox' = [mailbox EXCEPT ![t] = box]
      BY <1>1, <2>2 DEF TakeOverflow
    <3>3. box \in Box /\ box.overflow = Tail(mailbox[t].overflow) /\ box.main = mailbox[t].main
      BY <1>1, <3>1
    <3> HIDE DEF box
    <3>4. Len(box.overflow) <= Len(mailbox[t].overflow) /\ Len(box.main) <= Len(mailbox[t].main)
      BY <3>1, <3>3
    <3> QED BY <3>2, <3>3, <3>4
  <2>3. CASE MainIsEmpty(t) \/ OverflowIsEmpty(t) \/ Woken(t)
    <3> DEFINE box == [mailbox[t] EXCEPT !.notified = FALSE]
    <3>1. mailbox' = mailbox \/ mailbox' = [mailbox EXCEPT ![t] = box]
      BY <1>1, <2>3 DEF MainIsEmpty, OverflowIsEmpty, Woken
    <3>2. box \in Box /\ box.overflow = mailbox[t].overflow /\ box.main = mailbox[t].main
      BY <1>1
    <3>3. mailbox = [mailbox EXCEPT ![t] = mailbox[t]]
      BY <1>1
    <3>4. Len(mailbox[t].main) \in Nat /\ Len(mailbox[t].overflow) \in Nat
      BY <1>1
    <3> HIDE DEF box
    <3> QED BY <1>1, <3>1, <3>2, <3>3, <3>4
  <2> QED BY <2>1, <2>2, <2>3 DEF Receive
<1>5. Limits'
  BY <1>4, TakeLimits DEF Inv4, Inv2, Inv
<1>6. Places'
  BY <1>1, <1>2, <1>3 DEF Inv4, Places, Phases, Polling, Routing, Serving
<1>7. PermitsKept'
  BY <1>1, <1>2, <1>3, HoldersFrame DEF Inv4, Polling, Tasks
<1> QED
  BY <1>5, <1>6, <1>7

LEMMA RouteStep4 ==
  ASSUME Inv4, Route
  PROVE  Limits' /\ Places' /\ PermitsKept'
<1>1. Router \in Tasks /\ Router \notin Workers /\ Workers \subseteq Tasks
  BY DEF Tasks, Workers, Router
<1>2. phase \in [Tasks -> Phases] /\ permits' = permits
  BY DEF Inv4, Inv2, Inv, Shape, Route, FindWorker, SpawnWorker, Deliver, DeliverOverflow,
         DeliverClosed
<1>3. phase[Router] \in Routing
  BY DEF Route, FindWorker, SpawnWorker, Deliver, DeliverOverflow, DeliverClosed, Routing
<1>4. Routed \in Events /\ Routed.guild \in Guilds
  BY <1>1, <1>3, HeldEvent DEF Inv4, Inv2, Inv, Routed
<1>5. Limits'
  <2>1. CASE mailbox' = mailbox
    BY <2>1 DEF Inv4, Limits, MainLimit, ListLimit
  <2>2. CASE mailbox' # mailbox
    <3>1. phase[Router] \in {"deliver", "overflows"}
      BY <2>2 DEF Route, FindWorker, SpawnWorker, Deliver, DeliverOverflow, DeliverClosed
    <3>2. target \in Workers
      BY <3>1 DEF Inv4, Inv2, NamesItsOwn
    <3>3. target \in Tasks /\ MainLimit(target) = QueueCapacity /\ ListLimit(target) = OverflowCapacity
      BY <1>1, <3>2 DEF MainLimit, ListLimit
    <3>4. \/ PutMain(target, Routed) /\ HasRoom(target, QueueCapacity)
          \/ PutOverflow(target, Routed, OverflowCapacity)
      BY <2>2 DEF Route, FindWorker, SpawnWorker, Deliver, DeliverOverflow, DeliverClosed
    <3> QED BY <1>4, <3>3, <3>4, PutLimits DEF Inv4, Inv2, Inv
  <2> QED BY <2>1, <2>2
<1>6. CASE SpawnWorker
  <2>1. PICK w \in Workers : /\ serves[w] = {}
                             /\ phase' = [phase EXCEPT ![w] = "main", ![Router] = "deliver"]
    BY <1>6 DEF SpawnWorker
  <2>2. phase[w] = "unborn"
    BY <2>1 DEF Inv4, Inv2, Inv, ServingIsMapped
  <2>3. /\ phase'[Router] = "deliver" /\ phase'[w] = "main"
        /\ \A u \in Tasks : u \notin {w, Router} => phase'[u] = phase[u]
    BY <1>1, <1>2, <2>1
  <2>4. Places'
    BY <1>1, <2>3 DEF Inv4, Places, Phases, Polling, Routing, Serving
  <2>5. PermitsKept'
    BY <1>1, <1>2, <2>2, <2>3, HoldersFrame DEF Inv4
  <2> QED BY <1>5, <2>4, <2>5
<1>7. CASE ~SpawnWorker
  <2>1. \E p \in {"main", "deliver", "overflows"} : phase' = [phase EXCEPT ![Router] = p]
    BY <1>7 DEF Route, FindWorker, Deliver, DeliverOverflow, DeliverClosed, RouterReturns
  <2>2. /\ phase'[Router] \in {"main", "deliver", "overflows"}
        /\ \A u \in Tasks : u # Router => phase'[u] = phase[u]
    BY <1>1, <1>2, <2>1
  <2>3. Places'
    BY <2>2 DEF Inv4, Places, Polling, Routing
  <2>4. PermitsKept'
    BY <1>1, <1>2, <2>2, HoldersFrame DEF Inv4
  <2> QED BY <1>5, <2>3, <2>4
<1> QED
  BY <1>6, <1>7

LEMMA WorkStep4 ==
  ASSUME Inv4, NEW w \in Workers, Work(w) \/ Panic(w)
  PROVE  Limits' /\ Places' /\ PermitsKept'
<1> DEFINE Box == [main : Seq(Events), overflow : Seq(Events), notified : BOOLEAN]
<1>1. w \in Tasks /\ w # Router /\ Workers \subseteq Tasks
  BY DEF Tasks, Workers, Router
<1>2. mailbox \in [Tasks -> Box] /\ mailbox[w] \in Box /\ phase \in [Tasks -> Phases]
  BY <1>1 DEF Inv4, Inv2, Inv, Shape
<1>3. Limits'
  <2>1. CASE mailbox' = mailbox
    BY <2>1 DEF Inv4, Limits, MainLimit, ListLimit
  <2>2. CASE mailbox' = [mailbox EXCEPT ![w] = EmptyMailbox]
    <3>1. /\ EmptyMailbox \in Box
          /\ Len(EmptyMailbox.main) = 0 /\ Len(EmptyMailbox.overflow) = 0
      BY NothingHeld DEF EmptyMailbox
    <3>2. Len(mailbox[w].main) >= 0 /\ Len(mailbox[w].overflow) >= 0
      BY <1>2
    <3> QED BY <1>1, <2>2, <3>1, <3>2, TakeLimits DEF Inv4, Inv2, Inv
  <2> QED
    BY <2>1, <2>2 DEF Work, Panic, StartHandling, FinishHandling, Retire, Leave, Gone
<1>4. \E p \in {"main", "handling", "leaving", "gone"} : phase' = [phase EXCEPT ![w] = p]
  BY DEF Work, Panic, StartHandling, FinishHandling, Retire, Leave, Gone
<1>5. Places'
  BY <1>1, <1>2, <1>4 DEF Inv4, Places, Phases, Polling, Routing, Serving
<1>6. CASE StartHandling(w)
  <2>1. PermitsKept'
    BY <1>6, PermitTaken DEF StartHandling, Inv4, Inv2, Inv
  <2> QED BY <1>3, <1>5, <2>1
<1>7. CASE FinishHandling(w) \/ Leave(w) \/ Panic(w)
  <2>1. /\ permits' = permits + 1 /\ phase[w] \in {"handling", "leaving"}
        /\ \E p \in {"main", "gone"} : phase' = [phase EXCEPT ![w] = p]
    BY <1>7 DEF FinishHandling, Leave, Panic, Gone
  <2>2. PermitsKept'
    BY <2>1, PermitReturned DEF Inv4, Inv2, Inv
  <2> QED BY <1>3, <1>5, <2>2
<1>8. CASE Retire(w)
  <2>1. permits' = permits /\ phase[w] = "handling" /\ phase' = [phase EXCEPT ![w] = "leaving"]
    BY <1>8 DEF Retire
  <2>2. PermitsKept'
    BY <1>1, <1>2, <2>1, HoldersFrame DEF Inv4
  <2> QED BY <1>3, <1>5, <2>2
<1> QED
  BY <1>6, <1>7, <1>8 DEF Work

\* No channel and no list outgrows its capacity, a task never is in a phase of the
\* other kind, and every permit is either free or with a worker that handles or
\* ends: none is lost by a retiring or panicking worker (playback.rs:497-599).
THEOREM TypeCorrect == Spec => []TypeOK
<1>1. Init => Inv4
  <2> SUFFICES ASSUME Init PROVE Inv4
    OBVIOUS
  <2>1. Inv2
    BY InitInv DEF Init, Inv2, NamesItsOwn, BouncedIsForgotten, Tasks
  <2>2. Limits
    BY LimitTypes, NothingHeld DEF Init, Limits, EmptyMailbox
  <2>3. Places
    BY DEF Init, Places, Phases, Polling, Routing, Serving
  <2>4. Holders = {}
    BY DEF Init, Holders, Tasks, Workers, Router
  <2>5. PermitsKept
    BY <2>4, LimitTypes, FS_EmptySet DEF Init, PermitsKept
  <2> QED BY <2>1, <2>2, <2>3, <2>5 DEF Inv4
<1>2. Inv4 /\ [Next]_vars => Inv4'
  <2> SUFFICES ASSUME Inv4, [Next]_vars PROVE Inv4'
    OBVIOUS
  <2>1. Inv2'
    BY Inv2Step DEF Inv4
  <2>2. CASE UNCHANGED vars
    <3>1. Limits' /\ Places'
      BY <2>2 DEF vars, Inv4, Limits, MainLimit, ListLimit, Places
    <3>2. PermitsKept'
      BY <2>2, HoldersFrame DEF vars, Inv4
    <3> QED BY <2>1, <3>1, <3>2 DEF Inv4
  <2>3. CASE Next
    BY <2>1, <2>3, SendStep4, ReceiveStep4, RouteStep4, WorkStep4 DEF Next, Inv4
  <2> QED BY <2>2, <2>3
<1>3. Inv4 => TypeOK
  BY DEF Inv4, Inv2, Inv, TypeOK, Limits, MainLimit, ListLimit, Places, PermitsKept, Holders
<1> QED
  BY <1>1, <1>2, <1>3, PTL DEF Spec
=============================================================================
