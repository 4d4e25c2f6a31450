------------------------- MODULE MediaResolverProofs ------------------------
(***************************************************************************)
(* The resolver's gates, permits and caches, for any number of calls.      *)
(***************************************************************************)
EXTENDS MediaResolver, FiniteSetTheorems, SequenceTheorems, TLAPS

CallStates ==
    [pc : {"idle", "lookup", "acquire", "wait", "permit", "probe", "unlock", "drop", "remove",
           "done"},
     request : Nat, gate : Calls \cup {NoCall}, result : Nat, failedBefore : SUBSET Nat]

Entries == [source : Nat, at : Nat]

(* Types, in parts that few actions touch at once.                          *)
CallTypes == call \in [Calls -> CallStates]
CacheTypes ==
    /\ clock \in Nat /\ expiry \in Seq(Nat) /\ metadata \in Entries /\ prepared \in Entries
    /\ failed \subseteq Nat /\ scenario \in Scenarios /\ cancels \in Nat /\ evictions \in Nat
GateTypes ==
    /\ gate \in [Maps -> Calls \cup {NoCall}] /\ users \in [Calls -> Nat]
    /\ queue \in [Calls -> Seq(Calls)]
PermitTypes == permits \in 0..Permits

LEMMA TypeParts == TypeOK <=> CallTypes /\ CacheTypes /\ GateTypes /\ PermitTypes
  BY DEF TypeOK, CallTypes, CacheTypes, GateTypes, PermitTypes, CallStates, Entries

LEMMA TypePartsNext == TypeOK' <=> CallTypes' /\ CacheTypes' /\ GateTypes' /\ PermitTypes'
  BY DEF TypeOK, CallTypes, CacheTypes, GateTypes, PermitTypes, CallStates, Entries

-----------------------------------------------------------------------------
(* What a step does to the calls: one of them moves from one place to       *)
(* another and the others stay.                                             *)

Moves(c, from, to) ==
    /\ call' \in [Calls -> CallStates]
    /\ \A d \in Calls : d # c => call'[d] = call[d]
    /\ call[c].pc \in from /\ call'[c].pc \in to

KeepsGate(c) == call'[c].gate = call[c].gate

KeepsAnswer(c) ==
    /\ call'[c].result = call[c].result /\ call'[c].failedBefore = call[c].failedBefore
    /\ call'[c].request = call[c].request

LEMMA GoesMoves ==
  ASSUME CallTypes, NEW c \in Calls, NEW pc, NEW from, call[c].pc \in from, Goes(c, pc),
         pc \in {"acquire", "wait", "permit", "probe", "unlock", "drop", "remove", "done"}
  PROVE  Moves(c, from, {pc}) /\ KeepsGate(c) /\ KeepsAnswer(c)
<1> DEFINE r == [call[c] EXCEPT !.pc = pc]
<1>1. call[c] \in CallStates  BY DEF CallTypes
<1>2. r \in CallStates  BY <1>1 DEF CallStates
<1>3. call' = [call EXCEPT ![c] = r]  BY DEF Goes
<1>4. r.pc = pc /\ r.gate = call[c].gate /\ r.result = call[c].result
      /\ r.failedBefore = call[c].failedBefore /\ r.request = call[c].request
  BY <1>1 DEF CallStates
<1> HIDE DEF r
<1>5. call'[c] = r  BY <1>3 DEF CallTypes
<1> QED  BY <1>2, <1>3, <1>4, <1>5 DEF Moves, KeepsGate, KeepsAnswer, CallTypes

LEMMA ReturnsMoves ==
  ASSUME CallTypes, NEW c \in Calls, NEW pc, NEW from, call[c].pc \in from, NEW s \in Nat,
         Returns(c, pc, s), pc \in {"unlock", "done"}
  PROVE  /\ Moves(c, from, {pc}) /\ KeepsGate(c)
         /\ call'[c].result = s /\ call'[c].failedBefore = call[c].failedBefore
         /\ call'[c].request = call[c].request
<1> DEFINE r == [call[c] EXCEPT !.pc = pc, !.result = s]
<1>1. call[c] \in CallStates  BY DEF CallTypes
<1>2. r \in CallStates  BY <1>1 DEF CallStates
<1>3. call' = [call EXCEPT ![c] = r]  BY DEF Returns
<1>4. r.pc = pc /\ r.gate = call[c].gate /\ r.result = s
      /\ r.failedBefore = call[c].failedBefore /\ r.request = call[c].request
  BY <1>1 DEF CallStates
<1> HIDE DEF r
<1>5. call'[c] = r  BY <1>3 DEF CallTypes
<1> QED  BY <1>2, <1>3, <1>4, <1>5 DEF Moves, KeepsGate, CallTypes

LEMMA BeginMoves ==
  ASSUME TypeOK, NEW c \in Calls, NEW s \in Sources, Begin(c, s)
  PROVE  /\ Moves(c, {"idle"}, {"lookup", "acquire"})
         /\ call'[c].gate = NoCall /\ call'[c].result = NoSource /\ call'[c].request = s
         /\ call'[c].failedBefore = failed
<1> DEFINE pc == IF scenario.kind[c] \in {"resolve", "prepare"} THEN "lookup" ELSE "acquire"
           r == [NotBegun EXCEPT !.pc = pc, !.request = s, !.failedBefore = failed]
<1>1. s \in Nat /\ failed \subseteq Nat /\ call \in [Calls -> CallStates]
  BY TypeParts DEF Sources, CacheTypes, CallTypes
<1>2. pc \in {"lookup", "acquire"}  OBVIOUS
<1> HIDE DEF pc
<1>3. /\ r \in CallStates /\ r.pc = pc /\ r.gate = NoCall /\ r.result = NoSource
      /\ r.failedBefore = failed /\ r.request = s
  BY <1>1, <1>2 DEF NotBegun, CallStates, NoSource
<1>4. call' = [call EXCEPT ![c] = r] /\ call[c].pc = "idle"  BY DEF Begin, pc
<1> HIDE DEF r
<1>5. call'[c] = r  BY <1>1, <1>4
<1> QED  BY <1>1, <1>2, <1>3, <1>4, <1>5 DEF Moves

LEMMA AcquireMoves ==
  ASSUME TypeOK, NEW c \in Calls, AcquireInflight(c)
  PROVE  /\ Moves(c, {"acquire"}, {"wait"}) /\ KeepsAnswer(c)
         /\ call'[c].gate = IF gate[MapOf(c)] = NoCall THEN c ELSE gate[MapOf(c)]
         /\ call'[c].gate \in Calls
<1> DEFINE g == IF gate[MapOf(c)] = NoCall THEN c ELSE gate[MapOf(c)]
           r == [call[c] EXCEPT !.pc = "wait", !.gate = g]
<1>1. call[c] \in CallStates /\ call \in [Calls -> CallStates]  BY TypeParts DEF CallTypes
<1>2. g \in Calls  BY TypeParts DEF GateTypes, MapOf, Maps
<1>3. call' = [call EXCEPT ![c] = r] /\ call[c].pc = "acquire"  BY DEF AcquireInflight
<1> HIDE DEF g
<1>4. r \in CallStates /\ r.pc = "wait" /\ r.gate = g /\ r.result = call[c].result
      /\ r.failedBefore = call[c].failedBefore /\ r.request = call[c].request
  BY <1>1, <1>2 DEF CallStates
<1> HIDE DEF r
<1>5. call'[c] = r  BY <1>1, <1>3
<1> QED  BY <1>1, <1>2, <1>3, <1>4, <1>5 DEF Moves, KeepsAnswer, g

LEMMA LookupTyped ==
  ASSUME TypeOK, NEW kind
  PROVE  /\ Lookup(kind).hit \in Nat
         /\ Lookup(kind).metadata \in Entries /\ Lookup(kind).prepared \in Entries
<1>1. metadata \in Entries /\ prepared \in Entries /\ Empty \in Entries /\ NoSource \in Nat
  BY TypeParts DEF CacheTypes, Empty, Entries, NoSource
<1>2. metadata.source \in Nat /\ prepared.source \in Nat  BY <1>1 DEF Entries
<1> QED  BY <1>1, <1>2 DEF Lookup, LookupCached, LookupPrepared

LEMMA FirstLookupMoves ==
  ASSUME TypeOK, NEW c \in Calls, FirstLookup(c)
  PROVE  /\ Moves(c, {"lookup"}, {"acquire", "done"}) /\ KeepsGate(c)
         /\ call'[c].failedBefore = call[c].failedBefore
         /\ call'[c].request = call[c].request
         /\ call'[c].result \in {call[c].result, call[c].request,
                                 Lookup(scenario.kind[c]).hit}
<1>1. CallTypes /\ call[c] \in CallStates  BY TypeParts DEF CallTypes
<1>2. call[c].request \in Nat /\ Lookup(scenario.kind[c]).hit \in Nat
  BY <1>1, LookupTyped DEF CallStates
<1>3. call[c].pc \in {"lookup"}  BY DEF FirstLookup
<1>4. CASE Goes(c, "acquire")
  <2>1. Moves(c, {"lookup"}, {"acquire"}) /\ KeepsGate(c) /\ KeepsAnswer(c)
    BY <1>1, <1>3, <1>4, GoesMoves
  <2> QED  BY <2>1 DEF Moves, KeepsAnswer
<1>5. CASE \E s \in {call[c].request, Lookup(scenario.kind[c]).hit} : Returns(c, "done", s)
  <2>1. PICK s \in {call[c].request, Lookup(scenario.kind[c]).hit} : Returns(c, "done", s)
    BY <1>5
  <2>2. /\ Moves(c, {"lookup"}, {"done"}) /\ KeepsGate(c)
        /\ call'[c].result = s /\ call'[c].failedBefore = call[c].failedBefore
        /\ call'[c].request = call[c].request
    BY <1>1, <1>2, <1>3, <2>1, ReturnsMoves
  <2> QED  BY <2>1, <2>2 DEF Moves
<1> QED  BY <1>4, <1>5 DEF FirstLookup

LEMMA LockedMoves ==
  ASSUME TypeOK, NEW c \in Calls, Locked(c)
  PROVE  /\ Moves(c, {"wait"}, {"permit", "unlock"}) /\ KeepsGate(c)
         /\ call'[c].failedBefore = call[c].failedBefore
         /\ call'[c].request = call[c].request
         /\ call'[c].result \in {call[c].result, Lookup(scenario.kind[c]).hit}
<1>1. CallTypes /\ call[c] \in CallStates  BY TypeParts DEF CallTypes
<1>2. Lookup(scenario.kind[c]).hit \in Nat  BY LookupTyped
<1>3. call[c].pc \in {"wait"}  BY DEF Locked
<1>4. CASE Goes(c, "permit")
  <2>1. Moves(c, {"wait"}, {"permit"}) /\ KeepsGate(c) /\ KeepsAnswer(c)
    BY <1>1, <1>3, <1>4, GoesMoves
  <2> QED  BY <2>1 DEF Moves, KeepsAnswer
<1>5. CASE Returns(c, "unlock", Lookup(scenario.kind[c]).hit)
  <2>1. /\ Moves(c, {"wait"}, {"unlock"}) /\ KeepsGate(c)
        /\ call'[c].result = Lookup(scenario.kind[c]).hit
        /\ call'[c].failedBefore = call[c].failedBefore
        /\ call'[c].request = call[c].request
    BY <1>1, <1>2, <1>3, <1>5, ReturnsMoves
  <2> QED  BY <2>1 DEF Moves
<1> QED  BY <1>4, <1>5 DEF Locked

LEMMA LateMoves ==
  ASSUME TypeOK, NEW c \in Calls
  PROVE  /\ AcquireProbeSlot(c) => Moves(c, {"permit"}, {"probe"}) /\ KeepsGate(c) /\ KeepsAnswer(c)
         /\ ProbeQueueTimeout(c)
              => Moves(c, {"permit"}, {"unlock"}) /\ KeepsGate(c) /\ KeepsAnswer(c)
         /\ ProbeFails(c) => Moves(c, {"probe"}, {"unlock"}) /\ KeepsGate(c) /\ KeepsAnswer(c)
         /\ Unlock(c) => Moves(c, {"unlock"}, {"drop"}) /\ KeepsGate(c) /\ KeepsAnswer(c)
         /\ RemoveGate(c) => Moves(c, {"remove"}, {"done"}) /\ KeepsGate(c) /\ KeepsAnswer(c)
<1>1. CallTypes  BY TypeParts
<1>2. AcquireProbeSlot(c) => call[c].pc \in {"permit"} /\ Goes(c, "probe")
  BY DEF AcquireProbeSlot
<1>3. ProbeQueueTimeout(c) => call[c].pc \in {"permit"} /\ Goes(c, "unlock")
  BY DEF ProbeQueueTimeout
<1>4. ProbeFails(c) => call[c].pc \in {"probe"} /\ Goes(c, "unlock")  BY DEF ProbeFails
<1>5. Unlock(c) => call[c].pc \in {"unlock"} /\ Goes(c, "drop")  BY DEF Unlock
<1>6. RemoveGate(c) => call[c].pc \in {"remove"} /\ Goes(c, "done")  BY DEF RemoveGate
<1> QED  BY <1>1, <1>2, <1>3, <1>4, <1>5, <1>6, GoesMoves

LEMMA CancelMoves ==
  ASSUME TypeOK, NEW c \in Calls, Cancel(c)
  PROVE  Moves(c, {"wait", "permit", "probe"}, {"unlock"}) /\ KeepsGate(c) /\ KeepsAnswer(c)
<1>1. CallTypes  BY TypeParts
<1>2. call[c].pc \in {"wait", "permit", "probe"} /\ Goes(c, "unlock")  BY DEF Cancel
<1> QED  BY <1>1, <1>2, GoesMoves

LEMMA DropMoves ==
  ASSUME TypeOK, NEW c \in Calls, DropLease(c)
  PROVE  /\ Moves(c, {"drop"}, {"remove", "done"}) /\ KeepsGate(c) /\ KeepsAnswer(c)
         /\ call'[c].pc = "remove" <=> users[call[c].gate] = 1
<1>1. CallTypes  BY TypeParts
<1> DEFINE pc == IF users[call[c].gate] = 1 THEN "remove" ELSE "done"
<1>2. call[c].pc \in {"drop"} /\ Goes(c, pc)  BY DEF DropLease
<1>3. pc \in {"remove", "done"}  OBVIOUS
<1>4. Moves(c, {"drop"}, {pc}) /\ KeepsGate(c) /\ KeepsAnswer(c)
  <2> HIDE DEF pc
  <2> QED  BY <1>1, <1>2, <1>3, GoesMoves
<1> QED  BY <1>4 DEF Moves

LEMMA ProbeSucceedsMoves ==
  ASSUME TypeOK, NEW c \in Calls, ProbeSucceeds(c)
  PROVE  /\ Moves(c, {"probe"}, {"unlock"}) /\ KeepsGate(c)
         /\ call'[c].result = Len(expiry) + 1
         /\ call'[c].failedBefore = call[c].failedBefore
         /\ call'[c].request = call[c].request
         /\ expiry' \in Seq(Nat) /\ Len(expiry') = Len(expiry) + 1
<1>1. CallTypes /\ expiry \in Seq(Nat) /\ clock \in Nat /\ scenario \in Scenarios
  BY TypeParts DEF CacheTypes
<1>2. Len(expiry) + 1 \in Nat  BY <1>1
<1>3. call[c].pc \in {"probe"} /\ Returns(c, "unlock", Len(expiry) + 1)  BY DEF ProbeSucceeds
<1>4. scenario.lives \subseteq Nat  BY <1>1, ResolverAssumption
<1>5. PICK l \in scenario.lives :
        expiry' = Append(expiry, IF l = Never THEN Never ELSE clock + l)
  BY DEF ProbeSucceeds
<1>6. (IF l = Never THEN Never ELSE clock + l) \in Nat
  BY <1>1, <1>4, ResolverAssumption
<1>7. expiry' \in Seq(Nat) /\ Len(expiry') = Len(expiry) + 1  BY <1>1, <1>5, <1>6
<1> QED  BY <1>1, <1>2, <1>3, <1>7, ReturnsMoves

LEMMA CallsStayTyped == ASSUME TypeOK, [Next]_vars PROVE CallTypes'
<1>1. CallTypes  BY TypeParts
<1>2. ASSUME UNCHANGED call PROVE CallTypes'  BY <1>1, <1>2 DEF CallTypes
<1>3. ASSUME NEW c, NEW from, NEW to, Moves(c, from, to) PROVE CallTypes'
  BY <1>3 DEF Moves, CallTypes
<1>4. ASSUME NEW c \in Calls, NEW s \in Sources, Begin(c, s) PROVE CallTypes'
  BY <1>3, <1>4, BeginMoves
<1>5. ASSUME NEW c \in Calls,
             \/ FirstLookup(c) \/ AcquireInflight(c) \/ Locked(c) \/ AcquireProbeSlot(c)
             \/ ProbeQueueTimeout(c) \/ ProbeSucceeds(c) \/ ProbeFails(c) \/ Unlock(c)
             \/ DropLease(c) \/ RemoveGate(c) \/ Cancel(c)
      PROVE  CallTypes'
  BY <1>3, <1>5, FirstLookupMoves, AcquireMoves, LockedMoves, LateMoves, CancelMoves,
     DropMoves, ProbeSucceedsMoves
<1> QED  BY <1>2, <1>4, <1>5 DEF Next, vars, Tick, Evict

LEMMA CachesStayTyped == ASSUME TypeOK, [Next]_vars PROVE CacheTypes'
<1>0. CacheTypes  BY TypeParts
<1>1. Empty \in Entries /\ NoSource \in Nat
  BY DEF Empty, Entries, NoSource
<1>2. ASSUME UNCHANGED <<expiry, caches, failed, clock, scenario>>,
             cancels' \in Nat, evictions' \in Nat
      PROVE  CacheTypes'
  BY <1>0, <1>2 DEF CacheTypes, caches
<1>3. cancels \in Nat /\ evictions \in Nat  BY <1>0 DEF CacheTypes
<1>4. ASSUME NEW c \in Calls, FirstLookup(c) PROVE CacheTypes'
  <2>1. call[c].request \in Nat  BY TypeParts DEF CallTypes, CallStates
  <2>2. Entry(call[c].request) \in Entries  BY <2>1, <1>0 DEF Entry, Entries, CacheTypes
  <2>3. metadata' \in Entries /\ prepared' \in Entries
    BY <1>4, <2>2, LookupTyped DEF FirstLookup
  <2> QED  BY <1>0, <1>4, <2>3 DEF FirstLookup, CacheTypes, world
<1>5. ASSUME NEW c \in Calls, Locked(c) PROVE CacheTypes'
  <2>1. call[c].request \in Nat  BY TypeParts DEF CallTypes, CallStates
  <2>2. metadata' \in Entries /\ prepared' \in Entries
    <3>1. metadata \in Entries /\ prepared \in Entries  BY <1>0 DEF CacheTypes
    <3> QED  BY <1>1, <1>5, <3>1, LookupTyped DEF Locked, Forget, caches
  <2>3. failed' \subseteq Nat  BY <1>0, <1>5, <2>1 DEF Locked, CacheTypes
  <2> QED  BY <1>0, <1>5, <2>2, <2>3 DEF Locked, CacheTypes, world
<1>6. ASSUME NEW c \in Calls, ProbeSucceeds(c) PROVE CacheTypes'
  <2>1. expiry' \in Seq(Nat) /\ Len(expiry) + 1 \in Nat
    BY <1>0, <1>6, ProbeSucceedsMoves DEF CacheTypes
  <2>2. Entry(Len(expiry) + 1) \in Entries  BY <1>0, <2>1 DEF CacheTypes, Entry, Entries
  <2> QED  BY <1>0, <1>6, <2>1, <2>2 DEF ProbeSucceeds, CacheTypes, world
<1>7. CASE Tick  BY <1>0, <1>7 DEF Tick, CacheTypes, caches
<1>8. CASE Evict  BY <1>0, <1>1, <1>8 DEF Evict, CacheTypes
<1>9. ASSUME NEW c \in Calls, Cancel(c) PROVE CacheTypes'
  BY <1>2, <1>3, <1>9 DEF Cancel
<1>10. ASSUME UNCHANGED <<expiry, caches, failed, world>> PROVE CacheTypes'
  BY <1>2, <1>3, <1>10 DEF world
<1> QED
  BY <1>4, <1>5, <1>6, <1>7, <1>8, <1>9, <1>10
  DEF Next, vars, caches, world, Begin, AcquireInflight, AcquireProbeSlot, ProbeQueueTimeout,
      ProbeFails, Unlock, DropLease, RemoveGate

-----------------------------------------------------------------------------
(* A failed source stays out of the caches.                                 *)

Known == Sources \cup {NoSource}

\* Every source named anywhere has been fetched, what failed is a source, and a
\* call remembers what had failed when it began.
SourcesKnown ==
    /\ metadata.source \in Known /\ prepared.source \in Known /\ failed \subseteq Sources
    /\ \A c \in Calls : /\ call[c].request \in Known
                        /\ call[c].pc # "idle" => call[c].request \in Sources
                        /\ call[c].failedBefore \subseteq failed

CachesClean ==
    scenario.transient => metadata.source \notin failed /\ prepared.source \notin failed

LEMMA LookupHits ==
  ASSUME TypeOK, NEW kind
  PROVE  /\ Lookup(kind).hit \in {NoSource, metadata.source, prepared.source}
         /\ Lookup(kind).metadata.source \in {NoSource, metadata.source}
         /\ Lookup(kind).prepared.source \in {NoSource, prepared.source}
  BY DEF Lookup, LookupCached, LookupPrepared, Empty

SourcesInv == SourcesKnown /\ CachesClean /\ NotServedAgain

LEMMA KnownGrows ==
  ASSUME TypeOK, expiry' = expiry \/ (expiry' \in Seq(Nat) /\ Len(expiry') = Len(expiry) + 1)
  PROVE  Sources \subseteq Sources' /\ Known \subseteq Known'
<1>1. Len(expiry) \in Nat  BY TypeParts DEF CacheTypes
<1>2. Sources \subseteq Sources'  BY <1>1 DEF Sources
<1> QED  BY <1>2 DEF Known

\* What happens to the calls alone.
LEMMA CallsKnown ==
  ASSUME TypeOK, SourcesInv, NEW c \in Calls, NEW from, NEW to, Moves(c, from, to),
         failed \subseteq failed', scenario' = scenario,
         Sources \subseteq Sources', Known \subseteq Known',
         call'[c].request \in Sources',
         call'[c].failedBefore \subseteq failed',
         scenario.transient => call'[c].result \notin call'[c].failedBefore
  PROVE  /\ \A d \in Calls : /\ call'[d].request \in Known'
                             /\ call'[d].pc # "idle" => call'[d].request \in Sources'
                             /\ call'[d].failedBefore \subseteq failed'
         /\ NotServedAgain'
<1>1. ASSUME NEW d \in Calls
      PROVE  /\ call'[d].request \in Known'
             /\ call'[d].pc # "idle" => call'[d].request \in Sources'
             /\ call'[d].failedBefore \subseteq failed'
             /\ scenario.transient => call'[d].result \notin call'[d].failedBefore
  <2>1. CASE d = c  BY <2>1 DEF Known
  <2>2. CASE d # c
    <3>1. call'[d] = call[d]  BY <2>2 DEF Moves
    <3> QED  BY <3>1 DEF SourcesInv, SourcesKnown, NotServedAgain
  <2> QED  BY <2>1, <2>2
<1> QED  BY <1>1 DEF NotServedAgain

LEMMA SourcesStepCalls ==
  ASSUME TypeOK, SourcesInv, NEW c \in Calls,
         \/ FirstLookup(c) \/ Locked(c) \/ ProbeSucceeds(c) \/ \E s \in Sources : Begin(c, s)
  PROVE  SourcesInv'
<1>0. SourcesKnown /\ CachesClean /\ NotServedAgain  BY DEF SourcesInv
<1>1. NoSource \notin Sources /\ Sources \subseteq Nat  BY DEF NoSource, Sources
<1>2. NoSource \notin failed /\ NoSource \in Known  BY <1>0, <1>1 DEF SourcesKnown, Known
<1>3. scenario.transient => call[c].result \notin call[c].failedBefore
  BY <1>0 DEF NotServedAgain
<1>4. call[c].failedBefore \subseteq failed  BY <1>0 DEF SourcesKnown
<1> DEFINE hit == Lookup(scenario.kind[c]).hit
<1>5. hit \in Known /\ (scenario.transient => hit \notin failed)
  BY <1>0, <1>2, LookupHits DEF SourcesKnown, CachesClean
<1>6. ASSUME FirstLookup(c) PROVE SourcesInv'
  <2>1. /\ expiry' = expiry /\ failed' = failed /\ scenario' = scenario
        /\ Sources' = Sources /\ Known' = Known
    BY <1>6 DEF FirstLookup, world, Sources, Known
  <2>2. call[c].request \in Sources  BY <1>0, <1>6 DEF SourcesKnown, FirstLookup
  <2>3. scenario.transient => call'[c].result \in {call[c].result, hit}
    <3>1. scenario.transient => ShouldRefreshOnPrepare(call[c].request)
      BY DEF ShouldRefreshOnPrepare
    <3>2. CASE hit # NoSource
      <4>1. Returns(c, "done", hit)  BY <1>6, <3>2 DEF FirstLookup
      <4>2. hit \in Nat /\ CallTypes /\ call[c].pc \in {"lookup"}
        BY <1>6, LookupTyped, TypeParts DEF FirstLookup
      <4> QED  BY <4>1, <4>2, ReturnsMoves
    <3>3. CASE hit = NoSource /\ scenario.transient
      <4>1. Goes(c, "acquire")  BY <1>6, <3>1, <3>3 DEF FirstLookup
      <4>2. CallTypes /\ call[c].pc \in {"lookup"}  BY <1>6, TypeParts DEF FirstLookup
      <4> QED  BY <4>1, <4>2, GoesMoves DEF KeepsAnswer
    <3> QED  BY <3>2, <3>3
  <2>4. /\ prepared'.source \in Known
        /\ scenario.transient => prepared'.source \notin failed
        /\ metadata'.source \in Known
        /\ scenario.transient => metadata'.source \notin failed
    <3>1. scenario.transient => ShouldRefreshOnPrepare(call[c].request)
      BY DEF ShouldRefreshOnPrepare
    <3>2. Entry(call[c].request).source = call[c].request  BY DEF Entry
    <3>3. /\ metadata.source \in Known /\ prepared.source \in Known
          /\ scenario.transient => metadata.source \notin failed
          /\ scenario.transient => prepared.source \notin failed
      BY <1>0 DEF SourcesKnown, CachesClean
    <3>4. /\ Lookup(scenario.kind[c]).metadata.source \in {NoSource, metadata.source}
          /\ Lookup(scenario.kind[c]).prepared.source \in {NoSource, prepared.source}
      BY LookupHits
    <3>5. call[c].request \in Known  BY <2>2 DEF Known
    <3>6. metadata' = Lookup(scenario.kind[c]).metadata  BY <1>6 DEF FirstLookup
    <3>7. \/ prepared' = Lookup(scenario.kind[c]).prepared
          \/ prepared' = Entry(call[c].request) /\ ~ShouldRefreshOnPrepare(call[c].request)
      BY <1>6 DEF FirstLookup
    <3> QED  BY <3>1, <3>2, <3>3, <3>4, <3>5, <3>6, <3>7, <1>2
  <2>5. Moves(c, {"lookup"}, {"acquire", "done"})
        /\ call'[c].failedBefore = call[c].failedBefore /\ call'[c].request = call[c].request
    BY <1>6, FirstLookupMoves
  <2>6. scenario.transient => call'[c].result \notin call'[c].failedBefore
    BY <2>3, <2>5, <1>3, <1>4, <1>5
  <2>7. /\ \A d \in Calls : /\ call'[d].request \in Known'
                            /\ call'[d].pc # "idle" => call'[d].request \in Sources'
                            /\ call'[d].failedBefore \subseteq failed'
        /\ NotServedAgain'
    BY <2>1, <2>2, <2>5, <2>6, <1>4, CallsKnown
  <2> QED
    BY <1>0, <2>1, <2>4, <2>7 DEF SourcesInv, SourcesKnown, CachesClean
<1>7. ASSUME Locked(c) PROVE SourcesInv'
  <2>1. expiry' = expiry /\ scenario' = scenario /\ Sources' = Sources /\ Known' = Known
    BY <1>7 DEF Locked, world, Sources, Known
  <2>2. call[c].request \in Sources  BY <1>0, <1>7 DEF SourcesKnown, Locked
  <2>3. failed \subseteq failed' /\ failed' \subseteq Sources
    BY <1>0, <1>7, <2>2 DEF Locked, SourcesKnown
  <2>4. /\ prepared'.source \in Known
        /\ scenario.transient => prepared'.source \notin failed'
        /\ metadata'.source \in Known
        /\ scenario.transient => metadata'.source \notin failed'
    <3>1. /\ metadata.source \in Known /\ prepared.source \in Known
          /\ scenario.transient => metadata.source \notin failed
          /\ scenario.transient => prepared.source \notin failed
      BY <1>0 DEF SourcesKnown, CachesClean
    <3>2. /\ Lookup(scenario.kind[c]).metadata.source \in {NoSource, metadata.source}
          /\ Lookup(scenario.kind[c]).prepared.source \in {NoSource, prepared.source}
      BY LookupHits
    <3>3. NoSource \notin failed'  BY <1>1, <2>3
    <3>4. \/ /\ metadata' = Lookup(scenario.kind[c]).metadata
             /\ prepared' = Lookup(scenario.kind[c]).prepared /\ failed' = failed
          \/ metadata' = metadata /\ prepared' = prepared /\ failed' = failed
          \/ metadata'.source = NoSource /\ prepared'.source = NoSource
      BY <1>7 DEF Locked, Forget, caches, Empty
    <3> QED  BY <3>1, <3>2, <3>3, <3>4, <1>2
  <2>5. /\ Moves(c, {"wait"}, {"permit", "unlock"})
        /\ call'[c].failedBefore = call[c].failedBefore /\ call'[c].request = call[c].request
        /\ call'[c].result \in {call[c].result, hit}
    BY <1>7, LockedMoves
  <2>6. scenario.transient => call'[c].result \notin call'[c].failedBefore
    BY <2>5, <1>3, <1>4, <1>5
  <2>7. /\ \A d \in Calls : /\ call'[d].request \in Known'
                            /\ call'[d].pc # "idle" => call'[d].request \in Sources'
                            /\ call'[d].failedBefore \subseteq failed'
        /\ NotServedAgain'
    BY <2>1, <2>2, <2>3, <2>5, <2>6, <1>4, CallsKnown
  <2> QED
    BY <2>1, <2>3, <2>4, <2>7 DEF SourcesInv, SourcesKnown, CachesClean
<1>8. ASSUME ProbeSucceeds(c) PROVE SourcesInv'
  <2>1. /\ expiry' \in Seq(Nat) /\ Len(expiry') = Len(expiry) + 1
        /\ Moves(c, {"probe"}, {"unlock"}) /\ call'[c].result = Len(expiry) + 1
        /\ call'[c].failedBefore = call[c].failedBefore /\ call'[c].request = call[c].request
    BY <1>8, ProbeSucceedsMoves
  <2>2. failed' = failed /\ scenario' = scenario  BY <1>8 DEF ProbeSucceeds, world
  <2>3. Sources \subseteq Sources' /\ Known \subseteq Known'  BY <2>1, KnownGrows
  <2>4. call[c].request \in Sources  BY <1>0, <1>8 DEF SourcesKnown, ProbeSucceeds
  <2>5. Len(expiry) + 1 \in Sources' /\ Len(expiry) + 1 \notin Sources
    <3>1. Len(expiry) \in Nat  BY TypeParts DEF CacheTypes
    <3> QED  BY <3>1, <2>1 DEF Sources
  <2>6. Len(expiry) + 1 \notin failed  BY <1>0, <2>5 DEF SourcesKnown
  <2>7. metadata'.source = Len(expiry) + 1 /\ prepared'.source = Len(expiry) + 1
    BY <1>8 DEF ProbeSucceeds, Entry
  <2>8. /\ \A d \in Calls : /\ call'[d].request \in Known'
                            /\ call'[d].pc # "idle" => call'[d].request \in Sources'
                            /\ call'[d].failedBefore \subseteq failed'
        /\ NotServedAgain'
    BY <2>1, <2>2, <2>3, <2>4, <2>6, <1>4, CallsKnown
  <2>9. failed' \subseteq Sources'  BY <1>0, <2>2, <2>3 DEF SourcesKnown
  <2> QED
    BY <2>2, <2>5, <2>6, <2>7, <2>8, <2>9 DEF SourcesInv, SourcesKnown, CachesClean, Known
<1>9. ASSUME NEW s \in Sources, Begin(c, s) PROVE SourcesInv'
  <2>1. /\ Moves(c, {"idle"}, {"lookup", "acquire"})
        /\ call'[c].result = NoSource /\ call'[c].request = s
        /\ call'[c].failedBefore = failed
    BY <1>9, BeginMoves
  <2>2. /\ expiry' = expiry /\ scenario' = scenario /\ Sources' = Sources /\ Known' = Known
        /\ failed' = failed /\ metadata' = metadata /\ prepared' = prepared
    BY <1>9 DEF Begin, world, Sources, Known, caches
  <2>3. /\ \A d \in Calls : /\ call'[d].request \in Known'
                            /\ call'[d].pc # "idle" => call'[d].request \in Sources'
                            /\ call'[d].failedBefore \subseteq failed'
        /\ NotServedAgain'
    BY <2>1, <2>2, <1>2, CallsKnown
  <2> QED
    BY <1>0, <2>2, <2>3 DEF SourcesInv, SourcesKnown, CachesClean
<1> QED  BY <1>6, <1>7, <1>8, <1>9

LEMMA SourcesStep == ASSUME TypeOK, SourcesInv, [Next]_vars PROVE SourcesInv'
<1>0. SourcesKnown /\ CachesClean /\ NotServedAgain  BY DEF SourcesInv
<1>1. ASSUME NEW c \in Calls, NEW from, NEW to, Moves(c, from, to), KeepsAnswer(c),
             call[c].pc # "idle",
             UNCHANGED <<expiry, caches, failed, scenario>>
      PROVE  SourcesInv'
  <2>1. /\ Sources' = Sources /\ Known' = Known /\ scenario' = scenario /\ failed' = failed
        /\ metadata' = metadata /\ prepared' = prepared
    BY <1>1 DEF Sources, Known, caches
  <2>2. call[c].request \in Sources /\ call[c].failedBefore \subseteq failed
    BY <1>0, <1>1 DEF SourcesKnown
  <2>3. scenario.transient => call[c].result \notin call[c].failedBefore
    BY <1>0 DEF NotServedAgain
  <2>4. /\ \A d \in Calls : /\ call'[d].request \in Known'
                            /\ call'[d].pc # "idle" => call'[d].request \in Sources'
                            /\ call'[d].failedBefore \subseteq failed'
        /\ NotServedAgain'
    BY <1>1, <2>1, <2>2, <2>3, CallsKnown DEF KeepsAnswer
  <2> QED  BY <1>0, <2>1, <2>4 DEF SourcesInv, SourcesKnown, CachesClean
<1>2. ASSUME UNCHANGED <<expiry, call, failed, scenario>>,
             metadata'.source \in {NoSource, metadata.source},
             prepared'.source \in {NoSource, prepared.source}
      PROVE  SourcesInv'
  <2>1. NoSource \notin failed /\ NoSource \in Known
    BY <1>0 DEF SourcesKnown, Sources, NoSource, Known
  <2> QED  BY <1>0, <1>2, <2>1
      DEF SourcesInv, SourcesKnown, CachesClean, NotServedAgain, Sources, Known
<1>3. ASSUME NEW c \in Calls,
             \/ AcquireInflight(c) \/ AcquireProbeSlot(c) \/ ProbeQueueTimeout(c)
             \/ ProbeFails(c) \/ Unlock(c) \/ DropLease(c) \/ RemoveGate(c) \/ Cancel(c)
      PROVE  SourcesInv'
  <2>1. call[c].pc # "idle" /\ UNCHANGED <<expiry, caches, failed, scenario>>
    BY <1>3
    DEF AcquireInflight, AcquireProbeSlot, ProbeQueueTimeout, ProbeFails, Unlock, DropLease,
        RemoveGate, Cancel, world
  <2>2. KeepsAnswer(c) /\ \E from, to : Moves(c, from, to)
    BY <1>3, AcquireMoves, LateMoves, DropMoves, CancelMoves
  <2> QED  BY <1>1, <2>1, <2>2
<1>4. CASE Tick \/ Evict \/ UNCHANGED vars
  BY <1>2, <1>4 DEF Tick, Evict, vars, caches, Empty
<1>5. ASSUME NEW c \in Calls, NEW s \in Sources, Begin(c, s) PROVE SourcesInv'
  BY <1>5, SourcesStepCalls
<1>6. ASSUME NEW c \in Calls, FirstLookup(c) \/ Locked(c) \/ ProbeSucceeds(c)
      PROVE  SourcesInv'
  BY <1>6, SourcesStepCalls
<1> QED  BY <1>3, <1>4, <1>5, <1>6 DEF Next

-----------------------------------------------------------------------------
(* Leases, the users they are counted by, and the permits of the fetches.   *)

LeasePcs == {"wait", "permit", "probe", "unlock", "drop"}
Lease(c) == call[c].pc \in LeasePcs
Holders(g) == {c \in Calls : Lease(c) /\ call[c].gate = g}
Probing == {c \in Calls : call[c].pc = "probe"}

UsersExact == \A g \in Calls : users[g] = Cardinality(Holders(g))
PermitsExact == permits + Cardinality(Probing) = Permits

\* A gate is used by the calls of one map and is only ever in that map.
GatesKeepMap ==
    /\ \A m \in Maps : gate[m] # NoCall => MapOf(gate[m]) = m
    /\ \A c \in Calls : (Lease(c) \/ call[c].pc = "remove")
                           => call[c].gate \in Calls /\ MapOf(call[c].gate) = MapOf(c)

CountsInv == UsersExact /\ PermitsExact /\ GatesKeepMap

LEMMA SetsFinite ==
  ASSUME NEW g
  PROVE  /\ IsFiniteSet(Holders(g)) /\ Cardinality(Holders(g)) \in Nat
         /\ IsFiniteSet(Probing) /\ Cardinality(Probing) \in Nat
<1>1. Holders(g) \in SUBSET Calls /\ Probing \in SUBSET Calls  BY DEF Holders, Probing
<1>2. IsFiniteSet(Holders(g)) /\ IsFiniteSet(Probing)
  BY <1>1, ResolverAssumption, FS_Subset
<1> QED  BY <1>2, FS_CardinalityType

LEMMA NobodyMoved ==
  ASSUME UNCHANGED call
  PROVE  Probing' = Probing /\ \A g : Holders(g)' = Holders(g)
  BY DEF Probing, Holders, Lease

\* A call that moves and neither takes nor gives back a lease.
LEMMA HoldersStay ==
  ASSUME NEW c \in Calls, NEW from, NEW to, Moves(c, from, to),
         \/ from \subseteq LeasePcs /\ to \subseteq LeasePcs /\ KeepsGate(c)
         \/ from \cap LeasePcs = {} /\ to \cap LeasePcs = {}
  PROVE  \A g : Holders(g)' = Holders(g)
<1>1. ASSUME NEW g, NEW d \in Calls PROVE d \in Holders(g)' <=> d \in Holders(g)
  <2>1. CASE d = c  BY <2>1 DEF Holders, Lease, Moves, KeepsGate
  <2>2. CASE d # c  BY <2>2 DEF Holders, Lease, Moves
  <2> QED  BY <2>1, <2>2
<1> QED  BY <1>1 DEF Holders

LEMMA HoldersJoin ==
  ASSUME NEW c \in Calls, NEW from, NEW to, Moves(c, from, to),
         from \cap LeasePcs = {}, to \subseteq LeasePcs
  PROVE  /\ c \notin Holders(call'[c].gate)
         /\ \A g : Holders(g)' = IF g = call'[c].gate THEN Holders(g) \cup {c} ELSE Holders(g)
<1>1. ASSUME NEW g, NEW d \in Calls
      PROVE  d \in Holders(g)' <=> d \in Holders(g) \/ (d = c /\ g = call'[c].gate)
  <2>1. CASE d = c  BY <2>1 DEF Holders, Lease, Moves
  <2>2. CASE d # c  BY <2>2 DEF Holders, Lease, Moves
  <2> QED  BY <2>1, <2>2
<1>2. c \notin Holders(call'[c].gate)  BY DEF Holders, Lease, Moves
<1>3. ASSUME NEW g
      PROVE  Holders(g)' = IF g = call'[c].gate THEN Holders(g) \cup {c} ELSE Holders(g)
  <2>1. Holders(g)' \subseteq Calls /\ Holders(g) \subseteq Calls  BY DEF Holders
  <2> QED  BY <1>1, <2>1
<1> QED  BY <1>2, <1>3

LEMMA HoldersLeave ==
  ASSUME NEW c \in Calls, NEW from, NEW to, Moves(c, from, to),
         from \subseteq LeasePcs, to \cap LeasePcs = {}
  PROVE  /\ c \in Holders(call[c].gate)
         /\ \A g : Holders(g)' = IF g = call[c].gate THEN Holders(g) \ {c} ELSE Holders(g)
<1>1. ASSUME NEW g, NEW d \in Calls
      PROVE  d \in Holders(g)' <=> d \in Holders(g) /\ ~(d = c /\ g = call[c].gate)
  <2>1. CASE d = c  BY <2>1 DEF Holders, Lease, Moves
  <2>2. CASE d # c  BY <2>2 DEF Holders, Lease, Moves
  <2> QED  BY <2>1, <2>2
<1>2. c \in Holders(call[c].gate)  BY DEF Holders, Lease, Moves
<1>3. ASSUME NEW g
      PROVE  Holders(g)' = IF g = call[c].gate THEN Holders(g) \ {c} ELSE Holders(g)
  <2>1. Holders(g)' \subseteq Calls /\ Holders(g) \subseteq Calls  BY DEF Holders
  <2>2. CASE g = call[c].gate  BY <1>1, <2>1, <2>2
  <2>3. CASE g # call[c].gate  BY <1>1, <2>1, <2>3
  <2> QED  BY <2>2, <2>3
<1> QED  BY <1>2, <1>3

LEMMA ProbingAfter ==
  ASSUME NEW c \in Calls, NEW from, NEW to, Moves(c, from, to)
  PROVE  Probing' = IF call'[c].pc = "probe" THEN Probing \cup {c} ELSE Probing \ {c}
<1>1. ASSUME NEW d \in Calls
      PROVE  d \in Probing' <=> IF d = c THEN call'[c].pc = "probe" ELSE d \in Probing
  BY DEF Probing, Moves
<1>2. Probing' \subseteq Calls /\ Probing \subseteq Calls  BY DEF Probing
<1>3. CASE call'[c].pc = "probe"  BY <1>1, <1>2, <1>3
<1>4. CASE call'[c].pc # "probe"  BY <1>1, <1>2, <1>4
<1> QED  BY <1>3, <1>4

-----------------------------------------------------------------------------
(* Permits.                                                                 *)

LEMMA PermitsStep == ASSUME TypeOK, PermitsExact, [Next]_vars PROVE PermitTypes' /\ PermitsExact'
<1>0. permits \in 0..Permits /\ Permits \in Nat \ {0}
  BY TypeParts, ResolverAssumption DEF PermitTypes
<1>1. IsFiniteSet(Probing) /\ Cardinality(Probing) \in Nat  BY SetsFinite
<1>2. permits + Cardinality(Probing) = Permits  BY DEF PermitsExact
<1>3. ASSUME Probing' = Probing, permits' = permits PROVE PermitTypes' /\ PermitsExact'
  BY <1>0, <1>2, <1>3 DEF PermitTypes, PermitsExact
<1>4. ASSUME NEW c \in Calls, NEW from, NEW to, Moves(c, from, to), permits' = permits,
             "probe" \notin from, "probe" \notin to
      PROVE  PermitTypes' /\ PermitsExact'
  <2>1. call[c].pc # "probe" /\ call'[c].pc # "probe"  BY <1>4 DEF Moves
  <2>2. Probing' = Probing \ {c}  BY <1>4, <2>1, ProbingAfter
  <2>3. c \notin Probing  BY <2>1 DEF Probing
  <2> QED  BY <1>3, <1>4, <2>2, <2>3
<1>5. ASSUME NEW c \in Calls, NEW from, NEW to, Moves(c, from, to), permits' = permits + 1,
             call[c].pc = "probe", "probe" \notin to
      PROVE  PermitTypes' /\ PermitsExact'
  <2>1. call'[c].pc # "probe"  BY <1>5 DEF Moves
  <2>2. Probing' = Probing \ {c}  BY <1>5, <2>1, ProbingAfter
  <2>3. c \in Probing  BY <1>5 DEF Probing
  <2>4. Cardinality(Probing') = Cardinality(Probing) - 1
    BY <1>1, <2>2, <2>3, FS_RemoveElement
  <2>5. Cardinality(Probing) # 0  BY <1>1, <2>3, FS_EmptySet
  <2>6. permits' + Cardinality(Probing') = Permits /\ permits' \in 0..Permits
    BY <1>0, <1>1, <1>2, <1>5, <2>4, <2>5
  <2> QED  BY <2>6 DEF PermitTypes, PermitsExact
<1>6. ASSUME NEW c \in Calls, AcquireProbeSlot(c) PROVE PermitTypes' /\ PermitsExact'
  <2>1. Moves(c, {"permit"}, {"probe"})  BY <1>6, LateMoves
  <2>2. call[c].pc # "probe" /\ call'[c].pc = "probe"  BY <2>1 DEF Moves
  <2>3. Probing' = Probing \cup {c}  BY <2>1, <2>2, ProbingAfter
  <2>4. c \notin Probing  BY <2>2 DEF Probing
  <2>5. Cardinality(Probing') = Cardinality(Probing) + 1
    BY <1>1, <2>3, <2>4, FS_AddElement
  <2>6. permits > 0 /\ permits' = permits - 1  BY <1>6 DEF AcquireProbeSlot
  <2>7. permits' + Cardinality(Probing') = Permits /\ permits' \in 0..Permits
    BY <1>0, <1>1, <1>2, <2>5, <2>6
  <2> QED  BY <2>7 DEF PermitTypes, PermitsExact
<1>7. ASSUME NEW c \in Calls, NEW s \in Sources, Begin(c, s) PROVE PermitTypes' /\ PermitsExact'
  BY <1>4, <1>7, BeginMoves DEF Begin
<1>8. ASSUME NEW c \in Calls,
             FirstLookup(c) \/ AcquireInflight(c) \/ Locked(c) \/ ProbeQueueTimeout(c)
             \/ Unlock(c) \/ DropLease(c) \/ RemoveGate(c)
      PROVE  PermitTypes' /\ PermitsExact'
  <2>1. permits' = permits
    BY <1>8 DEF FirstLookup, AcquireInflight, Locked, ProbeQueueTimeout, Unlock, DropLease,
                RemoveGate
  <2>2. \E from, to : Moves(c, from, to) /\ "probe" \notin from /\ "probe" \notin to
    BY <1>8, FirstLookupMoves, AcquireMoves, LockedMoves, LateMoves, DropMoves
  <2> QED  BY <1>4, <2>1, <2>2
<1>9. ASSUME NEW c \in Calls, ProbeSucceeds(c) \/ ProbeFails(c)
      PROVE  PermitTypes' /\ PermitsExact'
  <2>1. permits' = permits + 1 /\ call[c].pc = "probe"  BY <1>9 DEF ProbeSucceeds, ProbeFails
  <2>2. Moves(c, {"probe"}, {"unlock"})  BY <1>9, LateMoves, ProbeSucceedsMoves
  <2> QED  BY <1>5, <2>1, <2>2
<1>10. ASSUME NEW c \in Calls, Cancel(c) PROVE PermitTypes' /\ PermitsExact'
  <2>1. Moves(c, {"wait", "permit", "probe"}, {"unlock"})  BY <1>10, CancelMoves
  <2>2. CASE call[c].pc = "probe"
    <3>1. permits' = permits + 1  BY <1>10, <2>2 DEF Cancel
    <3> QED  BY <1>5, <2>1, <2>2, <3>1
  <2>3. CASE call[c].pc # "probe"
    <3>1. permits' = permits  BY <1>10, <2>3 DEF Cancel
    <3>2. Moves(c, {"wait", "permit"}, {"unlock"})  BY <2>1, <2>3 DEF Moves
    <3> QED  BY <1>4, <3>1, <3>2
  <2> QED  BY <2>2, <2>3
<1>11. CASE Tick \/ Evict \/ UNCHANGED vars
  BY <1>3, <1>11, NobodyMoved DEF Tick, Evict, vars
<1> QED  BY <1>6, <1>7, <1>8, <1>9, <1>10, <1>11 DEF Next

-----------------------------------------------------------------------------
(* Gates and their users.                                                   *)

LEMMA RemoveAtType ==
  ASSUME NEW S, NEW s \in Seq(S), NEW i \in DOMAIN s
  PROVE  /\ RemoveAt(s, i) \in Seq(S)
         /\ i # 1 => RemoveAt(s, i) # << >> /\ Head(RemoveAt(s, i)) = Head(s)
<1>1. i \in 1..Len(s) /\ Len(s) \in Nat  OBVIOUS
<1> DEFINE front == SubSeq(s, 1, i-1)
           back == SubSeq(s, i+1, Len(s))
<1>2. /\ front \in Seq(S) /\ Len(front) = (IF 1 <= i-1 THEN (i-1)-1+1 ELSE 0)
      /\ \A j \in 1..(i-1)-1+1 : front[j] = s[1+j-1]
  BY <1>1, SubSeqProperties
<1>3. back \in Seq(S)  BY <1>1, SubSeqProperties
<1>4. RemoveAt(s, i) = front \o back  BY DEF RemoveAt
<1> HIDE DEF front, back
<1>5. RemoveAt(s, i) \in Seq(S)  BY <1>2, <1>3, <1>4, ConcatProperties
<1>6. ASSUME i # 1 PROVE RemoveAt(s, i) # << >> /\ Head(RemoveAt(s, i)) = Head(s)
  <2>1. Len(front) >= 1 /\ front[1] = s[1]  BY <1>1, <1>2, <1>6
  <2>2. Len(back) \in Nat  BY <1>3
  <2>3. Len(RemoveAt(s, i)) = Len(front) + Len(back) /\ RemoveAt(s, i)[1] = front[1]
    <3>1. Len(front) \in Nat  BY <1>2
    <3>2. 1 \in 1..Len(front) + Len(back)  BY <2>1, <2>2, <3>1
    <3> QED  BY <1>2, <1>3, <1>4, <2>1, <3>2, ConcatProperties
  <2>4. Len(RemoveAt(s, i)) # 0  BY <2>1, <2>2, <2>3, <1>2
  <2> QED  BY <1>5, <2>1, <2>3, <2>4
<1> QED  BY <1>5, <1>6

LEMMA SameMaps ==
  ASSUME scenario' = scenario
  PROVE  \A c : MapOf(c)' = MapOf(c)
  BY DEF MapOf

LEMMA MapOfTyped == \A c : MapOf(c) \in Maps
  BY DEF MapOf, Maps

\* A step that leaves the gates and everybody's lease alone.
LEMMA GatesUntouched ==
  ASSUME TypeOK, UsersExact, GatesKeepMap, UNCHANGED gates, scenario' = scenario,
         \/ UNCHANGED call
         \/ \E c \in Calls : \E from, to :
               /\ Moves(c, from, to)
               /\ \/ from \subseteq LeasePcs /\ to \subseteq LeasePcs /\ KeepsGate(c)
                  \/ /\ from \cap LeasePcs = {} /\ to \cap LeasePcs = {}
                     /\ "remove" \notin to
  PROVE  GateTypes' /\ UsersExact' /\ GatesKeepMap'
<1>1. GateTypes /\ gate' = gate /\ users' = users /\ queue' = queue
  BY TypeParts DEF gates
<1>2. \A g : Holders(g)' = Holders(g)
  BY NobodyMoved, HoldersStay
<1>3. GateTypes' /\ UsersExact'  BY <1>1, <1>2 DEF GateTypes, UsersExact
<1>4. \A c \in Calls : /\ (Lease(c) \/ call[c].pc = "remove")' => (Lease(c) \/ call[c].pc = "remove")
                       /\ (Lease(c) \/ call[c].pc = "remove")' => call'[c].gate = call[c].gate
  BY DEF Moves, KeepsGate, Lease, LeasePcs
<1> QED  BY <1>1, <1>3, <1>4, SameMaps DEF GatesKeepMap

LEMMA AcquireGates ==
  ASSUME TypeOK, UsersExact, GatesKeepMap, NEW c \in Calls, AcquireInflight(c)
  PROVE  GateTypes' /\ UsersExact' /\ GatesKeepMap'
<1> DEFINE m == MapOf(c)
           g == IF gate[m] = NoCall THEN c ELSE gate[m]
<1>1. GateTypes  BY TypeParts
<1>2. /\ Moves(c, {"acquire"}, {"wait"})
      /\ call'[c].gate = g /\ g \in Calls
  BY AcquireMoves
<1>3. m \in Maps /\ MapOf(g) = m
  BY MapOfTyped DEF GatesKeepMap
<1>4. /\ gate' = [gate EXCEPT ![m] = g] /\ users' = [users EXCEPT ![g] = @ + 1]
      /\ queue' = [queue EXCEPT ![g] = Append(@, c)] /\ scenario' = scenario
  BY DEF AcquireInflight, world
<1> HIDE DEF g, m
<1>5. GateTypes'  BY <1>1, <1>2, <1>3, <1>4 DEF GateTypes
<1>6. ASSUME NEW h \in Calls PROVE users'[h] = Cardinality(Holders(h)')
  <2>1. /\ c \notin Holders(g)
        /\ Holders(h)' = IF h = g THEN Holders(h) \cup {c} ELSE Holders(h)
    BY <1>2, HoldersJoin DEF LeasePcs
  <2>2. users[h] = Cardinality(Holders(h)) /\ users[h] \in Nat
    BY <1>1 DEF UsersExact, GateTypes
  <2>3. CASE h = g
    <3>1. Cardinality(Holders(h) \cup {c}) = Cardinality(Holders(h)) + 1
      BY <2>1, <2>3, SetsFinite, FS_AddElement
    <3> QED  BY <1>1, <1>4, <2>1, <2>2, <2>3, <3>1 DEF GateTypes
  <2>4. CASE h # g  BY <1>1, <1>4, <2>1, <2>2, <2>4 DEF GateTypes
  <2> QED  BY <2>3, <2>4
<1>7. GatesKeepMap'
  <2>1. \A n \in Maps : gate'[n] # NoCall => MapOf(gate'[n]) = n
    BY <1>1, <1>3, <1>4 DEF GatesKeepMap, GateTypes
  <2>2. ASSUME NEW d \in Calls, (Lease(d) \/ call[d].pc = "remove")'
        PROVE  call'[d].gate \in Calls /\ MapOf(call'[d].gate) = MapOf(d)
    <3>1. CASE d = c  BY <3>1, <1>2, <1>3 DEF m
    <3>2. CASE d # c
      <4>1. call'[d] = call[d]  BY <3>2, <1>2 DEF Moves
      <4> QED  BY <2>2, <4>1 DEF Lease, GatesKeepMap
    <3> QED  BY <3>1, <3>2
  <2> QED  BY <1>4, <2>1, <2>2, SameMaps DEF GatesKeepMap
<1> QED  BY <1>5, <1>6, <1>7 DEF UsersExact

LEMMA DropGates ==
  ASSUME TypeOK, UsersExact, GatesKeepMap, NEW c \in Calls, DropLease(c)
  PROVE  GateTypes' /\ UsersExact' /\ GatesKeepMap'
<1> DEFINE g == call[c].gate
<1>1. GateTypes  BY TypeParts
<1>2. Moves(c, {"drop"}, {"remove", "done"}) /\ KeepsGate(c)  BY DropMoves
<1>3. Lease(c) /\ g \in Calls  BY <1>2 DEF Moves, Lease, LeasePcs, GatesKeepMap
<1>4. /\ gate' = gate /\ users' = [users EXCEPT ![g] = @ - 1]
      /\ queue' = queue /\ scenario' = scenario
  BY DEF DropLease, world
<1>5. ASSUME NEW h \in Calls
      PROVE  users'[h] = Cardinality(Holders(h)') /\ users'[h] \in Nat
  <2>1. /\ c \in Holders(g)
        /\ Holders(h)' = IF h = g THEN Holders(h) \ {c} ELSE Holders(h)
    BY <1>2, HoldersLeave DEF LeasePcs
  <2>2. users[h] = Cardinality(Holders(h)) /\ users[h] \in Nat
    BY <1>1 DEF UsersExact, GateTypes
  <2>3. CASE h = g
    <3>1. Cardinality(Holders(h) \ {c}) = Cardinality(Holders(h)) - 1
      BY <2>1, <2>3, SetsFinite, FS_RemoveElement
    <3>2. Cardinality(Holders(h)) # 0  BY <2>1, <2>3, SetsFinite, FS_EmptySet
    <3>3. users'[h] = users[h] - 1  BY <1>1, <1>3, <1>4, <2>3 DEF GateTypes
    <3>4. Cardinality(Holders(h)') = Cardinality(Holders(h)) - 1  BY <2>1, <2>3, <3>1
    <3> HIDE DEF g
    <3> QED  BY <2>2, <3>2, <3>3, <3>4
  <2>4. CASE h # g  BY <1>1, <1>4, <2>1, <2>2, <2>4 DEF GateTypes
  <2> QED  BY <2>3, <2>4
<1>6. GateTypes'
  <2>1. users' \in [Calls -> Int]  BY <1>1, <1>3, <1>4 DEF GateTypes
  <2> QED  BY <1>1, <1>4, <1>5, <2>1 DEF GateTypes
<1>7. GatesKeepMap'
  <2>1. ASSUME NEW d \in Calls, (Lease(d) \/ call[d].pc = "remove")'
        PROVE  /\ Lease(d) \/ call[d].pc = "remove"
               /\ call'[d].gate = call[d].gate
    <3>1. CASE d = c  BY <3>1, <1>2, <1>3 DEF KeepsGate
    <3>2. CASE d # c  BY <2>1, <3>2, <1>2 DEF Moves, Lease
    <3> QED  BY <3>1, <3>2
  <2> QED  BY <1>4, <2>1, SameMaps DEF GatesKeepMap
<1> QED  BY <1>5, <1>6, <1>7 DEF UsersExact

LEMMA UnlockRemoveGates ==
  ASSUME TypeOK, UsersExact, GatesKeepMap, NEW c \in Calls, Unlock(c) \/ RemoveGate(c)
  PROVE  GateTypes' /\ UsersExact' /\ GatesKeepMap'
<1>1. GateTypes  BY TypeParts
<1>2. \/ Moves(c, {"unlock"}, {"drop"}) /\ KeepsGate(c)
      \/ Moves(c, {"remove"}, {"done"}) /\ KeepsGate(c)
  BY LateMoves
<1>3. \A h : Holders(h)' = Holders(h)
  BY <1>2, HoldersStay DEF LeasePcs
<1>4. users' = users /\ scenario' = scenario  BY DEF Unlock, RemoveGate, world
<1>5. UsersExact'  BY <1>3, <1>4 DEF UsersExact
<1>6. gate' \in [Maps -> Calls \cup {NoCall}]
      /\ \A m \in Maps : gate'[m] # NoCall => gate'[m] = gate[m]
  BY <1>1 DEF GateTypes, Unlock, RemoveGate
<1>7. queue' \in [Calls -> Seq(Calls)]
  <2>1. CASE RemoveGate(c)  BY <1>1, <2>1 DEF GateTypes, RemoveGate
  <2>2. CASE Unlock(c)
    <3>1. PICK i \in DOMAIN queue[call[c].gate] :
            queue' = [queue EXCEPT ![call[c].gate] = RemoveAt(@, i)]
      BY <2>2 DEF Unlock
    <3>2. call[c].gate \in Calls
      <4>1. Lease(c)  BY <2>2 DEF Unlock, Lease, LeasePcs
      <4> QED  BY <4>1 DEF GatesKeepMap
    <3>3. queue[call[c].gate] \in Seq(Calls)  BY <1>1, <3>2 DEF GateTypes
    <3>4. RemoveAt(queue[call[c].gate], i) \in Seq(Calls)  BY <3>3, RemoveAtType
    <3> QED  BY <1>1, <3>1, <3>4 DEF GateTypes
  <2> QED  BY <2>1, <2>2
<1>8. GateTypes'  BY <1>1, <1>4, <1>6, <1>7 DEF GateTypes
<1>9. ASSUME NEW d \in Calls, (Lease(d) \/ call[d].pc = "remove")'
      PROVE  /\ Lease(d) \/ call[d].pc = "remove"
             /\ call'[d].gate = call[d].gate
  <2>1. CASE d = c  BY <2>1, <1>2, <1>9 DEF Moves, KeepsGate, Lease, LeasePcs
  <2>2. CASE d # c  BY <2>2, <1>2, <1>9 DEF Moves, Lease
  <2> QED  BY <2>1, <2>2
<1>10. GatesKeepMap'
  <2>1. \A m \in Maps : gate'[m] # NoCall => MapOf(gate'[m]) = m
    BY <1>6 DEF GatesKeepMap
  <2>2. \A d \in Calls : (Lease(d) \/ call[d].pc = "remove")'
           => call'[d].gate \in Calls /\ MapOf(call'[d].gate) = MapOf(d)
    BY <1>9 DEF GatesKeepMap
  <2> QED  BY <1>4, <2>1, <2>2, SameMaps DEF GatesKeepMap
<1> QED  BY <1>5, <1>8, <1>10

LEMMA GatesStep ==
  ASSUME TypeOK, UsersExact, GatesKeepMap, [Next]_vars
  PROVE  GateTypes' /\ UsersExact' /\ GatesKeepMap'
<1>1. ASSUME NEW c \in Calls,
             \/ Locked(c) \/ AcquireProbeSlot(c) \/ ProbeQueueTimeout(c) \/ ProbeSucceeds(c)
             \/ ProbeFails(c) \/ Cancel(c)
      PROVE  GateTypes' /\ UsersExact' /\ GatesKeepMap'
  <2>1. UNCHANGED gates /\ scenario' = scenario
    BY <1>1 DEF Locked, AcquireProbeSlot, ProbeQueueTimeout, ProbeSucceeds, ProbeFails, Cancel,
                world
  <2>2. \E from, to : /\ Moves(c, from, to) /\ from \subseteq LeasePcs /\ to \subseteq LeasePcs
                      /\ KeepsGate(c)
    BY <1>1, LockedMoves, LateMoves, ProbeSucceedsMoves, CancelMoves DEF LeasePcs
  <2> QED  BY <2>1, <2>2, GatesUntouched
<1>2. ASSUME NEW c \in Calls, FirstLookup(c) \/ \E s \in Sources : Begin(c, s)
      PROVE  GateTypes' /\ UsersExact' /\ GatesKeepMap'
  <2>1. UNCHANGED gates /\ scenario' = scenario  BY <1>2 DEF FirstLookup, Begin, world
  <2>2. \E from, to : /\ Moves(c, from, to) /\ from \cap LeasePcs = {} /\ to \cap LeasePcs = {}
                      /\ "remove" \notin to
    BY <1>2, FirstLookupMoves, BeginMoves DEF LeasePcs
  <2> QED  BY <2>1, <2>2, GatesUntouched
<1>3. CASE Tick \/ Evict \/ UNCHANGED vars
  <2>1. UNCHANGED gates /\ scenario' = scenario /\ UNCHANGED call
    BY <1>3 DEF Tick, Evict, vars, gates
  <2> QED  BY <2>1, GatesUntouched
<1> QED
  BY <1>1, <1>2, <1>3, AcquireGates, DropGates, UnlockRemoveGates DEF Next

-----------------------------------------------------------------------------
(* Who fetches has the lock of the gate its map has.                        *)

Fetchers == \A c \in Calls : Fetching(c) => HasLock(c)

\* With nobody between the halves of a drop: a lease is on the gate in the map,
\* and who removes a gate was its last user.
LeasedGateStays ==
    scenario.prompt => \A c \in Calls : Lease(c) =>
        /\ gate[MapOf(c)] = call[c].gate
        /\ \A d \in Calls : call[d].pc = "remove" => call[d].gate # call[c].gate

\* A gate in a map has a user, or a call that is about to remove it.
GateHasUser ==
    \A m \in Maps : gate[m] # NoCall =>
        \E c \in Calls : /\ Lease(c) \/ call[c].pc = "remove"
                         /\ call[c].gate = gate[m] /\ MapOf(c) = m

LEMMA FetchersStep == ASSUME TypeOK, GatesKeepMap, Fetchers, [Next]_vars PROVE Fetchers'
<1>0. GateTypes  BY TypeParts
<1>1. ASSUME NEW c \in Calls, Fetching(c), KeepsGate(c), queue' = queue PROVE HasLock(c)'
  BY <1>1 DEF Fetchers, HasLock, KeepsGate
<1>2. ASSUME UNCHANGED <<call, queue>> PROVE Fetchers'
  BY <1>2 DEF Fetchers, Fetching, HasLock
<1>3. ASSUME NEW c \in Calls, NEW from, NEW to, Moves(c, from, to), KeepsGate(c),
             queue' = queue, Fetching(c)' => Fetching(c) \/ HasLock(c)
      PROVE  Fetchers'
  <2>1. ASSUME NEW d \in Calls, Fetching(d)' PROVE HasLock(d)'
    <3>1. CASE d = c
      <4>1. HasLock(c)  BY <1>3, <2>1, <3>1 DEF Fetchers
      <4> QED  BY <1>3, <3>1, <4>1 DEF HasLock, KeepsGate
    <3>2. CASE d # c
      <4>1. call'[d] = call[d]  BY <1>3, <3>2 DEF Moves
      <4>2. HasLock(d)  BY <2>1, <4>1 DEF Fetchers, Fetching
      <4> QED  BY <1>3, <4>1, <4>2 DEF HasLock
    <3> QED  BY <3>1, <3>2
  <2> QED  BY <2>1 DEF Fetchers
<1>4. ASSUME NEW c \in Calls,
             \/ FirstLookup(c) \/ AcquireProbeSlot(c) \/ ProbeQueueTimeout(c)
             \/ ProbeSucceeds(c) \/ ProbeFails(c) \/ DropLease(c) \/ RemoveGate(c) \/ Cancel(c)
      PROVE  Fetchers'
  <2>1. queue' = queue
    BY <1>4 DEF FirstLookup, AcquireProbeSlot, ProbeQueueTimeout, ProbeSucceeds, ProbeFails,
                DropLease, RemoveGate, Cancel, gates
  <2>2. \E from, to : /\ Moves(c, from, to) /\ KeepsGate(c)
                      /\ Fetching(c)' => Fetching(c)
    BY <1>4, FirstLookupMoves, LateMoves, ProbeSucceedsMoves, DropMoves, CancelMoves
    DEF Moves, Fetching
  <2> QED  BY <1>3, <2>1, <2>2
<1>5. ASSUME NEW c \in Calls, Locked(c) PROVE Fetchers'
  <2>1. queue' = queue /\ HasLock(c)  BY <1>5 DEF Locked, gates
  <2> QED  BY <1>3, <1>5, <2>1, LockedMoves
<1>6. ASSUME NEW c \in Calls, NEW s \in Sources, Begin(c, s) PROVE Fetchers'
  <2>1. queue' = queue  BY <1>6 DEF Begin, gates
  <2>2. Moves(c, {"idle"}, {"lookup", "acquire"})  BY <1>6, BeginMoves
  <2>3. ASSUME NEW d \in Calls, Fetching(d)' PROVE HasLock(d)'
    <3>1. d # c  BY <2>2, <2>3 DEF Moves, Fetching
    <3>2. call'[d] = call[d]  BY <2>2, <3>1 DEF Moves
    <3> QED  BY <2>1, <2>3, <3>2 DEF Fetchers, Fetching, HasLock
  <2> QED  BY <2>3 DEF Fetchers
<1>7. ASSUME NEW c \in Calls, AcquireInflight(c) PROVE Fetchers'
  <2>1. Moves(c, {"acquire"}, {"wait"})  BY <1>7, AcquireMoves
  <2>2. PICK g : queue' = [queue EXCEPT ![g] = Append(@, c)]  BY <1>7 DEF AcquireInflight
  <2>3. ASSUME NEW d \in Calls, Fetching(d)' PROVE HasLock(d)'
    <3>1. d # c  BY <2>1, <2>3 DEF Moves, Fetching
    <3>2. call'[d] = call[d]  BY <2>1, <3>1 DEF Moves
    <3>3. HasLock(d) /\ Lease(d)  BY <2>3, <3>2 DEF Fetchers, Fetching, Lease, LeasePcs
    <3>4. call[d].gate \in Calls  BY <3>3 DEF GatesKeepMap
    <3> DEFINE q == queue[call[d].gate]
    <3>5. q \in Seq(Calls) /\ q # << >> /\ Head(q) = d
      BY <1>0, <3>3, <3>4 DEF GateTypes, HasLock
    <3>6. queue'[call[d].gate] \in {q, Append(q, c)}
      BY <1>0, <2>2, <3>4 DEF GateTypes
    <3> HIDE DEF q
    <3>7. Append(q, c) # << >> /\ Head(Append(q, c)) = Head(q)  BY <3>5
    <3> QED  BY <3>2, <3>5, <3>6, <3>7 DEF HasLock
  <2> QED  BY <2>3 DEF Fetchers
<1>8. ASSUME NEW c \in Calls, Unlock(c) PROVE Fetchers'
  <2>1. Moves(c, {"unlock"}, {"drop"})  BY <1>8, LateMoves
  <2>2. PICK i \in DOMAIN queue[call[c].gate] :
          /\ queue[call[c].gate][i] = c
          /\ queue' = [queue EXCEPT ![call[c].gate] = RemoveAt(@, i)]
    BY <1>8 DEF Unlock
  <2>3. call[c].gate \in Calls
    <3>1. Lease(c)  BY <1>8 DEF Unlock, Lease, LeasePcs
    <3> QED  BY <3>1 DEF GatesKeepMap
  <2>4. ASSUME NEW d \in Calls, Fetching(d)' PROVE HasLock(d)'
    <3>1. d # c  BY <2>1, <2>4 DEF Moves, Fetching
    <3>2. call'[d] = call[d]  BY <2>1, <3>1 DEF Moves
    <3>3. HasLock(d) /\ Lease(d)  BY <2>4, <3>2 DEF Fetchers, Fetching, Lease, LeasePcs
    <3>4. call[d].gate \in Calls  BY <3>3 DEF GatesKeepMap
    <3>5. CASE call[d].gate # call[c].gate
      <4>1. queue'[call[d].gate] = queue[call[d].gate]
        BY <1>0, <2>2, <3>4, <3>5 DEF GateTypes
      <4> QED  BY <3>2, <3>3, <4>1 DEF HasLock
    <3>6. CASE call[d].gate = call[c].gate
      <4> DEFINE q == queue[call[d].gate]
      <4>1. q \in Seq(Calls) /\ q # << >> /\ Head(q) = d /\ i \in DOMAIN q /\ q[i] = c
        BY <1>0, <2>2, <3>3, <3>4, <3>6 DEF GateTypes, HasLock
      <4>2. queue'[call[d].gate] = RemoveAt(q, i)
        BY <1>0, <2>2, <3>4, <3>6 DEF GateTypes
      <4> HIDE DEF q
      <4>3. i # 1  BY <3>1, <4>1
      <4>4. RemoveAt(q, i) # << >> /\ Head(RemoveAt(q, i)) = d
        BY <4>1, <4>3, RemoveAtType
      <4> QED  BY <3>2, <4>2, <4>4 DEF HasLock
    <3> QED  BY <3>5, <3>6
  <2> QED  BY <2>4 DEF Fetchers
<1>9. CASE Tick \/ Evict \/ UNCHANGED vars
  BY <1>2, <1>9 DEF Tick, Evict, vars, gates
<1> QED  BY <1>4, <1>5, <1>6, <1>7, <1>8, <1>9 DEF Next

LEMMA Users ==
  ASSUME TypeOK, UsersExact, NEW c \in Calls, Lease(c), call[c].gate \in Calls
  PROVE  users[call[c].gate] = 1
            <=> \A d \in Calls : Lease(d) /\ call[d].gate = call[c].gate => d = c
<1> DEFINE g == call[c].gate
           H == Holders(g)
<1>1. IsFiniteSet(H) /\ users[g] = Cardinality(H)  BY SetsFinite DEF UsersExact
<1>2. c \in H  BY DEF Holders
<1>3. users[g] = 1 <=> \E x : H = {x}  BY <1>1, FS_Singleton
<1>4. (\E x : H = {x}) <=> \A d \in H : d = c  BY <1>2
<1>5. \A d \in Calls : d \in H <=> Lease(d) /\ call[d].gate = g  BY DEF Holders
<1>6. H \subseteq Calls  BY DEF Holders
<1> HIDE DEF H, g
<1> QED  BY <1>3, <1>4, <1>5, <1>6 DEF g

\* A call that moves without a change of its lease or of the gates.
LEMMA LeasesUntouched ==
  ASSUME LeasedGateStays, GateHasUser, gate' = gate, scenario' = scenario,
         \/ UNCHANGED call
         \/ \E c \in Calls : \E from, to :
               /\ Moves(c, from, to)
               /\ \/ from \subseteq LeasePcs /\ to \subseteq LeasePcs /\ KeepsGate(c)
                  \/ /\ from \cap LeasePcs = {} /\ to \cap LeasePcs = {}
                     /\ "remove" \notin from /\ "remove" \notin to
  PROVE  LeasedGateStays' /\ GateHasUser'
<1>1. ASSUME NEW d \in Calls
      PROVE  /\ Lease(d)' <=> Lease(d)
             /\ call'[d].pc = "remove" <=> call[d].pc = "remove"
             /\ (Lease(d) \/ call[d].pc = "remove") => call'[d].gate = call[d].gate
  <2>1. CASE UNCHANGED call  BY <2>1 DEF Lease
  <2>2. CASE \E c \in Calls : \E from, to :
               /\ Moves(c, from, to)
               /\ \/ from \subseteq LeasePcs /\ to \subseteq LeasePcs /\ KeepsGate(c)
                  \/ /\ from \cap LeasePcs = {} /\ to \cap LeasePcs = {}
                     /\ "remove" \notin from /\ "remove" \notin to
    <3>1. PICK c \in Calls : \E from, to :
               /\ Moves(c, from, to)
               /\ \/ from \subseteq LeasePcs /\ to \subseteq LeasePcs /\ KeepsGate(c)
                  \/ /\ from \cap LeasePcs = {} /\ to \cap LeasePcs = {}
                     /\ "remove" \notin from /\ "remove" \notin to
      BY <2>2
    <3>2. CASE d = c  BY <3>1, <3>2 DEF Moves, KeepsGate, Lease, LeasePcs
    <3>3. CASE d # c  BY <3>1, <3>3 DEF Moves, Lease
    <3> QED  BY <3>2, <3>3
  <2> QED  BY <2>1, <2>2
<1>2. LeasedGateStays'
  BY <1>1, SameMaps DEF LeasedGateStays
<1>3. GateHasUser'
  BY <1>1, SameMaps DEF GateHasUser
<1> QED  BY <1>2, <1>3

LEMMA LeasesAcquire ==
  ASSUME TypeOK, GatesKeepMap, LeasedGateStays, GateHasUser, NEW c \in Calls, AcquireInflight(c)
  PROVE  LeasedGateStays' /\ GateHasUser'
<1> DEFINE m == MapOf(c)
           g == IF gate[m] = NoCall THEN c ELSE gate[m]
<1>1. gate \in [Maps -> Calls \cup {NoCall}]  BY TypeParts DEF GateTypes
<1>2. /\ Moves(c, {"acquire"}, {"wait"})
      /\ call'[c].gate = g /\ g \in Calls
  BY AcquireMoves
<1>3. m \in Maps  BY MapOfTyped
<1>4. gate' = [gate EXCEPT ![m] = g] /\ scenario' = scenario  BY DEF AcquireInflight, world
<1>5. \A d \in Calls : d # c => call'[d] = call[d]  BY <1>2 DEF Moves
<1>6. Lease(c)' /\ call'[c].pc # "remove" /\ ~Lease(c) /\ call[c].pc # "remove"
  BY <1>2 DEF Moves, Lease, LeasePcs
<1>7. gate[m] # NoCall => g = gate[m]  OBVIOUS
<1>8. gate[m] = NoCall => g = c  OBVIOUS
<1> HIDE DEF g
<1>9. LeasedGateStays'
  <2>1. ASSUME scenario.prompt, NEW d \in Calls, Lease(d)'
        PROVE  /\ gate'[MapOf(d)] = call'[d].gate
               /\ \A e \in Calls : call'[e].pc = "remove" => call'[e].gate # call'[d].gate
    <3>1. \A e \in Calls : call'[e].pc # "remove"
      <4>1. \A e \in Calls : call[e].pc # "remove"  BY <2>1 DEF AcquireInflight
      <4> QED  BY <4>1, <1>5, <1>6
    <3>2. gate'[MapOf(d)] = call'[d].gate
      <4>1. CASE d = c  BY <4>1, <1>1, <1>2, <1>3, <1>4
      <4>2. CASE d # c
        <5>1. Lease(d) /\ call'[d] = call[d]  BY <4>2, <1>5, <2>1 DEF Lease
        <5>2. gate[MapOf(d)] = call[d].gate /\ call[d].gate \in Calls
          BY <5>1, <2>1 DEF LeasedGateStays, GatesKeepMap
        <5>3. gate[MapOf(d)] # NoCall  BY <5>2, ResolverAssumption
        <5>4. gate'[MapOf(d)] = gate[MapOf(d)]
          <6>1. MapOf(d) \in Maps  BY MapOfTyped
          <6>2. MapOf(d) = m => g = gate[m]  BY <5>3, <1>7
          <6> QED  BY <6>1, <6>2, <1>1, <1>4
        <5> QED  BY <5>1, <5>2, <5>4
      <4> QED  BY <4>1, <4>2
    <3> QED  BY <3>1, <3>2
  <2> QED  BY <1>4, <2>1, SameMaps DEF LeasedGateStays
<1>10. GateHasUser'
  <2>1. ASSUME NEW n \in Maps, gate'[n] # NoCall
        PROVE  \E d \in Calls : /\ (Lease(d) \/ call[d].pc = "remove")'
                                /\ call'[d].gate = gate'[n] /\ MapOf(d) = n
    <3>1. CASE n = m
      <4>1. gate'[n] = g  BY <3>1, <1>1, <1>3, <1>4
      <4> QED  BY <3>1, <4>1, <1>2, <1>6
    <3>2. CASE n # m
      <4>1. gate'[n] = gate[n]  BY <3>2, <1>1, <1>4
      <4>2. PICK d \in Calls : /\ Lease(d) \/ call[d].pc = "remove"
                               /\ call[d].gate = gate[n] /\ MapOf(d) = n
        BY <2>1, <4>1 DEF GateHasUser
      <4>3. d # c  BY <4>2, <1>6
      <4>4. call'[d] = call[d]  BY <4>3, <1>5
      <4> QED  BY <4>1, <4>2, <4>4 DEF Lease
    <3> QED  BY <3>1, <3>2
  <2> QED  BY <1>4, <2>1, SameMaps DEF GateHasUser
<1> QED  BY <1>9, <1>10

LEMMA LeasesDrop ==
  ASSUME TypeOK, UsersExact, GatesKeepMap, LeasedGateStays, GateHasUser,
         NEW c \in Calls, DropLease(c)
  PROVE  LeasedGateStays' /\ GateHasUser'
<1>1. /\ Moves(c, {"drop"}, {"remove", "done"}) /\ KeepsGate(c)
      /\ call'[c].pc = "remove" <=> users[call[c].gate] = 1
  BY DropMoves
<1>2. gate' = gate /\ scenario' = scenario  BY DEF DropLease, world
<1>3. Lease(c) /\ ~Lease(c)' /\ call[c].pc # "remove"
  BY <1>1 DEF Moves, Lease, LeasePcs
<1>4. call[c].gate \in Calls /\ MapOf(call[c].gate) = MapOf(c)  BY <1>3 DEF GatesKeepMap
<1>5. \A d \in Calls : d # c => call'[d] = call[d]  BY <1>1 DEF Moves
<1>6. call'[c].pc = "remove"
         <=> \A d \in Calls : Lease(d) /\ call[d].gate = call[c].gate => d = c
  BY <1>1, <1>3, <1>4, Users
<1>7. call'[c].gate = call[c].gate  BY <1>1 DEF KeepsGate
<1>8. LeasedGateStays'
  <2>1. ASSUME scenario.prompt, NEW d \in Calls, Lease(d)'
        PROVE  /\ gate'[MapOf(d)] = call'[d].gate
               /\ \A e \in Calls : call'[e].pc = "remove" => call'[e].gate # call'[d].gate
    <3>1. d # c /\ call'[d] = call[d] /\ Lease(d)  BY <1>3, <1>5, <2>1 DEF Lease
    <3>2. gate[MapOf(d)] = call[d].gate
          /\ \A e \in Calls : call[e].pc = "remove" => call[e].gate # call[d].gate
      BY <2>1, <3>1 DEF LeasedGateStays
    <3>3. ASSUME NEW e \in Calls, call'[e].pc = "remove" PROVE call'[e].gate # call'[d].gate
      <4>1. CASE e = c  BY <4>1, <3>1, <3>3, <1>6, <1>7
      <4>2. CASE e # c  BY <4>2, <3>1, <3>2, <3>3, <1>5
      <4> QED  BY <4>1, <4>2
    <3> QED  BY <1>2, <3>1, <3>2, <3>3
  <2> QED  BY <1>2, <2>1, SameMaps DEF LeasedGateStays
<1>9. GateHasUser'
  <2>1. ASSUME NEW n \in Maps, gate[n] # NoCall
        PROVE  \E d \in Calls : /\ (Lease(d) \/ call[d].pc = "remove")'
                                /\ call'[d].gate = gate[n] /\ MapOf(d) = n
    <3>1. PICK d \in Calls : /\ Lease(d) \/ call[d].pc = "remove"
                             /\ call[d].gate = gate[n] /\ MapOf(d) = n
      BY <2>1 DEF GateHasUser
    <3>2. CASE d # c
      <4>1. call'[d] = call[d]  BY <3>2, <1>5
      <4> QED  BY <3>1, <4>1 DEF Lease
    <3>3. CASE d = c /\ call'[c].pc = "remove"  BY <3>1, <3>3, <1>7
    <3>4. CASE d = c /\ call'[c].pc # "remove"
      <4>1. PICK e \in Calls : Lease(e) /\ call[e].gate = call[c].gate /\ e # c
        BY <3>4, <1>6
      <4>2. call'[e] = call[e]  BY <4>1, <1>5
      <4>3. MapOf(e) = n  BY <3>1, <3>4, <4>1, <1>4 DEF GatesKeepMap
      <4> QED  BY <3>1, <3>4, <4>1, <4>2, <4>3 DEF Lease
    <3> QED  BY <3>2, <3>3, <3>4
  <2> QED  BY <1>2, <2>1, SameMaps DEF GateHasUser
<1> QED  BY <1>8, <1>9

LEMMA LeasesRemove ==
  ASSUME TypeOK, GatesKeepMap, LeasedGateStays, GateHasUser, NEW c \in Calls, RemoveGate(c)
  PROVE  LeasedGateStays' /\ GateHasUser'
<1>1. Moves(c, {"remove"}, {"done"}) /\ KeepsGate(c)  BY LateMoves
<1>2. /\ gate' = [m \in Maps |-> IF gate[m] = call[c].gate /\ m = MapOf(c)
                                 THEN NoCall ELSE gate[m]]
      /\ scenario' = scenario
  BY DEF RemoveGate, world
<1>3. call[c].pc = "remove" /\ ~Lease(c) /\ ~Lease(c)' /\ call'[c].pc # "remove"
  BY <1>1 DEF Moves, Lease, LeasePcs
<1>4. \A d \in Calls : d # c => call'[d] = call[d]  BY <1>1 DEF Moves
<1>5. LeasedGateStays'
  <2>1. ASSUME scenario.prompt, NEW d \in Calls, Lease(d)'
        PROVE  /\ gate'[MapOf(d)] = call'[d].gate
               /\ \A e \in Calls : call'[e].pc = "remove" => call'[e].gate # call'[d].gate
    <3>1. d # c /\ call'[d] = call[d] /\ Lease(d)  BY <1>3, <1>4, <2>1 DEF Lease
    <3>2. gate[MapOf(d)] = call[d].gate
          /\ \A e \in Calls : call[e].pc = "remove" => call[e].gate # call[d].gate
      BY <2>1, <3>1 DEF LeasedGateStays
    <3>3. gate'[MapOf(d)] = gate[MapOf(d)]
      <4>1. MapOf(d) \in Maps /\ gate[MapOf(d)] # call[c].gate  BY <3>2, <1>3, MapOfTyped
      <4> QED  BY <4>1, <1>2
    <3>4. \A e \in Calls : call'[e].pc = "remove" => call'[e].gate # call'[d].gate
      BY <3>1, <3>2, <1>3, <1>4
    <3> QED  BY <3>1, <3>2, <3>3, <3>4
  <2> QED  BY <1>2, <2>1, SameMaps DEF LeasedGateStays
<1>6. GateHasUser'
  <2>1. ASSUME NEW n \in Maps, gate'[n] # NoCall
        PROVE  \E d \in Calls : /\ (Lease(d) \/ call[d].pc = "remove")'
                                /\ call'[d].gate = gate'[n] /\ MapOf(d) = n
    <3>1. gate'[n] = gate[n] /\ ~(gate[n] = call[c].gate /\ n = MapOf(c))  BY <1>2, <2>1
    <3>2. PICK d \in Calls : /\ Lease(d) \/ call[d].pc = "remove"
                             /\ call[d].gate = gate[n] /\ MapOf(d) = n
      BY <2>1, <3>1 DEF GateHasUser
    <3>3. d # c  BY <3>1, <3>2
    <3>4. call'[d] = call[d]  BY <3>3, <1>4
    <3> QED  BY <3>1, <3>2, <3>4 DEF Lease
  <2> QED  BY <1>2, <2>1, SameMaps DEF GateHasUser
<1> QED  BY <1>5, <1>6

LEMMA LeasesStep ==
  ASSUME TypeOK, UsersExact, GatesKeepMap, LeasedGateStays, GateHasUser, [Next]_vars
  PROVE  LeasedGateStays' /\ GateHasUser'
<1>1. ASSUME NEW c \in Calls,
             \/ Locked(c) \/ AcquireProbeSlot(c) \/ ProbeQueueTimeout(c) \/ ProbeSucceeds(c)
             \/ ProbeFails(c) \/ Cancel(c) \/ Unlock(c)
      PROVE  LeasedGateStays' /\ GateHasUser'
  <2>1. gate' = gate /\ scenario' = scenario
    BY <1>1 DEF Locked, AcquireProbeSlot, ProbeQueueTimeout, ProbeSucceeds, ProbeFails, Cancel,
                Unlock, world, gates
  <2>2. \E from, to : /\ Moves(c, from, to) /\ from \subseteq LeasePcs /\ to \subseteq LeasePcs
                      /\ KeepsGate(c)
    BY <1>1, LockedMoves, LateMoves, ProbeSucceedsMoves, CancelMoves DEF LeasePcs
  <2> QED  BY <2>1, <2>2, LeasesUntouched
<1>2. ASSUME NEW c \in Calls, FirstLookup(c) \/ \E s \in Sources : Begin(c, s)
      PROVE  LeasedGateStays' /\ GateHasUser'
  <2>1. gate' = gate /\ scenario' = scenario  BY <1>2 DEF FirstLookup, Begin, world, gates
  <2>2. \E from, to : /\ Moves(c, from, to) /\ from \cap LeasePcs = {} /\ to \cap LeasePcs = {}
                      /\ "remove" \notin from /\ "remove" \notin to
    BY <1>2, FirstLookupMoves, BeginMoves DEF LeasePcs
  <2> QED  BY <2>1, <2>2, LeasesUntouched
<1>3. CASE Tick \/ Evict \/ UNCHANGED vars
  <2>1. gate' = gate /\ scenario' = scenario /\ UNCHANGED call
    BY <1>3 DEF Tick, Evict, vars, gates
  <2> QED  BY <2>1, LeasesUntouched
<1> QED
  BY <1>1, <1>2, <1>3, LeasesAcquire, LeasesDrop, LeasesRemove DEF Next

-----------------------------------------------------------------------------
(* Theorems.                                                                *)

IInv == TypeOK /\ SourcesInv /\ CountsInv /\ Fetchers /\ LeasedGateStays /\ GateHasUser

LEMMA InitIInv == ASSUME Init PROVE IInv
<1>1. ResolverAssumption  BY ResolverAssumption
<1>2. PICK l \in scenario.lives : expiry = <<l>>  BY DEF Init
<1>3. scenario.lives \subseteq Nat  BY ResolverAssumption DEF Init
<1>4. expiry \in Seq(Nat) /\ Len(expiry) = 1  BY <1>2, <1>3
<1>5. \A c \in Calls : call[c] = NotBegun  BY DEF Init
<1>6. NotBegun \in CallStates /\ NotBegun.pc = "idle"
  BY DEF NotBegun, CallStates, NoSource
<1>7. \A g : Holders(g) = {}
  BY <1>5, <1>6 DEF Holders, Lease, LeasePcs
<1>8. Probing = {}  BY <1>5, <1>6 DEF Probing
<1>9. Cardinality({}) = 0  BY FS_EmptySet
<1>10. metadata \in Entries /\ metadata.source \in {0, 1} /\ prepared = metadata
  BY DEF Init, Empty, Entries, NoSource
<1>11. TypeOK
  <2>1. CallTypes  BY <1>6 DEF Init, CallTypes
  <2>2. CacheTypes  BY <1>4, <1>10 DEF Init, CacheTypes
  <2>3. GateTypes
    <3>1. << >> \in Seq(Calls)  BY EmptySeq
    <3> QED  BY <3>1 DEF Init, GateTypes
  <2>4. PermitTypes  BY ResolverAssumption DEF Init, PermitTypes
  <2> QED  BY <2>1, <2>2, <2>3, <2>4, TypeParts
<1>12. SourcesInv
  <2>1. Sources = {1} /\ Known = {0, 1}  BY <1>4 DEF Sources, Known, NoSource
  <2>2. failed = {} /\ NotBegun.request = 0 /\ NotBegun.failedBefore = {}
    BY DEF Init, NotBegun, NoSource
  <2> QED  BY <1>5, <1>6, <1>10, <2>1, <2>2
      DEF SourcesInv, SourcesKnown, CachesClean, NotServedAgain
<1>13. CountsInv
  <2>1. UsersExact  BY <1>7, <1>9 DEF Init, UsersExact
  <2>2. PermitsExact  BY <1>8, <1>9, ResolverAssumption DEF Init, PermitsExact
  <2>3. GatesKeepMap  BY <1>5, <1>6 DEF Init, GatesKeepMap, Lease, LeasePcs
  <2> QED  BY <2>1, <2>2, <2>3 DEF CountsInv
<1>14. Fetchers /\ LeasedGateStays /\ GateHasUser
  BY <1>5, <1>6 DEF Init, Fetchers, Fetching, LeasedGateStays, GateHasUser, Lease, LeasePcs
<1> QED  BY <1>11, <1>12, <1>13, <1>14 DEF IInv

LEMMA Inductive == Spec => []IInv
<1>1. ASSUME IInv, [Next]_vars PROVE IInv'
  <2>1. TypeOK'
    BY <1>1, CallsStayTyped, CachesStayTyped, GatesStep, PermitsStep, TypePartsNext
    DEF IInv, CountsInv
  <2>2. SourcesInv'  BY <1>1, SourcesStep DEF IInv
  <2>3. CountsInv'  BY <1>1, GatesStep, PermitsStep DEF IInv, CountsInv
  <2>4. Fetchers'  BY <1>1, FetchersStep DEF IInv, CountsInv
  <2>5. LeasedGateStays' /\ GateHasUser'  BY <1>1, LeasesStep DEF IInv, CountsInv
  <2> QED  BY <2>1, <2>2, <2>3, <2>4, <2>5 DEF IInv
<1> QED  BY InitIInv, <1>1, PTL DEF Spec

\* Every variable of the resolver has its type: no gate's users and no permits
\* are counted below zero or beyond their number, however calls are cancelled.
THEOREM TypeCorrect == Spec => []TypeOK
<1>1. IInv => TypeOK  BY DEF IInv
<1> QED  BY <1>1, Inductive, PTL

\* One fetch at a time per in-flight map, whoever waits, leaves or is cancelled,
\* when a lease drops in one step.
THEOREM OneFetchAtATime == Spec => []SingleFlight
<1>1. ASSUME IInv PROVE SingleFlight
  <2>1. ASSUME scenario.prompt, NEW c \in Calls, NEW d \in Calls, Fetching(c), Fetching(d),
               MapOf(c) = MapOf(d)
        PROVE  c = d
    <3>1. Lease(c) /\ Lease(d)  BY <2>1 DEF Fetching, Lease, LeasePcs
    <3>2. call[c].gate = call[d].gate  BY <1>1, <2>1, <3>1 DEF IInv, LeasedGateStays
    <3>3. HasLock(c) /\ HasLock(d)  BY <1>1, <2>1 DEF IInv, Fetchers
    <3> QED  BY <3>2, <3>3 DEF HasLock
  <2> QED  BY <2>1 DEF SingleFlight
<1> QED  BY <1>1, Inductive, PTL

\* A source that failed is not handed out to a call that begins after it was
\* forgotten, by a provider whose requests are always refreshed.
THEOREM FailedSourceIsNotServed == Spec => []NotServedAgain
<1>1. IInv => NotServedAgain  BY DEF IInv, SourcesInv
<1> QED  BY <1>1, Inductive, PTL

\* When nobody uses the resolver its in-flight maps are empty, whatever calls
\* were cancelled and however their drops interleaved with newcomers.
THEOREM GatesDoNotLeak == Spec => []NoGateLeaks
<1>1. ASSUME IInv PROVE NoGateLeaks
  <2>1. ASSUME \A c \in Calls : call[c].pc \in {"idle", "lookup", "acquire", "done"},
               NEW m \in Maps
        PROVE  gate[m] = NoCall
    <3>1. \A c \in Calls : ~Lease(c) /\ call[c].pc # "remove"
      BY <2>1 DEF Lease, LeasePcs
    <3> QED  BY <1>1, <3>1 DEF IInv, GateHasUser
  <2> QED  BY <2>1 DEF NoGateLeaks
<1> QED  BY <1>1, Inductive, PTL
=============================================================================
