--------------------------- MODULE MediaResolver ----------------------------
(***************************************************************************)
(* The media resolver (wotoha-media/src/resolver.rs) for one track: calls  *)
(* that find it in the caches or fetch it from its provider behind a gate  *)
(* per key and a pool of permits, and the callers that go away meanwhile.  *)
(* A source is the signed stream URL a fetch returns; sources are numbered *)
(* in the order they are fetched.  One URL names the track, so its alias   *)
(* lives and dies with its metadata.  The removals and stores one call     *)
(* makes in alias, metadata and prepared caches, with no await between     *)
(* them, are one step.                                                     *)
(***************************************************************************)
EXTENDS SequencesExt

CONSTANTS Calls, NoCall,
          MetadataTTL, PreparedTTL, RefreshSkew,
          Never,      \* the expiry of a URL that is not signed
          Permits,
          Scenarios   \* what is asked, and how much happens meanwhile

Kinds == {"resolve", "resolve_fresh", "prepare", "prepare_fresh"}

ASSUME ResolverAssumption ==
    /\ NoCall \notin Calls /\ IsFiniteSet(Calls)
    /\ MetadataTTL \in Nat /\ PreparedTTL \in Nat /\ RefreshSkew \in Nat
    /\ Never \in Nat /\ Permits \in Nat \ {0}
    /\ Scenarios \subseteq [kind : [Calls -> Kinds], transient : BOOLEAN, prompt : BOOLEAN,
                             lives : SUBSET Nat, time : Nat, cancels : Nat, evictions : Nat]

VARIABLES
    clock,
    expiry,             \* of each source fetched so far
    metadata, prepared, \* the caches' entries for the track
    gate,               \* the gate each in-flight map has for the track
    users, queue,       \* of each gate; the head of its queue holds its lock
    permits,
    call,               \* the calls
    failed,             \* sources a call has forgotten because their playback failed
    \* frozen: the kinds of the calls, whether the provider's URLs are short-lived,
    \* whether a lease drops in one step, how long the URLs live, and the bounds
    scenario,
    cancels, evictions

caches == <<metadata, prepared>>
gates == <<gate, users, queue>>
world == <<clock, scenario, cancels, evictions>>
vars == <<clock, expiry, metadata, prepared, gate, users, queue, permits, call, failed,
          scenario, cancels, evictions>>

Sources == 1..Len(expiry)
NoSource == 0
Empty == [source |-> NoSource, at |-> 0]

\* `inflight` is keyed by the URL, `prepare_inflight` by the canonical key.
Maps == {"inflight", "prepare_inflight"}
MapOf(c) == IF scenario.kind[c] \in {"resolve", "resolve_fresh"} THEN "inflight" ELSE "prepare_inflight"

NotBegun == [pc |-> "idle", request |-> NoSource, gate |-> NoCall,
             result |-> NoSource, failedBefore |-> {}]

TypeOK ==
    /\ clock \in Nat
    /\ expiry \in Seq(Nat)
    /\ metadata \in [source : Nat, at : Nat] /\ prepared \in [source : Nat, at : Nat]
    /\ gate \in [Maps -> Calls \cup {NoCall}]
    /\ users \in [Calls -> Nat]
    /\ queue \in [Calls -> Seq(Calls)]
    /\ permits \in 0..Permits
    /\ call \in [Calls ->
         [pc : {"idle", "lookup", "acquire", "wait", "permit", "probe", "unlock", "drop",
                "remove", "done"},
          request : Nat, gate : Calls \cup {NoCall}, result : Nat,
          failedBefore : SUBSET Nat]]
    /\ failed \subseteq Nat
    /\ scenario \in Scenarios
    /\ cancels \in Nat /\ evictions \in Nat

\* One source was fetched before, and the caches may still have it.
Init ==
    /\ clock = 0
    /\ scenario \in Scenarios
    /\ \E l \in scenario.lives : expiry = <<l>>
    /\ metadata \in {Empty, [source |-> 1, at |-> 0]} /\ prepared = metadata
    /\ gate = [m \in Maps |-> NoCall]
    /\ users = [c \in Calls |-> 0] /\ queue = [c \in Calls |-> << >>]
    /\ permits = Permits
    /\ call = [c \in Calls |-> NotBegun]
    /\ failed = {}
    /\ cancels = 0 /\ evictions = 0

-----------------------------------------------------------------------------
(* Caches.                                                                  *)

\* prepared_source_is_stale
Stale(s) == expiry[s] # Never /\ expiry[s] <= clock + RefreshSkew

ShouldRefreshOnPrepare(s) == Stale(s) \/ scenario.transient

PreparedIsFresh == prepared.source # NoSource
                   /\ clock - prepared.at <= PreparedTTL /\ ~Stale(prepared.source)

MetadataIsFresh == metadata.source # NoSource /\ clock - metadata.at <= MetadataTTL

\* lookup_prepared_request: an entry that is not fresh goes.
LookupPrepared ==
    [hit |-> IF PreparedIsFresh THEN prepared.source ELSE NoSource,
     metadata |-> metadata, prepared |-> IF PreparedIsFresh THEN prepared ELSE Empty]

\* lookup_cached_request: the prepared source if it is fresh, else the one the
\* metadata came with.
LookupCached ==
    IF ~MetadataIsFresh
    THEN [hit |-> NoSource, metadata |-> Empty, prepared |-> prepared]
    ELSE [hit |-> IF PreparedIsFresh THEN prepared.source ELSE metadata.source,
          metadata |-> metadata, prepared |-> IF PreparedIsFresh THEN prepared ELSE Empty]

Lookup(kind) == IF kind = "resolve" THEN LookupCached ELSE LookupPrepared

Entry(s) == [source |-> s, at |-> clock]

-----------------------------------------------------------------------------
(* Calls.                                                                   *)

Goes(c, pc) == call' = [call EXCEPT ![c].pc = pc]

Returns(c, pc, s) == call' = [call EXCEPT ![c].pc = pc, ![c].result = s]

\* A prepare names the source its request came with; a prepare_playback_fresh
\* is made because that source failed.
Begin(c, s) ==
    /\ call[c].pc = "idle"
    /\ call' = [call EXCEPT ![c] =
           [NotBegun EXCEPT !.pc = IF scenario.kind[c] \in {"resolve", "prepare"} THEN "lookup"
                                   ELSE "acquire",
                            !.request = s, !.failedBefore = failed]]
    /\ UNCHANGED <<expiry, caches, gates, permits, failed, world>>

FirstLookup(c) ==
    /\ call[c].pc = "lookup"
    /\ LET found == Lookup(scenario.kind[c])
           own == scenario.kind[c] = "prepare" /\ ~ShouldRefreshOnPrepare(call[c].request) IN
       /\ metadata' = found.metadata
       /\ prepared' = IF found.hit = NoSource /\ own THEN Entry(call[c].request)
                      ELSE found.prepared
       /\ IF found.hit # NoSource THEN Returns(c, "done", found.hit)
          ELSE IF own THEN Returns(c, "done", call[c].request) ELSE Goes(c, "acquire")
    /\ UNCHANGED <<expiry, gates, permits, failed, world>>

\* acquire_inflight.  A new gate bears the name of the call that made it.
AcquireInflight(c) ==
    /\ call[c].pc = "acquire"
    /\ scenario.prompt => \A d \in Calls : call[d].pc # "remove"
    /\ LET m == MapOf(c)
           g == IF gate[m] = NoCall THEN c ELSE gate[m] IN
       /\ gate' = [gate EXCEPT ![m] = g]
       /\ users' = [users EXCEPT ![g] = @ + 1]
       /\ queue' = [queue EXCEPT ![g] = Append(@, c)]
       /\ call' = [call EXCEPT ![c].pc = "wait", ![c].gate = g]
    /\ UNCHANGED <<expiry, caches, permits, failed, world>>

HasLock(c) == queue[call[c].gate] # << >> /\ Head(queue[call[c].gate]) = c

\* invalidate_cached_playback
BugForget == prepared' = Empty /\ UNCHANGED metadata

Forget == metadata' = Empty /\ prepared' = Empty

\* With the lock: look again, or forget a source that failed.
Locked(c) ==
    /\ call[c].pc = "wait" /\ HasLock(c)
    /\ \/ /\ scenario.kind[c] \in {"resolve", "prepare"}
          /\ LET found == Lookup(scenario.kind[c]) IN
             /\ metadata' = found.metadata /\ prepared' = found.prepared
             /\ IF found.hit = NoSource THEN Goes(c, "permit")
                ELSE Returns(c, "unlock", found.hit)
          /\ UNCHANGED failed
       \/ /\ scenario.kind[c] = "resolve_fresh"
          /\ Goes(c, "permit")
          /\ UNCHANGED <<caches, failed>>
       \/ /\ scenario.kind[c] = "prepare_fresh"
          /\ Forget
          /\ Goes(c, "permit")
          /\ failed' = failed \cup {call[c].request}
    /\ UNCHANGED <<expiry, gates, permits, world>>

AcquireProbeSlot(c) ==
    /\ call[c].pc = "permit" /\ permits > 0
    /\ permits' = permits - 1
    /\ Goes(c, "probe")
    /\ UNCHANGED <<expiry, caches, gates, failed, world>>

\* PROBE_QUEUE_TIMEOUT
ProbeQueueTimeout(c) ==
    /\ call[c].pc = "permit"
    /\ Goes(c, "unlock")
    /\ UNCHANGED <<expiry, caches, gates, permits, failed, world>>

\* The provider answers with a source of its own; both caches take it.
ProbeSucceeds(c) ==
    /\ call[c].pc = "probe"
    /\ \E l \in scenario.lives :
          expiry' = Append(expiry, IF l = Never THEN Never ELSE clock + l)
    /\ metadata' = Entry(Len(expiry) + 1) /\ prepared' = Entry(Len(expiry) + 1)
    /\ permits' = permits + 1
    /\ Returns(c, "unlock", Len(expiry) + 1)
    /\ UNCHANGED <<gates, failed, world>>

\* An error, an address that is not allowed, or PROBE_TOTAL_TIMEOUT.
BugProbeFails(c) ==
    /\ call[c].pc = "probe"
    /\ permits' = permits + 1
    /\ Goes(c, "drop")
    /\ UNCHANGED <<expiry, caches, gates, failed, world>>

ProbeFails(c) ==
    /\ call[c].pc = "probe"
    /\ permits' = permits + 1
    /\ Goes(c, "unlock")
    /\ UNCHANGED <<expiry, caches, gates, failed, world>>

\* The guard is dropped, and after it the lease.
Unlock(c) ==
    /\ call[c].pc = "unlock"
    /\ \E i \in DOMAIN queue[call[c].gate] :
          /\ queue[call[c].gate][i] = c
          /\ queue' = [queue EXCEPT ![call[c].gate] = RemoveAt(@, i)]
    /\ Goes(c, "drop")
    /\ UNCHANGED <<expiry, caches, gate, users, permits, failed, world>>

BugDropLease(c) ==
    /\ call[c].pc = "drop"
    /\ users' = [users EXCEPT ![call[c].gate] = @ - 1]
    /\ Goes(c, "remove")
    /\ UNCHANGED <<expiry, caches, gate, queue, permits, failed, world>>

DropLease(c) ==
    /\ call[c].pc = "drop"
    /\ users' = [users EXCEPT ![call[c].gate] = @ - 1]
    /\ Goes(c, IF users[call[c].gate] = 1 THEN "remove" ELSE "done")
    /\ UNCHANGED <<expiry, caches, gate, queue, permits, failed, world>>

\* remove_if: only this gate goes, and only with its last user.
RemoveGate(c) ==
    /\ call[c].pc = "remove"
    /\ gate' = [m \in Maps |-> IF gate[m] = call[c].gate /\ m = MapOf(c)
                               THEN NoCall ELSE gate[m]]
    /\ Goes(c, "done")
    /\ UNCHANGED <<expiry, caches, users, queue, permits, failed, world>>

\* The caller goes away while the call waits.
BugCancel(c) ==
    /\ call[c].pc \in {"wait", "permit", "probe"} /\ cancels < scenario.cancels
    /\ cancels' = cancels + 1
    /\ permits' = permits + 1
    /\ Goes(c, "unlock")
    /\ UNCHANGED <<expiry, caches, gates, failed, clock, scenario, evictions>>

Cancel(c) ==
    /\ call[c].pc \in {"wait", "permit", "probe"} /\ cancels < scenario.cancels
    /\ cancels' = cancels + 1
    /\ permits' = IF call[c].pc = "probe" THEN permits + 1 ELSE permits
    /\ Goes(c, "unlock")
    /\ UNCHANGED <<expiry, caches, gates, failed, clock, scenario, evictions>>

-----------------------------------------------------------------------------
Tick ==
    /\ clock < scenario.time
    /\ clock' = clock + 1
    /\ UNCHANGED <<expiry, caches, gates, permits, call, failed, scenario, cancels, evictions>>

\* maybe_prune_caches, for the sake of other tracks.
Evict ==
    /\ evictions < scenario.evictions
    /\ evictions' = evictions + 1
    /\ \/ metadata' = Empty /\ UNCHANGED prepared
       \/ prepared' = Empty /\ UNCHANGED metadata
    /\ UNCHANGED <<expiry, gates, permits, call, failed, clock, scenario, cancels>>

Next ==
    \/ \E c \in Calls, s \in Sources : Begin(c, s)
    \/ \E c \in Calls : FirstLookup(c)
    \/ \E c \in Calls : AcquireInflight(c)
    \/ \E c \in Calls : Locked(c)
    \/ \E c \in Calls : AcquireProbeSlot(c)
    \/ \E c \in Calls : ProbeQueueTimeout(c)
    \/ \E c \in Calls : ProbeSucceeds(c)
    \/ \E c \in Calls : ProbeFails(c)
    \/ \E c \in Calls : Unlock(c)
    \/ \E c \in Calls : DropLease(c)
    \/ \E c \in Calls : RemoveGate(c)
    \/ \E c \in Calls : Cancel(c)
    \/ Tick
    \/ Evict

\* Every await has a deadline or waits for a lock whose holder has one; when a
\* call begins, is cancelled or time passes is not the resolver's doing.
Fairness == \A c \in Calls :
    /\ WF_vars(FirstLookup(c)) /\ WF_vars(AcquireInflight(c)) /\ WF_vars(Locked(c))
    /\ WF_vars(AcquireProbeSlot(c) \/ ProbeQueueTimeout(c))
    /\ WF_vars(ProbeSucceeds(c) \/ ProbeFails(c))
    /\ WF_vars(Unlock(c)) /\ WF_vars(DropLease(c)) /\ WF_vars(RemoveGate(c))

Spec == Init /\ [][Next]_vars /\ Fairness

-----------------------------------------------------------------------------
(* Properties.                                                              *)

Fetching(c) == call[c].pc \in {"permit", "probe"}

\* At most one call fetches the track through each in-flight map, whatever calls
\* joined, left or were cancelled, as long as nobody comes between the two halves
\* of a lease's drop (fetch_sub and remove_if); a newcomer there loses the gate it
\* joined from the map.
SingleFlight ==
    scenario.prompt => \A c, d \in Calls :
        Fetching(c) /\ Fetching(d) /\ MapOf(c) = MapOf(d) => c = d

\* A source whose playback failed is not handed out again to a call that begins
\* after prepare_playback_fresh forgot it, for providers whose requests are always
\* refreshed (other requests bring their own source back to the cache).
NotServedAgain ==
    scenario.transient => \A c \in Calls : call[c].result \notin call[c].failedBefore

\* Nobody uses the resolver: no gate stays behind, also after cancelled calls and
\* drops that interleave.
NoGateLeaks ==
    (\A c \in Calls : call[c].pc \in {"idle", "lookup", "acquire", "done"})
        => \A m \in Maps : gate[m] = NoCall

\* Every call ends: with an answer, an error, a timeout or its caller's leaving.
EveryCallReturns == \A c \in Calls : (call[c].pc # "idle") ~> (call[c].pc = "done")
=============================================================================
