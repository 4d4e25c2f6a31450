-------------------------- MODULE MCAutoMixHandoff --------------------------
(* AutoMixHandoff for TLC: the scenarios of the runs.                       *)
EXTENDS AutoMixHandoff

CONSTANTS a, b, c

OneQueued == <<b>>
TwoQueued == <<b, c>>

Quiet == [queue |-> TwoQueued, kinds |-> {"crossfade", "gapless"}, arm |-> FALSE, adds |-> {},
          prepare |-> FALSE, rearms |-> 0, skips |-> 0, toggles |-> 0,
          disconnects |-> 0, ends |-> 4]

\* Every command once, against crossfades and failing sources.
UserCommands == [Quiet EXCEPT !.prepare = TRUE, !.skips = 1, !.toggles = 1, !.disconnects = 1]

\* Armed starts that are refused, late or fail.
ArmedStarts == [Quiet EXCEPT !.queue = OneQueued, !.kinds = {"crossfade", "beatmatched"},
                             !.arm = TRUE, !.prepare = TRUE, !.toggles = 1, !.ends = 3]

\* An armed start while the crossfade before it still runs.
ArmedInCrossfade == [Quiet EXCEPT !.kinds = {"crossfade", "beatmatched"}, !.ends = 3]

\* Two rearm tasks beside the event worker.
Rearming == [Quiet EXCEPT !.queue = OneQueued, !.kinds = {"crossfade"}, !.rearms = 2,
                          !.toggles = 1, !.ends = 1]

\* One of them, and a deck that ends meanwhile.
RearmThenEnd == [Rearming EXCEPT !.rearms = 1, !.ends = 2]

\* A track is enqueued while one rearm task and the worker prefetch.
Enqueueing == [RearmThenEnd EXCEPT !.queue = <<>>, !.adds = {b}]

SafeScenarios == {UserCommands, ArmedStarts, ArmedInCrossfade, Rearming, RearmThenEnd,
                  Enqueueing}
LiveScenarios == {[Quiet EXCEPT !.prepare = TRUE, !.toggles = 1, !.adds = {b}]}
SkipScenarios == {[Quiet EXCEPT !.queue = OneQueued, !.skips = 1]}
ReuseScenarios == {[Quiet EXCEPT !.kinds = {"beatmatched"}]}

RearmerSymmetry == Permutations(Rearmers)
=============================================================================
