-------------------------- MODULE MCDiscordGateway --------------------------
(* Small instances of DiscordGateway for TLC: two peers, two channels, and  *)
(* scenarios that each leave room for one kind of trouble.                  *)
EXTENDS DiscordGateway

CONSTANTS u1, u2, v, w, none, p1, p2, restorer, self

MCUsers == {u1, u2}
MCChannels == {v, w}
MCPlays == {p1, p2}
Symmetric == Permutations(MCUsers) \cup Permutations(MCChannels) \cup Permutations(MCPlays)

Bounded(m, k, p, f, l) == [moves |-> m, kicks |-> k, plays |-> p, failures |-> f, lives |-> l]

Under(inOrder, budgets) == {[orderly |-> inOrder, budget |-> b] : b \in budgets}

\* One life: peers come and go around one /play, a moderator moves the bot, and
\* joins, enqueues and leaves fail.
ServiceScenarios == Under(TRUE, {Bounded(3, 0, 1, 0, 1), Bounded(1, 1, 1, 1, 1)})

\* Two /play race while a moderator moves the bot, or while failures make one of
\* them leave and perhaps not even that.
RivalScenarios == Under(TRUE, {Bounded(0, 1, 2, 0, 1), Bounded(0, 0, 2, 2, 1)})

\* Two lives: a /play in one of them, peers who move and a moderator in either, and
\* a take or a save that fails.
RestartScenarios ==
    Under(TRUE, {Bounded(2, 0, 1, 0, 2), Bounded(1, 0, 1, 1, 2), Bounded(0, 1, 1, 1, 2)})

\* Handlers that overtake one another.
DisorderlyScenarios == Under(FALSE, {Bounded(2, 0, 1, 0, 1), Bounded(0, 1, 1, 1, 2)})

MCScenarios == ServiceScenarios \cup RivalScenarios \cup RestartScenarios
               \cup DisorderlyScenarios
=============================================================================
