-------------------------- MODULE MCMediaResolver ---------------------------
(* A small instance of MediaResolver for TLC: three calls of the kinds that *)
(* can get in one another's way.                                            *)
EXTENDS MediaResolver

CONSTANTS c1, c2, c3, none

MCCalls == {c1, c2, c3}

Asked(k1, k2, k3, transient, prompt, lives, time, gone, lost) ==
    [kind |-> c1 :> k1 @@ c2 :> k2 @@ c3 :> k3, transient |-> transient, prompt |-> prompt,
     lives |-> lives, time |-> time, cancels |-> gone, evictions |-> lost]

MCScenarios ==
    {Asked("resolve", "resolve", "resolve", FALSE, TRUE, {9}, 0, 1, 1),
     Asked("resolve", "resolve_fresh", "prepare", FALSE, FALSE, {9}, 0, 0, 0),
     Asked("prepare", "prepare", "prepare_fresh", FALSE, TRUE, {2, 9}, 1, 1, 0),
     Asked("resolve", "prepare", "prepare_fresh", TRUE, TRUE, {9}, 1, 0, 0),
     Asked("prepare", "prepare_fresh", "prepare_fresh", TRUE, FALSE, {9}, 0, 1, 0)}
=============================================================================
