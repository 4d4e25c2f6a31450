-------------------------- MODULE MCEventDelivery --------------------------
(* Three guilds for TLC: every kind of loss can meet an event of the first,*)
(* the others compete with it for the ingress and the permits.             *)
EXTENDS EventDelivery

CONSTANTS g1, g2, g3

MCGuilds == {g1, g2, g3}

Event(g, k) == [guild |-> g, kind |-> k, about |-> 1]

MCEvents ==
  {Event(g1, "TrackEnded"), Event(g1, "TransitionPrefetchDue"), Event(g1, "VoiceDisconnected"),
   Event(g2, "TrackEnded"), Event(g3, "TrackEnded")}
=============================================================================
