---------------------------- MODULE DeckContract ----------------------------
(***************************************************************************)
(* What the songbird runtime promises the playback coordinator about its   *)
(* decks (the RuntimeTrackHandle and arm_transition of wotoha-contracts):  *)
(* a deck reports that it is over at most once, whether it ended, failed   *)
(* or was stopped, and an armed start of another deck is answered at most  *)
(* once, and only when the arm was accepted.                               *)
(***************************************************************************)
EXTENDS Naturals, Sequences

CONSTANTS Decks, Arms

VARIABLES reports,  \* the TrackEnded and TrackErrored events of each deck
          accepted, \* the arms that arm_transition accepted
          answers   \* the TransitionStarted and ArmFailed events of each arm

vars == <<reports, accepted, answers>>

Reasons == {"completed", "stopped", "errored"}
Outcomes == {"started", "late", "failed"}

Init == /\ reports = [d \in Decks |-> <<>>]
        /\ accepted = {}
        /\ answers = [g \in Arms |-> <<>>]

Report(d) ==
    /\ reports[d] = <<>>
    /\ \E r \in Reasons : reports' = [reports EXCEPT ![d] = <<r>>]
    /\ UNCHANGED <<accepted, answers>>

Accept(g) ==
    /\ g \notin accepted
    /\ accepted' = accepted \cup {g}
    /\ UNCHANGED <<reports, answers>>

Answer(g) ==
    /\ g \in accepted
    /\ answers[g] = <<>>
    /\ \E o \in Outcomes : answers' = [answers EXCEPT ![g] = <<o>>]
    /\ UNCHANGED <<reports, accepted>>

Next == \/ \E d \in Decks : Report(d)
        \/ \E g \in Arms : Accept(g) \/ Answer(g)

Spec == Init /\ [][Next]_vars
=============================================================================
