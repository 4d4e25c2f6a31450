--------------------------- MODULE OrderedCommit ---------------------------
(***************************************************************************)
(* What the enqueue pipeline promises, without locks, tasks or resolution: *)
(* "Enqueue now reserves order first and resolves media outside the guild  *)
(* mutation lock, then commits tracks in ticket order" (docs/              *)
(* single-host-ubuntu.md).  A request takes a ticket in the line of its    *)
(* session; while the session lives, the only request that may be decided  *)
(* is the first undecided one, although any may withdraw.  Once the        *)
(* session is replaced, the requests left in its line may be refused       *)
(* together.                                                               *)
(***************************************************************************)
EXTENDS Sequences, Naturals

CONSTANTS Requests, Sessions

VARIABLES line,    \* line[s]: the requests of session s in ticket order
          fate,    \* what became of each request
          closed   \* the sessions that have been replaced

vars == <<line, fate, closed>>

Fates == {"none", "open", "starting", "accepted", "rejected", "withdrawn"}
Undecided == {"open", "starting"}

InLine(r, s) == \E n \in 1..Len(line[s]) : line[s][n] = r

\* r is the first undecided request of the line of s.
Turn(r, s) ==
    \E n \in 1..Len(line[s]) :
        /\ line[s][n] = r
        /\ \A m \in 1..(n - 1) : fate[line[s][m]] \notin Undecided

TakeTicket(r, s) ==
    /\ fate[r] = "none"
    /\ line' = [line EXCEPT ![s] = Append(@, r)]
    /\ fate' = [fate EXCEPT ![r] = "open"]
    /\ UNCHANGED closed

\* The queue was empty: the track has to start before it is accepted.
StartFirst(r, s) ==
    /\ fate[r] = "open"
    /\ Turn(r, s)
    /\ fate' = [fate EXCEPT ![r] = "starting"]
    /\ UNCHANGED <<line, closed>>

Decide(r, s, verdict) ==
    /\ fate[r] \in Undecided
    /\ Turn(r, s)
    /\ fate' = [fate EXCEPT ![r] = verdict]
    /\ UNCHANGED <<line, closed>>

\* A caller goes away.  It may have been starting the first of the line, which
\* is refused with it.
Withdraw(r) ==
    /\ fate[r] \in Undecided
    /\ \E R \in SUBSET {q \in Requests \ {r} : fate[q] = "starting"} :
         fate' = [q \in Requests |-> IF q = r THEN "withdrawn"
                                     ELSE IF q \in R THEN "rejected" ELSE fate[q]]
    /\ UNCHANGED <<line, closed>>

Close(s) ==
    /\ closed' = closed \cup {s}
    /\ UNCHANGED <<line, fate>>

Refuse(s) ==
    /\ s \in closed
    /\ \E R \in SUBSET {r \in Requests : InLine(r, s) /\ fate[r] \in Undecided} :
         fate' = [q \in Requests |-> IF q \in R THEN "rejected" ELSE fate[q]]
    /\ UNCHANGED <<line, closed>>

Init == /\ line = [s \in Sessions |-> <<>>]
        /\ fate = [r \in Requests |-> "none"]
        /\ closed = {}

Next == \/ \E r \in Requests, s \in Sessions :
             \/ TakeTicket(r, s)
             \/ StartFirst(r, s)
             \/ \E verdict \in {"accepted", "rejected"} : Decide(r, s, verdict)
        \/ \E r \in Requests : Withdraw(r)
        \/ \E s \in Sessions : Close(s) \/ Refuse(s)

Spec == Init /\ [][Next]_vars
=============================================================================
