----------------------------- MODULE VoiceIndex -----------------------------
(***************************************************************************)
(* GuildVoiceIndex of wotoha-voice/src/playback.rs: who is in which voice  *)
(* channel of one guild, and where the bot is.  The number of peers in each*)
(* channel is kept beside the map it is counted from, so that a voice      *)
(* update costs the same however many peers there are.                     *)
(***************************************************************************)
EXTENDS Naturals, FiniteSets

CONSTANTS Users,    \* the peers, the bot apart
          Channels, NoChannel

ASSUME VoiceAssumption == NoChannel \notin Channels /\ IsFiniteSet(Users)

Places == Channels \cup {NoChannel}

Indexes == [bot : Places, peers : [Users -> Places], counts : [Channels -> Nat],
            bootstrapped : BOOLEAN]

EmptyIndex == [bot |-> NoChannel, peers |-> [u \in Users |-> NoChannel],
               counts |-> [c \in Channels |-> 0], bootstrapped |-> FALSE]

In(peers, c) == {u \in Users : peers[u] = c}

Bootstrap(channel, snapshot) ==
    [bot |-> channel, peers |-> snapshot,
     counts |-> [c \in Channels |-> Cardinality(In(snapshot, c))], bootstrapped |-> TRUE]

UpdateBotChannel(index, channel) == [index EXCEPT !.bot = channel]

BugDecrement(counts, channel) == counts

\* The entry of a channel goes with its last peer.
Decrement(counts, channel) ==
    IF channel = NoChannel THEN counts
    ELSE [counts EXCEPT ![channel] = IF @ > 1 THEN @ - 1 ELSE 0]

SetPeerChannel(index, u, channel) ==
    LET left == Decrement(index.counts, index.peers[u]) IN
    [index EXCEPT !.peers[u] = channel,
                  !.counts = IF channel = NoChannel THEN left
                             ELSE [left EXCEPT ![channel] = @ + 1]]

\* What the index knows counts before what the event says.
EffectiveOld(index, u, old) ==
    IF index.peers[u] # NoChannel THEN index.peers[u] ELSE old

BugApplyPeer(index, u, old, new) ==
    IF ~index.bootstrapped \/ index.bot \notin {old, new} THEN index
    ELSE SetPeerChannel(index, u, new)

ApplyPeer(index, u, old, new) ==
    IF ~index.bootstrapped \/ EffectiveOld(index, u, old) = new THEN index
    ELSE SetPeerChannel(index, u, new)

\* VoiceUpdateDecision::DisconnectAlone
IsAlone(index) == index.bootstrapped /\ index.bot # NoChannel /\ index.counts[index.bot] = 0

\* VoiceActionAccess, for an actor who is in a voice channel.
Access(index, channel) ==
    IF index.bot = NoChannel THEN "no_active_channel"
    ELSE IF index.bot = channel THEN "same_channel" ELSE "different_channel"

\* The counts are the numbers of peers they stand for.
CountsAgree(index) == \A c \in Channels : index.counts[c] = Cardinality(In(index.peers, c))
=============================================================================
