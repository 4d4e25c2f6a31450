--------------------------- MODULE DiscordGateway ---------------------------
(***************************************************************************)
(* The Discord gateway of wotoha-runtime (discord.rs) for one guild, with  *)
(* the call the Songbird manager keeps for it (songbird.rs), the session   *)
(* and voice index of the coordinator (playback.rs), the reconnect file    *)
(* (reconnect.rs) and the life of the process (main.rs): /play joins and   *)
(* bootstraps, voice events follow the peers, the last peer to go takes    *)
(* the bot with it, a shutdown saves what plays and the next start resumes *)
(* it.  Every table of the code is keyed by the guild.                     *)
(***************************************************************************)
EXTENDS VoiceIndex, SequencesExt

CONSTANTS Plays,     \* the /play commands that may be in progress at once
          Restorer,  \* the task of `ready` that resumes the saved connection
          Bot,
          MaxWire, MaxInbox,     \* bounds of the requests and events under way
          Scenarios  \* whether the handlers run in order, and how often the
                     \* things outside the program happen

Budgets == [moves : Nat, kicks : Nat, plays : Nat, failures : Nat, lives : Nat]

ASSUME GatewayAssumption ==
    /\ Restorer \notin Plays /\ Bot \notin Users /\ {"absent", "idle"} \cap Channels = {}
    /\ MaxWire \in Nat /\ MaxInbox \in Nat
    /\ Scenarios \subseteq [orderly : BOOLEAN, budget : Budgets]

VARIABLES
    \* Discord: where the peers and the bot are, and the bot's requests
    where, bot, wire,
    \* the process, and whether the guild is in serenity's cache
    phase, cached,
    \* voice handlers that are spawned and have not run
    inbox,
    \* the manager's call, the join it waits for, and the joins whose connection
    \* was dropped or replaced, which are going to fail
    call, joins, lost,
    active,           \* active_voice_channels
    session,          \* the coordinator's session
    clears, leaves,   \* resets before and after the session is removed
    task,             \* the commands and the restorer
    saved, file,      \* what persist_restart_state collected; the reconnect file
    \* history: the bot left in service after the file was written; `take` failed
    \* and left the file; a leave could not be sent and nothing was sent since
    quit, kept, stranded,
    \* frozen: whether the handlers run in order
    orderly,
    budget

discord == <<where, bot, wire>>
process == <<phase, saved, file, kept>>
voice == <<call, joins, lost, stranded>>
resets == <<clears, leaves>>
vars == <<where, bot, wire, phase, cached, inbox, call, joins, lost, active,
          session, clears, leaves, task, saved, file, quit, kept, stranded, orderly,
          budget>>

Tasks == Plays \cup {Restorer}

NoFile == [channel |-> NoChannel, playing |-> FALSE]
Files == [channel : Places, playing : BOOLEAN]

\* informed: the index was bootstrapped from a cache that had the guild
NoSession == [live |-> FALSE, index |-> EmptyIndex, informed |-> FALSE, track |-> FALSE]
Sessions == [live : BOOLEAN, index : Indexes, informed : BOOLEAN, track : BOOLEAN]

Idle == [pc |-> "idle", channel |-> NoChannel, joinedNow |-> FALSE, expired |-> FALSE,
         seen |-> EmptyIndex.peers, informed |-> FALSE, track |-> FALSE]
TaskStates ==
    [pc : {"idle", "ensure", "join", "joined", "bootstrap", "enqueue", "waiting"},
     channel : Places, joinedNow : BOOLEAN, expired : BOOLEAN, seen : [Users -> Places],
     informed : BOOLEAN, track : BOOLEAN]

Handlers == [who : Users \cup {Bot}, old : Places, new : Places]

TypeOK ==
    /\ where \in [Users -> Places] /\ bot \in Places /\ wire \in Seq(Places)
    /\ phase \in {"down", "booting", "serving", "collecting", "saving", "saved"}
    /\ cached \in BOOLEAN
    /\ inbox \in Seq(Handlers)
    /\ call \in {"absent", "idle"} \cup Channels /\ joins \in Nat /\ lost \in Nat
    /\ active \in Places
    /\ session \in Sessions /\ (~session.live => session = NoSession)
    /\ clears \in Nat /\ leaves \in Nat
    /\ task \in [Tasks -> TaskStates]
    /\ saved \in Files /\ file \in Files
    /\ {quit, kept, stranded} \subseteq BOOLEAN
    /\ orderly \in BOOLEAN /\ budget \in Budgets

Init ==
    /\ where \in [Users -> Places] /\ bot = NoChannel /\ wire = << >>
    /\ phase = "down" /\ cached = FALSE /\ inbox = << >>
    /\ call = "absent" /\ joins = 0 /\ lost = 0 /\ active = NoChannel
    /\ session = NoSession /\ clears = 0 /\ leaves = 0
    /\ task = [t \in Tasks |-> Idle]
    /\ saved = NoFile /\ file = NoFile
    /\ quit = FALSE /\ kept = FALSE /\ stranded = FALSE
    /\ \E s \in Scenarios : orderly = s.orderly /\ budget = s.budget

Up == phase \in {"serving", "collecting", "saving", "saved"}

Opened(s) == IF s.live THEN s ELSE [NoSession EXCEPT !.live = TRUE]

Request(channel) == wire' = Append(wire, channel)

Go(t, pc) == task' = [task EXCEPT ![t].pc = pc]

Finish(t) == task' = [task EXCEPT ![t] = Idle]

\* A disconnect drops active_voice_channels' entry, then resets the guild.
BeginReset ==
    /\ active' = NoChannel /\ clears' = clears + 1
    /\ quit' = (quit \/ (phase = "serving" /\ active # NoChannel))

-----------------------------------------------------------------------------
(* Discord and Songbird's part in the shard runner.                         *)

\* A peer joins, moves, leaves, or mutes (same channel).  serenity updates its
\* cache and spawns the handler; without the guild in cache there is no event.
UserMoves(u, c) ==
    /\ budget.moves > 0 /\ Len(inbox) < MaxInbox
    /\ budget' = [budget EXCEPT !.moves = @ - 1]
    /\ where' = [where EXCEPT ![u] = c]
    /\ inbox' = IF Up /\ cached THEN Append(inbox, [who |-> u, old |-> where[u], new |-> c])
                ELSE inbox
    /\ UNCHANGED <<bot, wire, cached, process, voice, active, session, resets, task, quit,
                   orderly>>

GuildCreate ==
    /\ Up /\ ~cached
    /\ cached' = TRUE
    /\ UNCHANGED <<discord, process, inbox, voice, active, session, resets, task, quit,
                   orderly, budget>>

\* Songbird drops the connection: a join that waits for it fails.
DropJoins == lost' = lost + joins /\ joins' = 0

\* Songbird sees the bot's own state before the handlers do.
BotIsIn(c) ==
    /\ bot' = c
    /\ call' = IF call \notin Channels THEN call ELSE IF c = NoChannel THEN "idle" ELSE c
    /\ IF call \in Channels /\ c = NoChannel THEN DropJoins ELSE UNCHANGED <<joins, lost>>
    /\ UNCHANGED stranded
    /\ inbox' = IF c = NoChannel /\ bot = NoChannel THEN inbox
                ELSE Append(inbox, [who |-> Bot, old |-> bot, new |-> c])
    /\ UNCHANGED <<where, cached, process, active, session, resets, task, quit, orderly>>

DiscordAnswers ==
    /\ Up /\ wire # << >> /\ Len(inbox) < MaxInbox
    /\ BotIsIn(Head(wire))
    /\ wire' = Tail(wire)
    /\ UNCHANGED budget

ModeratorMoves(c) ==
    /\ Up /\ bot # NoChannel /\ c # bot /\ budget.kicks > 0 /\ Len(inbox) < MaxInbox
    /\ BotIsIn(c)
    /\ budget' = [budget EXCEPT !.kicks = @ - 1]
    /\ UNCHANGED wire

-----------------------------------------------------------------------------
(* Handlers of voice_state_update.  serenity runs each in a task of its own.*)

\* Frozen: when orderly, handlers run in the order of their events, and code that
\* awaits nothing is not overtaken: that from the end of ensure_joined to the
\* bootstrap.
Prompt == orderly => \A t \in Tasks : task[t].pc \notin {"joined", "bootstrap"}

Turn(i) == Prompt /\ (orderly => i = 1)

HandleOwn(i) ==
    /\ Up /\ i \in DOMAIN inbox /\ inbox[i].who = Bot /\ Turn(i)
    /\ inbox' = RemoveAt(inbox, i)
    /\ LET c == inbox[i].new IN
       IF c = NoChannel
       THEN /\ session' = IF session.live THEN [session EXCEPT !.index = EmptyIndex]
                          ELSE session
            /\ BeginReset
       ELSE /\ session' = LET s == Opened(session) IN
                          [s EXCEPT !.index = UpdateBotChannel(@, c)]
            /\ active' = c
            /\ UNCHANGED <<clears, quit>>
    /\ UNCHANGED <<discord, process, cached, voice, leaves, task, orderly, budget>>

HandlePeer(i) ==
    /\ Up /\ i \in DOMAIN inbox /\ inbox[i].who # Bot /\ Turn(i)
    /\ inbox' = RemoveAt(inbox, i)
    /\ IF session.live
       THEN LET index == ApplyPeer(session.index, inbox[i].who, inbox[i].old, inbox[i].new) IN
            /\ session' = [session EXCEPT !.index = index]
            /\ IF IsAlone(index) THEN BeginReset ELSE UNCHANGED <<active, clears, quit>>
       ELSE UNCHANGED <<session, active, clears, quit>>
    /\ UNCHANGED <<discord, process, cached, voice, leaves, task, orderly, budget>>

\* The coordinator's disconnect_guild: the session goes, its waiting enqueues
\* fail, and then the runtime is told.
ResetClears ==
    /\ clears > 0
    /\ clears' = clears - 1 /\ leaves' = leaves + 1
    /\ session' = NoSession
    /\ task' = [t \in Tasks |-> IF task[t].pc = "waiting"
                                THEN [task[t] EXCEPT !.expired = TRUE] ELSE task[t]]
    /\ UNCHANGED <<discord, process, cached, inbox, voice, active, quit, orderly, budget>>

BugLeaveCall == call' = "absent" /\ UNCHANGED <<wire, stranded>>

LeaveCall ==
    /\ call' = "absent" /\ stranded' = FALSE
    /\ IF call = "absent" THEN UNCHANGED wire ELSE Request(NoChannel)

\* The leave cannot be sent: the connection is dropped and the call stays, and
\* whoever asked only logs it.
LeaveRefused ==
    /\ call # "absent"
    /\ call' = "idle" /\ stranded' = TRUE
    /\ UNCHANGED wire

\* manager.remove, with `left` of the budget
RemoveCall(left) ==
    \/ LeaveCall /\ budget' = left
    \/ /\ left.failures > 0 /\ budget' = [left EXCEPT !.failures = @ - 1]
       /\ LeaveRefused

ResetLeaves ==
    /\ leaves > 0 /\ Len(wire) < MaxWire
    /\ leaves' = leaves - 1
    /\ RemoveCall(budget) /\ DropJoins
    /\ UNCHANGED <<where, bot, process, cached, inbox, active, session, clears, task, quit,
                   orderly>>

-----------------------------------------------------------------------------
(* /play, and the restorer, which takes the same steps.                     *)

PlayBegins(p, u) ==
    /\ Up /\ cached /\ budget.plays > 0 /\ task[p].pc = "idle" /\ where[u] # NoChannel
    /\ session.live => Access(session.index, where[u]) # "different_channel"
    /\ budget' = [budget EXCEPT !.plays = @ - 1]
    /\ task' = [task EXCEPT ![p] = [Idle EXCEPT !.pc = "ensure", !.channel = where[u],
                                               !.track = TRUE]]
    /\ UNCHANGED <<discord, process, cached, inbox, voice, active, session, resets, quit,
                   orderly>>

\* ensure_joined: connected or pending in the channel already
EnsureJoined(t) ==
    /\ task[t].pc = "ensure"
    /\ Go(t, IF call = task[t].channel THEN "joined" ELSE "join")
    /\ UNCHANGED <<discord, process, cached, inbox, voice, active, session, resets, quit,
                   orderly, budget>>

Join(t) ==
    /\ task[t].pc = "join" /\ Len(wire) < MaxWire
    /\ call' = task[t].channel
    /\ Request(task[t].channel)
    /\ lost' = lost + joins /\ joins' = 1 /\ stranded' = FALSE
    /\ task' = [task EXCEPT ![t].pc = "joined", ![t].joinedNow = TRUE]
    /\ UNCHANGED <<where, bot, process, cached, inbox, active, session, resets, quit, orderly,
                   budget>>

\* The request cannot be sent; the call get_or_insert made stays.
JoinRefused(t) ==
    /\ task[t].pc = "join" /\ budget.failures > 0
    /\ budget' = [budget EXCEPT !.failures = @ - 1]
    /\ call' = IF call = "absent" THEN "idle" ELSE call
    /\ Finish(t)
    /\ UNCHANGED <<discord, process, cached, inbox, joins, lost, stranded, active, session,
                   resets, quit, orderly>>

\* Discord has the bot where the call is to be: the connection stands.
JoinSettles ==
    /\ joins > 0 /\ bot = call
    /\ joins' = joins - 1
    /\ UNCHANGED <<discord, process, cached, inbox, call, lost, stranded, active, session,
                   resets, task, quit, orderly, budget>>

\* The task that waited for the join, dropped or not, removes whatever call the
\* guild has now.
JoinFails ==
    /\ Len(wire) < MaxWire /\ Prompt
    /\ \/ lost > 0 /\ RemoveCall(budget)
       \/ /\ joins > 0 /\ budget.failures > 0
          /\ RemoveCall([budget EXCEPT !.failures = @ - 1])
    /\ lost' = lost + joins - 1 /\ joins' = 0
    /\ UNCHANGED <<where, bot, process, cached, inbox, active, session, resets, task, quit,
                   orderly>>

\* active_voice_channels' entry, and guild_voice_snapshot of serenity's cache
Snapshot(t) ==
    /\ task[t].pc = "joined"
    /\ active' = task[t].channel
    /\ task' = [task EXCEPT ![t].pc = "bootstrap",
                            ![t].seen = IF cached THEN where ELSE EmptyIndex.peers,
                            ![t].informed = cached]
    /\ UNCHANGED <<discord, process, cached, inbox, voice, session, resets, quit, orderly,
                   budget>>

BootstrapVoiceState(t) ==
    /\ task[t].pc = "bootstrap"
    /\ session' = [Opened(session) EXCEPT !.index = Bootstrap(task[t].channel, task[t].seen),
                                         !.informed = task[t].informed]
    /\ IF task[t].track THEN Go(t, "enqueue") ELSE Finish(t)
    /\ UNCHANGED <<discord, process, cached, inbox, voice, active, resets, quit, orderly,
                   budget>>

Enqueue(t) ==
    /\ task[t].pc = "enqueue"
    /\ session' = Opened(session)
    /\ Go(t, "waiting")
    /\ UNCHANGED <<discord, process, cached, inbox, voice, active, resets, quit, orderly,
                   budget>>

BugEnqueueSucceeds(t) ==
    /\ task[t].pc = "waiting"
    /\ session' = [session EXCEPT !.track = TRUE]
    /\ Finish(t)
    /\ UNCHANGED <<discord, process, cached, inbox, voice, active, resets, quit, orderly,
                   budget>>

EnqueueSucceeds(t) ==
    /\ task[t].pc = "waiting" /\ ~task[t].expired
    /\ session' = [session EXCEPT !.track = TRUE]
    /\ Finish(t)
    /\ UNCHANGED <<discord, process, cached, inbox, voice, active, resets, quit, orderly,
                   budget>>

\* A command that joined for a track that cannot be played leaves again.
EnqueueFails(t) ==
    /\ task[t].pc = "waiting"
    /\ IF task[t].expired THEN UNCHANGED budget
       ELSE budget.failures > 0 /\ budget' = [budget EXCEPT !.failures = @ - 1]
    /\ IF t \in Plays /\ task[t].joinedNow /\ ~session.track
       THEN BeginReset ELSE UNCHANGED <<active, clears, quit>>
    /\ Finish(t)
    /\ UNCHANGED <<discord, process, cached, inbox, voice, session, leaves, orderly>>

\* The last track of the queue ends; the bot stays.
TrackEnds ==
    /\ session.track
    /\ session' = [session EXCEPT !.track = FALSE]
    /\ UNCHANGED <<discord, process, cached, inbox, voice, active, resets, task, quit, orderly,
                   budget>>

-----------------------------------------------------------------------------
(* The process.                                                             *)

Boot ==
    /\ phase = "down" /\ budget.lives > 0
    /\ phase' = "booting"
    /\ budget' = [budget EXCEPT !.lives = @ - 1]
    /\ UNCHANGED <<discord, saved, file, kept, cached, inbox, voice, active, session, resets,
                   task, quit, orderly>>

Resumed == IF file.channel = NoChannel THEN task
           ELSE [task EXCEPT ![Restorer] = [Idle EXCEPT !.pc = "ensure",
                              !.channel = file.channel, !.track = file.playing]]

BugReady ==
    /\ phase = "booting"
    /\ phase' = "serving" /\ task' = Resumed
    /\ UNCHANGED <<discord, saved, file, kept, cached, inbox, voice, active, session, resets,
                   quit, orderly, budget>>

\* ReconnectStore::take removes the file before anything is resumed.
Ready ==
    /\ phase = "booting"
    /\ phase' = "serving" /\ task' = Resumed
    /\ file' = NoFile /\ kept' = FALSE
    /\ UNCHANGED <<discord, saved, cached, inbox, voice, active, session, resets, quit, orderly,
                   budget>>

\* `take` fails and the bot serves with nothing resumed.  A file that cannot be
\* read or removed stays, one that does not parse is gone.
TakeFails ==
    /\ phase = "booting" /\ budget.failures > 0
    /\ phase' = "serving"
    /\ file' \in {file, NoFile} /\ kept' = (file' # NoFile)
    /\ budget' = [budget EXCEPT !.failures = @ - 1]
    /\ UNCHANGED <<discord, saved, cached, inbox, voice, active, session, resets, task, quit,
                   orderly>>

\* persist_restart_state collects the channel; a signal may come before
\* `ready`.  The shard goes on dispatching until it is stopped.
Signal ==
    /\ phase \in {"booting", "serving"}
    /\ phase' = "collecting"
    /\ saved' = [channel |-> active, playing |-> FALSE]
    /\ UNCHANGED <<discord, file, kept, cached, inbox, voice, active, session, resets, task,
                   quit, orderly, budget>>

\* Then it asks for what plays, in whatever session the guild has by now.
RestartSnapshot ==
    /\ phase = "collecting"
    /\ phase' = "saving"
    /\ saved' = [saved EXCEPT !.playing = saved.channel # NoChannel /\ session.track]
    /\ UNCHANGED <<discord, file, kept, cached, inbox, voice, active, session, resets, task,
                   quit, orderly, budget>>

\* ReconnectStore::save: the new file takes the old one's place at once, and
\* with nothing to save the old one is removed.
Save ==
    /\ phase = "saving"
    /\ phase' = "saved"
    /\ file' = saved /\ quit' = FALSE /\ kept' = FALSE
    /\ UNCHANGED <<discord, saved, cached, inbox, voice, active, session, resets, task, orderly,
                   budget>>

\* The write fails, or RESTART_STATE_TIMEOUT passes first.
SaveFails ==
    /\ phase \in {"collecting", "saving"} /\ budget.failures > 0
    /\ phase' = "saved"
    /\ budget' = [budget EXCEPT !.failures = @ - 1]
    /\ UNCHANGED <<discord, saved, file, kept, cached, inbox, voice, active, session, resets,
                   task, quit, orderly>>

\* The process ends, by itself after the save or by a crash; Discord takes the
\* bot out of the channel.
Ends ==
    /\ phase' = "down"
    /\ bot' = NoChannel /\ wire' = << >> /\ cached' = FALSE /\ inbox' = << >>
    /\ call' = "absent" /\ joins' = 0 /\ lost' = 0 /\ stranded' = FALSE
    /\ active' = NoChannel /\ session' = NoSession
    /\ clears' = 0 /\ leaves' = 0 /\ task' = [t \in Tasks |-> Idle]
    /\ saved' = NoFile
    /\ UNCHANGED <<where, file, kept, quit, orderly, budget>>

Exit == phase = "saved" /\ Ends

Crash == phase \in {"booting", "serving", "collecting", "saving"} /\ Ends

Next ==
    \/ \E u \in Users, c \in Places : UserMoves(u, c)
    \/ GuildCreate
    \/ DiscordAnswers
    \/ \E c \in Places : ModeratorMoves(c)
    \/ \E i \in 1..MaxInbox : HandleOwn(i)
    \/ \E i \in 1..MaxInbox : HandlePeer(i)
    \/ ResetClears
    \/ ResetLeaves
    \/ \E p \in Plays, u \in Users : PlayBegins(p, u)
    \/ \E t \in Tasks : EnsureJoined(t)
    \/ \E t \in Tasks : Join(t)
    \/ \E t \in Tasks : JoinRefused(t)
    \/ JoinSettles
    \/ JoinFails
    \/ \E t \in Tasks : Snapshot(t)
    \/ \E t \in Tasks : BootstrapVoiceState(t)
    \/ \E t \in Tasks : Enqueue(t)
    \/ \E t \in Tasks : EnqueueSucceeds(t)
    \/ \E t \in Tasks : EnqueueFails(t)
    \/ TrackEnds
    \/ Boot
    \/ Ready
    \/ TakeFails
    \/ Signal
    \/ RestartSnapshot
    \/ Save
    \/ SaveFails
    \/ Exit
    \/ Crash

Spec == Init /\ [][Next]_vars

-----------------------------------------------------------------------------
(* Properties.                                                              *)

\* Whatever order the handlers run in, and however often the index is
\* bootstrapped anew, moved or cleared, the counts beside the map are the
\* numbers of peers in it: a count that drifts makes the bot leave listeners
\* or stay for nobody.
CountsFollow == CountsAgree(session.index)

\* When handlers run in the order of their events, an index that was
\* bootstrapped from a cache that had the guild, with no peer event left to
\* handle, is where the peers are, also when it was bootstrapped, moved or reset
\* while events were waiting that the snapshot already knew.
OccupancyFollows ==
    (/\ orderly /\ session.informed /\ session.index.bootstrapped
     /\ \A i \in DOMAIN inbox : inbox[i].who = Bot)
        => session.index.peers = where

\* A connection that ended in service after the file was written is not in the
\* file, so no crash brings it back, unless `take` failed and left the file there.
NotResurrected == file.channel # NoChannel /\ quit => kept

(* Everything is handled and nobody is waiting. *)
AtRest == /\ phase = "serving" /\ inbox = << >> /\ wire = << >>
          /\ joins = 0 /\ lost = 0 /\ clears = 0 /\ leaves = 0
          /\ \A t \in Tasks : task[t].pc = "idle"

\* Handlers, commands, failing joins and resets that each write their own view
\* of where the bot is (active_voice_channels, the voice index, the call) in any
\* interleaving leave them all at where Discord has it, once nothing is under
\* way and the handlers ran in order.  Otherwise /play is refused or the bot
\* stays in a channel that no reset will take it out of.  When a leave could not
\* be sent the bot may stay with no record of it, but no record names a channel
\* the bot is not in and the call is in none, so that the next /play joins anew.
PlacesAgree ==
    (orderly /\ AtRest) =>
        IF stranded
        THEN {active, session.index.bot} \subseteq {NoChannel, bot} /\ call \notin Channels
        ELSE /\ active = bot
             /\ session.index.bot = bot
             /\ IF bot = NoChannel THEN call \notin Channels ELSE call = bot
=============================================================================
