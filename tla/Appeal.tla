------------------------------- MODULE Appeal -------------------------------
(***************************************************************************)
(* The appeal command (commands/appeals.cpp): find the guild the user means,*)
(* find out whether the bot may write to them, have the panel create an     *)
(* invitation, and show it.  Each interaction is a coroutine; those of one  *)
(* user run side by side and share the guild cache and the list of direct   *)
(* message channels of the library.                                         *)
(*                                                                          *)
(* The bot asks for the intents guilds and direct_messages only: members    *)
(* reach the cache with the guild they come with and never change there.    *)
(***************************************************************************)
EXTENDS Naturals, FiniteSets

CONSTANTS
    Interactions,  \* appeals of one user
    Guilds,        \* guilds the bot may be in
    NoGuild,       \* the snowflake 0
    Sent           \* what Discord may send of an interaction, see Requests

VARIABLES
    guilds,    \* guilds in the cache
    mutual,    \* those of them whose cached members include the user
    dm,        \* whether dm_channels has a channel for the user
    request,   \* context and guild of each interaction, as Discord sent them
    guild,     \* guild_id as the coroutine has determined it
    pc,        \* where each coroutine is suspended
    pending,   \* the reply of each that is on its way to Discord
    replies,   \* how many replies each has posted
    \* Discord and the panel
    shown,     \* replies the user has seen
    invited,   \* interactions the panel has created an invitation for
    late,      \* interactions whose replies have come too late
    \* history, never read by the bot
    seen,      \* the mutual guilds when the guild was determined
    lossy      \* a request of this interaction or its answer was lost

cacheVars == <<guilds, mutual>>
network   == <<shown, invited, late>>
vars == <<cacheVars, dm, request, guild, pc, pending, replies, network, seen, lossy>>

Contexts == {"absent", "guild", "bot_dm", "private"}

(* A guild is sent along only from within it, a context only by newer       *)
(* versions of the interface.                                               *)
Requests == {q \in [context : Contexts, guild : Guilds \cup {NoGuild}] :
                /\ q.context = "guild" => q.guild # NoGuild
                /\ q.context \in {"bot_dm", "private"} => q.guild = NoGuild}

ASSUME AppealAssumption == NoGuild \notin Guilds /\ Sent \subseteq Requests

Awaiting == {"create", "probe", "probe 0", "panel", "reply"}
Ended    == {"over", "thrown", "stuck"}

Init ==
    /\ guilds  = {}
    /\ mutual  = {}
    /\ dm      = FALSE
    /\ request \in [Interactions -> Sent]
    /\ guild   = [i \in Interactions |-> NoGuild]
    /\ pc      = [i \in Interactions |-> "new"]
    /\ pending = [i \in Interactions |-> "none"]
    /\ replies = [i \in Interactions |-> 0]
    /\ shown   = [i \in Interactions |-> {}]
    /\ invited = {}
    /\ late    = {}
    /\ seen    = [i \in Interactions |-> {}]
    /\ lossy   = {}

Goto(i, place) == pc' = [pc EXCEPT ![i] = place]

(* event.reply and event.co_reply post without waiting.                     *)
Reply(i, what) ==
    /\ pending' = [pending EXCEPT ![i] = what]
    /\ replies' = [replies EXCEPT ![i] = @ + 1]

Silent == UNCHANGED <<pending, replies>>

(* Whatever follows is an error message to the user.                        *)
Fail(i) == Reply(i, "error") /\ Goto(i, "over")

Lose(i) == lossy' = lossy \cup {i}

-----------------------------------------------------------------------------
(* The guild cache.                                                         *)
GuildCreated(g) ==
    /\ g \notin guilds
    /\ guilds' = guilds \cup {g}
    /\ mutual' \in {mutual, mutual \cup {g}}
    /\ UNCHANGED <<dm, request, guild, pc, pending, replies, network, seen, lossy>>

(* Bug: the members of a deleted guild stay.                                *)
BugGuildDeleted(g) ==
    /\ g \in guilds
    /\ guilds' = guilds \ {g}
    /\ UNCHANGED <<mutual, dm, request, guild, pc, pending, replies, network, seen, lossy>>

GuildDeleted(g) ==
    /\ g \in guilds
    /\ guilds' = guilds \ {g}
    /\ mutual' = mutual \ {g}
    /\ UNCHANGED <<dm, request, guild, pc, pending, replies, network, seen, lossy>>

-----------------------------------------------------------------------------
(* Whether the guild is looked for in the cache.                            *)
Searches(q) == q.context \notin {"absent", "guild"} \/ q.guild = NoGuild

Probes(q) == q.context \notin {"absent", "bot_dm"}

(* Bug: the last mutual guild found is taken.                               *)
BugAmbiguous(i) == FALSE

Ambiguous(i) == Searches(request[i]) /\ Cardinality(mutual) > 1

(* Without a mutual guild in the cache the guild of the interaction stays,  *)
(* which is 0 outside of guilds.                                            *)
Determine(i) ==
    guild' = [guild EXCEPT ![i] =
        IF Searches(request[i]) /\ mutual # {} THEN CHOOSE g \in mutual : TRUE
                                               ELSE request[i].guild]

(* The handler up to its first await: a message to the user's channel if    *)
(* one is known, the creation of the channel, or the panel.                 *)
Begin(i) ==
    /\ pc[i] = "new"
    /\ seen' = [seen EXCEPT ![i] = IF Searches(request[i]) THEN mutual ELSE {}]
    /\ IF Ambiguous(i)
       THEN Fail(i) /\ UNCHANGED guild
       ELSE /\ Determine(i)
            /\ Silent
            /\ Goto(i, IF ~ Probes(request[i]) THEN "panel"
                                               ELSE IF dm THEN "probe" ELSE "create")
    /\ UNCHANGED <<cacheVars, dm, request, network, lossy>>

(* create_dm_channel was answered.  direct_message_create does not look at  *)
(* errors: it takes a channel with the id 0 from them, stores that, and     *)
(* sends the message there.                                                 *)
ChannelCreated(i) ==
    /\ pc[i] = "create"
    /\ \E ok \in BOOLEAN :
          /\ dm' = ok
          /\ Goto(i, IF ok THEN "probe" ELSE "probe 0")
    /\ UNCHANGED <<cacheVars, request, guild, pending, replies, network, seen, lossy>>

(* Bug: who does not let the bot write is told nothing.                     *)
BugProbeAnswered(i) ==
    /\ pc[i] \in {"probe", "probe 0"}
    /\ \/ pc[i] = "probe" /\ Goto(i, "panel")
       \/ Goto(i, "over")
    /\ Silent
    /\ UNCHANGED <<cacheVars, dm, request, guild, network, seen, lossy>>

(* Bug: the channel is created anew until the message is refused with 400.  *)
BugProbeAgain(i) ==
    /\ pc[i] \in {"probe", "probe 0"}
    /\ \/ pc[i] = "probe" /\ Goto(i, "panel")
       \/ Goto(i, "create")
    /\ Silent
    /\ UNCHANGED <<cacheVars, dm, request, guild, network, seen, lossy>>

(* The empty message is refused: with 400 if the bot may write, with 403 if *)
(* the user does not let it, with 404 where there is no channel; or with    *)
(* anything else, down to 0 when the connection failed.                     *)
ProbeAnswered(i) ==
    /\ pc[i] \in {"probe", "probe 0"}
    /\ \/ pc[i] = "probe" /\ Goto(i, "panel") /\ Silent
       \/ Fail(i)
    /\ UNCHANGED <<cacheVars, dm, request, guild, network, seen, lossy>>

(* Bug: the status is compared with 400 only below the parsing.             *)
BugPanelAnswered(i) ==
    /\ pc[i] = "panel"
    /\ invited' \in {invited, invited \cup {i}}
    /\ Reply(i, "embed") /\ Goto(i, "reply")
    /\ UNCHANGED <<cacheVars, dm, request, guild, shown, late, seen, lossy>>

(* The panel has created the invitation or not, and its answer tells so or  *)
(* does not.  An embed that dpp::embed cannot read throws.                  *)
PanelAnswered(i) ==
    /\ pc[i] = "panel"
    /\ \/ /\ invited' = invited \cup {i}
          /\ \/ Reply(i, "embed") /\ Goto(i, "reply")
             \/ Silent /\ Goto(i, "thrown")
             \/ Fail(i)
       \/ Fail(i) /\ UNCHANGED invited
    /\ UNCHANGED <<cacheVars, dm, request, guild, shown, late, seen, lossy>>

-----------------------------------------------------------------------------
(* What the result of co_reply says; see IsError in ProcessedMessages.      *)
(* Bug: a failed connection counts as an error.                             *)
BugIsError(result) == result # "accepted"

IsError(result) == result = "refused"

Result(i, result) ==
    IF pc[i] # "reply"
    THEN pending' = [pending EXCEPT ![i] = "none"] /\ UNCHANGED <<pc, replies>>
    ELSE IF IsError(result)
    THEN Fail(i)
    ELSE /\ pending' = [pending EXCEPT ![i] = "none"]
         /\ Goto(i, "over")
         /\ UNCHANGED replies

(* Discord takes a reply and shows it; its answer may be lost.              *)
ReplyAccepted(i) ==
    /\ pending[i] # "none" /\ i \notin late
    /\ shown' = [shown EXCEPT ![i] = @ \cup {pending[i]}]
    /\ \/ Result(i, "accepted") /\ UNCHANGED lossy
       \/ Result(i, "lost") /\ Lose(i)
    /\ UNCHANGED <<cacheVars, dm, request, guild, invited, late, seen>>

(* It refuses an embed it does not like, and whatever comes too late: the   *)
(* handler never defers its reply, so Discord's patience of seconds holds   *)
(* for all of it.                                                           *)
ReplyRefused(i) ==
    /\ pending[i] # "none"
    /\ \/ late' = late \cup {i}
       \/ pending[i] = "embed" /\ UNCHANGED late
    /\ \/ Result(i, "refused") /\ UNCHANGED lossy
       \/ Result(i, "lost") /\ Lose(i)
    /\ UNCHANGED <<cacheVars, dm, request, guild, shown, invited, seen>>

ReplyLost(i) ==
    /\ pending[i] # "none"
    /\ Result(i, "lost")
    /\ Lose(i)
    /\ UNCHANGED <<cacheVars, dm, request, guild, network, seen>>

(* A request that is never answered (RequestQueue's failed).                *)
Abandon(i) ==
    /\ pc[i] \in Awaiting
    /\ Goto(i, "stuck")
    /\ pending' = [pending EXCEPT ![i] = "none"]
    /\ Lose(i)
    /\ UNCHANGED <<cacheVars, dm, request, guild, replies, network, seen>>

Step(i) ==
    \/ Begin(i) \/ ChannelCreated(i) \/ ProbeAnswered(i) \/ PanelAnswered(i)
    \/ ReplyAccepted(i) \/ ReplyRefused(i) \/ ReplyLost(i) \/ Abandon(i)

Next ==
    \/ \E g \in Guilds : GuildCreated(g) \/ GuildDeleted(g)
    \/ \E i \in Interactions : Step(i)

Spec == Init /\ [][Next]_vars

(* Pool threads resume the coroutines, and requests are answered or fail.   *)
FairSpec == Spec /\ \A i \in Interactions : WF_vars(Step(i))

-----------------------------------------------------------------------------
(* Types of all variables.                                                  *)
TypeOK ==
    /\ guilds \subseteq Guilds /\ mutual \subseteq guilds
    /\ dm \in BOOLEAN
    /\ request \in [Interactions -> Sent]
    /\ guild \in [Interactions -> Guilds \cup {NoGuild}]
    /\ pc \in [Interactions -> {"new"} \cup Awaiting \cup Ended]
    /\ pending \in [Interactions -> {"none", "embed", "error"}]
    /\ replies \in [Interactions -> 0 .. 2]
    /\ shown \in [Interactions -> SUBSET {"embed", "error"}]
    /\ {invited, late, lossy} \subseteq SUBSET Interactions
    /\ seen \in [Interactions -> SUBSET Guilds]

(* An invitation is never for a guild picked among several: it is for the   *)
(* one the command was used in, the only one the cache knew the user in, or *)
(* for none where the cache knew none (appeals.cpp:10-33).                  *)
InvitedToTheRightGuild ==
    \A i \in invited :
        IF request[i].guild # NoGuild THEN guild[i] = request[i].guild
        ELSE IF seen[i] # {} THEN seen[i] = {guild[i]}
        ELSE guild[i] = NoGuild

(* The user sees one reply at most, although a second is posted when the    *)
(* embed was refused and although answers get lost (appeals.cpp:139-143).   *)
OneReplyShown == \A i \in Interactions : Cardinality(shown[i]) <= 1

(* An embed is shown only for an invitation that exists                     *)
(* (appeals.cpp:111-139).                                                   *)
ShownMeansInvited ==
    \A i \in Interactions : "embed" \in shown[i] => i \in invited

(* Wherever the handler returns the user has been told something, unless it *)
(* threw, was never answered, lost a reply, or was too slow                 *)
(* (appeals.cpp:21, 43, 48, 112-142).                                       *)
ToldUnlessLost ==
    \A i \in Interactions \ (lossy \cup late) :
        pc[i] = "over" /\ pending[i] = "none" => shown[i] # {}

(* Every interaction comes to an end, and with it its replies.              *)
EveryAppealEnds == \A i \in Interactions : <>(pc[i] \in Ended /\ pending[i] = "none")
=============================================================================
