---------------------------- MODULE AppealProofs ----------------------------
(***************************************************************************)
(* Proofs about Appeal for any number of interactions and guilds.           *)
(***************************************************************************)
EXTENDS Appeal, TLAPS, FiniteSetTheorems

-----------------------------------------------------------------------------
(* The invariant.                                                           *)

(* Where the handler has not posted a reply yet.                            *)
Early == {"new", "create", "probe", "probe 0", "panel"}

(* How many replies an interaction has posted and which one is on its way:  *)
(* a second one follows only the refusal of the first.                      *)
RepliesOK(i) ==
    /\ pc[i] \in Early  => replies[i] = 0 /\ pending[i] = "none"
    /\ pc[i] = "reply"  => replies[i] = 1 /\ pending[i] = "embed"
    /\ pending[i] = "embed" => pc[i] = "reply"

(* What the user has seen is nothing while a reply is on its way.           *)
ShownOK(i) ==
    /\ pc[i] \in Early \/ pending[i] # "none" => shown[i] = {}
    /\ \E what : shown[i] \subseteq {what}

(* What the coroutine has determined is the guild that was meant.           *)
GuildMeant(i) ==
    IF request[i].guild # NoGuild THEN guild[i] = request[i].guild
    ELSE IF seen[i] # {} THEN seen[i] = {guild[i]}
    ELSE guild[i] = NoGuild

(* From its first await on a coroutine knows that guild, and invitations are *)
(* for it; an embed is posted only where one was created.                   *)
InvitedOK(i) ==
    /\ pc[i] = "new" => i \notin invited
    /\ pc[i] \in Early \ {"new"} \/ i \in invited => GuildMeant(i)
    /\ pc[i] = "reply" \/ "embed" \in shown[i] => i \in invited

(* Who has returned has told the user.                                      *)
ToldOK(i) ==
    i \notin lossy \union late /\ pc[i] = "over" /\ pending[i] = "none" => shown[i] # {}

Inv ==
    /\ TypeOK
    /\ IsFiniteSet(guilds)
    /\ \A i \in Interactions : RepliesOK(i) /\ ShownOK(i) /\ InvitedOK(i) /\ ToldOK(i)

-----------------------------------------------------------------------------
LEMMA InvInit == Init => Inv
<1> SUFFICES ASSUME Init PROVE Inv
  OBVIOUS
<1>1. TypeOK
  <2>1. dm \in BOOLEAN
    BY DEF Init
  <2>2. pc \in [Interactions -> {"new"} \cup Awaiting \cup Ended]
    BY DEF Init
  <2> QED
    BY <2>1, <2>2 DEF Init, TypeOK
<1>2. IsFiniteSet(guilds)
  BY FS_EmptySet DEF Init
<1>3. ASSUME NEW i \in Interactions
      PROVE  RepliesOK(i) /\ ShownOK(i) /\ InvitedOK(i) /\ ToldOK(i)
  BY DEF Init, RepliesOK, ShownOK, InvitedOK, ToldOK, Early
<1> QED
  BY <1>1, <1>2, <1>3 DEF Inv

(* Guilds come one by one: the cache, and what it knows of the user, is     *)
(* finite.                                                                  *)
LEMMA CacheStep ==
    ASSUME Inv, [Next]_vars
    PROVE  IsFiniteSet(guilds')
<1>1. ASSUME NEW g \in Guilds, GuildCreated(g) PROVE IsFiniteSet(guilds')
  BY <1>1, FS_AddElement DEF GuildCreated, Inv
<1>2. ASSUME NEW g \in Guilds, GuildDeleted(g) PROVE IsFiniteSet(guilds')
  BY <1>2, FS_RemoveElement DEF GuildDeleted, Inv
<1>3. ASSUME UNCHANGED guilds PROVE IsFiniteSet(guilds')
  BY <1>3 DEF Inv
<1>4. ASSUME NEW i \in Interactions, Step(i) PROVE UNCHANGED guilds
  BY <1>4 DEF Step, Begin, ChannelCreated, ProbeAnswered, PanelAnswered, ReplyAccepted,
              ReplyRefused, ReplyLost, Abandon, cacheVars
<1> QED
  BY <1>1, <1>2, <1>3, <1>4 DEF Next, vars, cacheVars

(* With one mutual guild at most, the guild that is determined is the one   *)
(* the user means.                                                          *)
LEMMA GuildFound ==
    ASSUME Inv, NEW i \in Interactions, Begin(i), ~ Ambiguous(i)
    PROVE  GuildMeant(i)'
<1>1. request[i] \in Requests
  BY AppealAssumption DEF Inv, TypeOK
<1>2. Searches(request[i]) => request[i].guild = NoGuild
  BY <1>1 DEF Searches, Requests, Contexts
<1>3. /\ guild'[i] = IF Searches(request[i]) /\ mutual # {} THEN CHOOSE g \in mutual : TRUE
                                                            ELSE request[i].guild
      /\ seen'[i] = IF Searches(request[i]) THEN mutual ELSE {}
      /\ request' = request
  BY DEF Begin, Determine, Inv, TypeOK
<1>4. CASE Searches(request[i]) /\ mutual # {}
  <2>1. IsFiniteSet(mutual) /\ Cardinality(mutual) <= 1
    <3>1. IsFiniteSet(mutual)
      BY FS_Subset DEF Inv, TypeOK
    <3>2. Cardinality(mutual) \in Nat
      BY <3>1, FS_CardinalityType
    <3> QED
      BY <1>4, <3>1, <3>2 DEF Ambiguous
  <2>2. PICK g : mutual = {g}
    <3>1. Cardinality(mutual) \in Nat /\ Cardinality(mutual) # 0
      BY <1>4, <2>1, FS_CardinalityType, FS_EmptySet
    <3>2. Cardinality(mutual) = 1
      BY <2>1, <3>1
    <3> QED
      BY <2>1, <3>2, FS_Singleton
  <2> QED
    BY <1>2, <1>3, <1>4, <2>2 DEF GuildMeant
<1>5. CASE ~ Searches(request[i]) \/ mutual = {}
  BY <1>3, <1>5 DEF GuildMeant
<1> QED
  BY <1>4, <1>5

-----------------------------------------------------------------------------
LEMMA GuildOf == \A q \in Sent : q.guild \in Guilds \cup {NoGuild}
BY AppealAssumption DEF Requests

(* Types; an interaction that may still reply has replied once at most.     *)
LEMMA StepTypes ==
    ASSUME TypeOK, NEW i \in Interactions, Step(i), RepliesOK(i)
    PROVE  TypeOK'
<1>1. guilds' = guilds /\ mutual' = mutual /\ request' = request
  BY DEF Step, Begin, ChannelCreated, ProbeAnswered, PanelAnswered, ReplyAccepted,
          ReplyRefused, ReplyLost, Abandon, cacheVars
<1>2. dm' \in BOOLEAN
  BY DEF Step, Begin, ChannelCreated, ProbeAnswered, PanelAnswered, ReplyAccepted,
          ReplyRefused, ReplyLost, Abandon, TypeOK
<1>3. guild' \in [Interactions -> Guilds \cup {NoGuild}]
  <2>1. CASE Determine(i)
    <3>1. request[i].guild \in Guilds \cup {NoGuild}
      BY GuildOf DEF TypeOK
    <3>2. mutual # {} => (CHOOSE g \in mutual : TRUE) \in Guilds
      BY DEF TypeOK
    <3> QED
      BY <2>1, <3>1, <3>2 DEF Determine, TypeOK
  <2>2. CASE guild' = guild
    BY <2>2 DEF TypeOK
  <2> QED
    BY <2>1, <2>2 DEF Step, Begin, ChannelCreated, ProbeAnswered, PanelAnswered, ReplyAccepted,
          ReplyRefused, ReplyLost, Abandon
<1>4. pc' \in [Interactions -> {"new"} \cup Awaiting \cup Ended]
  BY DEF Step, Begin, ChannelCreated, ProbeAnswered, PanelAnswered, ReplyAccepted,
          ReplyRefused, ReplyLost, Abandon,
         Goto, Fail, Result, TypeOK, Awaiting, Ended
<1>5. pending' \in [Interactions -> {"none", "embed", "error"}]
  BY DEF Step, Begin, ChannelCreated, ProbeAnswered, PanelAnswered, ReplyAccepted,
          ReplyRefused, ReplyLost, Abandon,
         Reply, Silent, Fail, Result, TypeOK
<1>6. replies' \in [Interactions -> 0 .. 2]
  <2>1. \/ replies' = replies
        \/ replies' = [replies EXCEPT ![i] = @ + 1] /\ pc[i] \in Early \cup {"reply"}
    BY DEF Step, Begin, ChannelCreated, ProbeAnswered, PanelAnswered, ReplyAccepted,
          ReplyRefused, ReplyLost, Abandon,
           Reply, Silent, Fail, Result, Early
  <2>2. CASE replies' = replies
    BY <2>2 DEF TypeOK
  <2>3. CASE replies' = [replies EXCEPT ![i] = @ + 1] /\ pc[i] \in Early \cup {"reply"}
    <3>1. replies[i] + 1 \in 0 .. 2
      BY <2>3 DEF RepliesOK
    <3> QED
      BY <2>3, <3>1 DEF TypeOK
  <2> QED
    BY <2>1, <2>2, <2>3
<1>7. shown' \in [Interactions -> SUBSET {"embed", "error"}]
  <2>1. \/ shown' = shown
        \/ shown' = [shown EXCEPT ![i] = @ \cup {pending[i]}] /\ pending[i] # "none"
    BY DEF Step, Begin, ChannelCreated, ProbeAnswered, PanelAnswered, ReplyAccepted,
          ReplyRefused, ReplyLost, Abandon, network
  <2> QED
    BY <2>1 DEF TypeOK
<1>8. {invited', late', lossy'} \subseteq SUBSET Interactions
  <2>1. /\ invited' \in {invited, invited \cup {i}}
        /\ late' \in {late, late \cup {i}}
        /\ lossy' \in {lossy, lossy \cup {i}}
    BY DEF Step, Begin, ChannelCreated, ProbeAnswered, PanelAnswered, ReplyAccepted,
          ReplyRefused, ReplyLost, Abandon, network, Lose
  <2> QED
    BY <2>1 DEF TypeOK
<1>9. seen' \in [Interactions -> SUBSET Guilds]
  <2>1. CASE Begin(i)
    BY <2>1 DEF Begin, TypeOK
  <2>2. CASE seen' = seen
    BY <2>2 DEF TypeOK
  <2> QED
    BY <2>1, <2>2 DEF Step, Begin, ChannelCreated, ProbeAnswered, PanelAnswered, ReplyAccepted,
          ReplyRefused, ReplyLost, Abandon
<1> QED
  BY <1>1, <1>2, <1>3, <1>4, <1>5, <1>6, <1>7, <1>8, <1>9 DEF TypeOK

(* A step of one interaction leaves the others alone.                       *)
LEMMA Others ==
    ASSUME TypeOK, NEW i \in Interactions, Step(i), NEW j \in Interactions \ {i},
           RepliesOK(j), ShownOK(j), InvitedOK(j), ToldOK(j)
    PROVE  (RepliesOK(j) /\ ShownOK(j) /\ InvitedOK(j) /\ ToldOK(j))'
<1>1. /\ pc'[j] = pc[j] /\ pending'[j] = pending[j] /\ replies'[j] = replies[j]
      /\ shown'[j] = shown[j] /\ guild'[j] = guild[j] /\ seen'[j] = seen[j]
      /\ request' = request
      /\ (j \in invited' <=> j \in invited) /\ (j \in late' <=> j \in late)
      /\ (j \in lossy' <=> j \in lossy)
  <2> USE DEF TypeOK, Goto, Reply, Silent, Fail, Lose, Result, network
  <2>1. CASE Begin(i)
    BY <2>1 DEF Begin, Determine
  <2>2. CASE ChannelCreated(i)
    BY <2>2 DEF ChannelCreated
  <2>3. CASE ProbeAnswered(i)
    BY <2>3 DEF ProbeAnswered
  <2>4. CASE PanelAnswered(i)
    BY <2>4 DEF PanelAnswered
  <2>5. CASE ReplyAccepted(i)
    BY <2>5 DEF ReplyAccepted
  <2>6. CASE ReplyRefused(i)
    BY <2>6 DEF ReplyRefused
  <2>7. CASE ReplyLost(i)
    BY <2>7 DEF ReplyLost
  <2>8. CASE Abandon(i)
    BY <2>8 DEF Abandon
  <2> QED
    BY <2>1, <2>2, <2>3, <2>4, <2>5, <2>6, <2>7, <2>8 DEF Step
<1>2. RepliesOK(j)' /\ ShownOK(j)'
  BY <1>1 DEF RepliesOK, ShownOK
<1>3. InvitedOK(j)' /\ ToldOK(j)'
  BY <1>1 DEF InvitedOK, GuildMeant, ToldOK
<1> QED
  BY <1>2, <1>3

(* What a step does to its own interaction.                                 *)
LEMMA Own ==
    ASSUME Inv, NEW i \in Interactions, Step(i)
    PROVE  (RepliesOK(i) /\ ShownOK(i) /\ InvitedOK(i) /\ ToldOK(i))'
<1>1. /\ RepliesOK(i) /\ ShownOK(i) /\ InvitedOK(i) /\ ToldOK(i) /\ TypeOK
  BY DEF Inv
<1> USE DEF TypeOK, RepliesOK, ShownOK, InvitedOK, ToldOK, Early, Goto, Reply, Silent, Fail,
            Lose, Result, IsError, network
<1>2. CASE Begin(i)
  <2>1. CASE Ambiguous(i)
    BY <1>1, <1>2, <2>1 DEF Begin
  <2>2. CASE ~ Ambiguous(i)
    <3>1. GuildMeant(i)'
      BY <1>2, <2>2, GuildFound
    <3>2. pc'[i] \in Early \ {"new"} /\ pending'[i] = "none" /\ replies'[i] = 0
          /\ shown' = shown /\ invited' = invited /\ late' = late /\ lossy' = lossy
      BY <1>1, <1>2, <2>2 DEF Begin
    <3> QED
      BY <1>1, <1>2, <3>1, <3>2 DEF Begin
  <2> QED
    BY <2>1, <2>2
<1>3. CASE ChannelCreated(i)
  BY <1>1, <1>3 DEF ChannelCreated, GuildMeant
<1>4. CASE ProbeAnswered(i)
  BY <1>1, <1>4 DEF ProbeAnswered, GuildMeant
<1>5. CASE PanelAnswered(i)
  <2>1. /\ RepliesOK(i)' /\ ShownOK(i)'
    <3>1. /\ replies[i] = 0 /\ pending[i] = "none" /\ shown' = shown /\ shown[i] = {}
          /\ \/ pc'[i] = "reply" /\ pending'[i] = "embed" /\ replies'[i] = 1
             \/ pc'[i] = "thrown" /\ pending'[i] = "none"
             \/ pc'[i] = "over" /\ pending'[i] = "error"
      BY <1>1, <1>5 DEF PanelAnswered
    <3> QED
      BY <3>1
  <2>2. /\ InvitedOK(i)' /\ ToldOK(i)'
    BY <1>1, <1>5 DEF PanelAnswered, GuildMeant
  <2> QED
    BY <2>1, <2>2
<1>6. CASE ReplyAccepted(i)
  <2>1. RepliesOK(i)' /\ ShownOK(i)'
    BY <1>1, <1>6 DEF ReplyAccepted
  <2>2. InvitedOK(i)' /\ ToldOK(i)'
    BY <1>1, <1>6 DEF ReplyAccepted, GuildMeant
  <2> QED
    BY <2>1, <2>2
<1>7. CASE ReplyRefused(i)
  <2>1. RepliesOK(i)' /\ ShownOK(i)'
    BY <1>1, <1>7 DEF ReplyRefused
  <2>2. InvitedOK(i)' /\ ToldOK(i)'
    BY <1>1, <1>7 DEF ReplyRefused, GuildMeant
  <2> QED
    BY <2>1, <2>2
<1>8. CASE ReplyLost(i)
  BY <1>1, <1>8 DEF ReplyLost, GuildMeant
<1>9. CASE Abandon(i)
  BY <1>1, <1>9 DEF Abandon, GuildMeant, Awaiting
<1> QED
  BY <1>2, <1>3, <1>4, <1>5, <1>6, <1>7, <1>8, <1>9 DEF Step

LEMMA InvStep ==
    ASSUME Inv, [Next]_vars
    PROVE  Inv'
<1>1. IsFiniteSet(guilds')
  BY CacheStep
<1>2. ASSUME NEW i \in Interactions, Step(i) PROVE Inv'
  <2>1. TypeOK'
    BY <1>2, StepTypes DEF Inv
  <2>2. ASSUME NEW j \in Interactions
        PROVE  (RepliesOK(j) /\ ShownOK(j) /\ InvitedOK(j) /\ ToldOK(j))'
    BY <1>2, Own, Others DEF Inv
  <2> QED
    BY <1>1, <2>1, <2>2 DEF Inv
<1>3. ASSUME UNCHANGED <<dm, request, guild, pc, pending, replies, network, seen, lossy>>,
             guilds' \subseteq Guilds /\ mutual' \subseteq guilds'
      PROVE  Inv'
  <2>1. TypeOK'
    BY <1>3 DEF Inv, TypeOK, network
  <2>2. ASSUME NEW j \in Interactions
        PROVE  (RepliesOK(j) /\ ShownOK(j) /\ InvitedOK(j) /\ ToldOK(j))'
    BY <1>3 DEF Inv, RepliesOK, ShownOK, InvitedOK, GuildMeant, ToldOK, network
  <2> QED
    BY <1>1, <2>1, <2>2 DEF Inv
<1>4. ASSUME NEW g \in Guilds, GuildCreated(g) \/ GuildDeleted(g) PROVE Inv'
  BY <1>3, <1>4 DEF GuildCreated, GuildDeleted, Inv, TypeOK
<1>5. CASE UNCHANGED vars
  BY <1>3, <1>5 DEF vars, cacheVars, Inv, TypeOK
<1> QED
  BY <1>2, <1>4, <1>5 DEF Next

THEOREM InvHolds == Spec => []Inv
BY InvInit, InvStep, PTL DEF Spec

(* All variables keep their types, and a guild the user shares with the bot *)
(* is one the cache holds.                                                  *)
THEOREM TypeCorrect == Spec => []TypeOK
<1>1. Inv => TypeOK
  BY DEF Inv
<1> QED
  BY <1>1, InvHolds, PTL

(* However the guild cache changes while appeals are under way, and however *)
(* many guilds there are, nobody is invited to a guild that was guessed     *)
(* (appeals.cpp:10-33).                                                     *)
THEOREM NobodyMisled == Spec => []InvitedToTheRightGuild
<1>1. Inv => InvitedToTheRightGuild
  BY DEF Inv, TypeOK, InvitedToTheRightGuild, InvitedOK, GuildMeant
<1> QED
  BY <1>1, InvHolds, PTL

(* Of the replies to an interaction the user sees one at most, although a   *)
(* refused embed is followed by an error (appeals.cpp:139-143).             *)
THEOREM SeenOnce == Spec => []OneReplyShown
<1>1. ASSUME NEW S, NEW what, S \subseteq {what} PROVE Cardinality(S) <= 1
  <2>1. CASE S = {}
    BY <2>1, FS_EmptySet
  <2>2. CASE S = {what}
    BY <2>2, FS_Singleton
  <2> QED
    BY <1>1, <2>1, <2>2
<1>2. Inv => OneReplyShown
  BY <1>1 DEF Inv, OneReplyShown, ShownOK
<1> QED
  BY <1>2, InvHolds, PTL

(* No embed without an invitation the panel has created (appeals.cpp:111-139). *)
THEOREM EmbedsAreTrue == Spec => []ShownMeansInvited
<1>1. Inv => ShownMeansInvited
  BY DEF Inv, ShownMeansInvited, InvitedOK
<1> QED
  BY <1>1, InvHolds, PTL

(* Every way the handler returns has told the user, if nothing was lost or  *)
(* late (appeals.cpp:21, 43, 48, 112-142).                                  *)
THEOREM EverybodyTold == Spec => []ToldUnlessLost
<1>1. Inv => ToldUnlessLost
  BY DEF Inv, ToldUnlessLost, ToldOK
<1> QED
  BY <1>1, InvHolds, PTL
=============================================================================
