------------------------------ MODULE MCAppeal ------------------------------
(* A small instance of Appeal for TLC: two appeals of a user and two guilds.*)
EXTENDS Appeal

CONSTANTS i1, i2, g1, g2

(* One request for each combination of searching for the guild and probing  *)
(* the channel.                                                             *)
MCSent == {[context |-> "guild",   guild |-> g1],
           [context |-> "absent",  guild |-> g1],
           [context |-> "private", guild |-> NoGuild],
           [context |-> "bot_dm",  guild |-> NoGuild]}
=============================================================================
