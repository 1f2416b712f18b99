--------------------------- MODULE ResultReporting ---------------------------
(***************************************************************************)
(* What the queued-message pipeline promises the panel, without rounds,     *)
(* requests or ages: the result of every sending the bot has finished is    *)
(* held until the panel has accepted a result for that message, or until    *)
(* the bot gives it up, or until it dies with the process.  Only messages   *)
(* whose sending was finished are ever reported.                            *)
(***************************************************************************)
EXTENDS Naturals

CONSTANT Messages

VARIABLES
    obtained,   \* messages whose sending has been finished, by any attempt
    held,       \* messages the bot holds a result for
    accepted,   \* messages the panel has accepted a result for
    givenUp,    \* messages given up at least once
    lost        \* messages whose result was lost with the process

vars == <<obtained, held, accepted, givenUp, lost>>

Init ==
    /\ obtained = {}
    /\ held     = {}
    /\ accepted = {}
    /\ givenUp  = {}
    /\ lost     = {}

(* A sending is finished, successfully or not.                              *)
Obtain(m) ==
    /\ obtained' = obtained \cup {m}
    /\ held' = held \cup {m}
    /\ UNCHANGED <<accepted, givenUp, lost>>

(* The panel accepts results for some messages.                             *)
Accept(S) ==
    /\ accepted' = accepted \cup S
    /\ UNCHANGED <<obtained, held, givenUp, lost>>

(* The bot lets go of results the panel has accepted.                       *)
Release(S) ==
    /\ S \subseteq accepted
    /\ held' = held \ S
    /\ UNCHANGED <<obtained, accepted, givenUp, lost>>

(* The bot gives results up; a newer result of the same message, obtained   *)
(* meanwhile, may stay.                                                     *)
GiveUp(S, kept) ==
    /\ held'    = (held \ S) \cup kept
    /\ givenUp' = givenUp \cup S
    /\ UNCHANGED <<obtained, accepted, lost>>

(* The process dies with all it holds.                                      *)
Lose ==
    /\ lost' = lost \cup held
    /\ held' = {}
    /\ UNCHANGED <<obtained, accepted, givenUp>>

Next ==
    \/ \E m \in Messages : Obtain(m)
    \/ \E S \in SUBSET obtained : Accept(S)
    \/ \E S \in SUBSET held : Release(S)
    \/ \E S \in SUBSET held : \E kept \in SUBSET S : GiveUp(S, kept)
    \/ Lose

Spec == Init /\ [][Next]_vars
=============================================================================
