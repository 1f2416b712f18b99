----------------------- MODULE ProcessedMessagesProofs -----------------------
(***************************************************************************)
(* Proofs about ProcessedMessages for every set of messages, every finite   *)
(* number of overlapping rounds and every combination of faults.            *)
(***************************************************************************)
EXTENDS ProcessedMessages, FiniteSetTheorems, TLAPS

-----------------------------------------------------------------------------
(* The operations on the cache keep it a cache.                             *)

Entry == [error : BOOLEAN, tries : 0 .. MaxTries - 1]

(* A cache: results of some messages, all younger than MaxTries.            *)
IsCache(c) == DOMAIN c \subseteq Messages /\ c \in [DOMAIN c -> Entry]

(* emplace of a fresh result, the ageing and the removal of reported ids    *)
(* each map a cache to a cache with the expected ids (queued_messages.cpp:  *)
(* 107-143).                                                                *)
LEMMA EmplaceIsCache ==
    ASSUME NEW c, IsCache(c), NEW m \in Messages, NEW e \in Entry
    PROVE  /\ IsCache(Emplace(c, m, e))
           /\ DOMAIN Emplace(c, m, e) = DOMAIN c \cup {m}
  BY DEF IsCache, Emplace

(* Ageing keeps exactly the entries that do not expire, one try older.      *)
LEMMA AgedIsCache ==
    ASSUME NEW c, IsCache(c)
    PROVE  /\ IsCache(Aged(c))
           /\ DOMAIN Aged(c) = DOMAIN c \ Expiring(c)
           /\ \A m \in DOMAIN Aged(c) : /\ Aged(c)[m].tries = c[m].tries + 1
                                        /\ Aged(c)[m].error = c[m].error
  <1>1. DOMAIN Aged(c) = DOMAIN c \ Expiring(c)
    BY DEF Aged
  <1>2. ASSUME NEW m \in DOMAIN Aged(c)
        PROVE  /\ Aged(c)[m] \in Entry
               /\ Aged(c)[m].tries = c[m].tries + 1
               /\ Aged(c)[m].error = c[m].error
    <2>1. c[m] \in Entry /\ m \in DOMAIN c /\ ~ (c[m].tries + 1 >= MaxTries)
      BY <1>1 DEF IsCache, Expiring
    <2>2. Aged(c)[m] = [c[m] EXCEPT !.tries = @ + 1]
      BY <1>1 DEF Aged
    <2> QED
      BY <2>1, <2>2 DEF Entry, MaxTries
  <1>3. Aged(c) \in [DOMAIN Aged(c) -> Entry]
    BY <1>2 DEF Aged
  <1> QED
    BY <1>1, <1>2, <1>3 DEF IsCache

(* Removing ids removes these entries and changes no other.                 *)
LEMMA EraseIsCache ==
    ASSUME NEW c, IsCache(c), NEW ids
    PROVE  /\ IsCache(Erase(c, ids))
           /\ DOMAIN Erase(c, ids) = DOMAIN c \ ids
           /\ \A m \in DOMAIN Erase(c, ids) : Erase(c, ids)[m] = c[m]
  BY DEF IsCache, Erase

-----------------------------------------------------------------------------
(* Type correctness (the declarations of queued_messages.h:26-64 and the    *)
(* bound of 4 tries in queued_messages.cpp:136).                            *)
THEOREM TypeCorrect == Spec => []TypeOK
  <1> USE ConstantsAssumption
  <1>1. Init => TypeOK
    BY DEF Init, TypeOK, Places, Replies
  <1>2. TypeOK /\ [Next]_vars => TypeOK'
    <2> SUFFICES ASSUME TypeOK, [Next]_vars
                 PROVE  TypeOK'
      OBVIOUS
    <2>0. IsCache(cache)
      BY DEF TypeOK, IsCache, Entry
    <2>1. CASE Crash
      <3>1. IsCache(cache') /\ DOMAIN cache' = DOMAIN cache \ Messages
        BY <2>0, <2>1, EraseIsCache DEF Crash
      <3>2. posted' \in [DOMAIN cache' -> Nat]
        BY <2>1, <3>1 DEF Crash, Erase, TypeOK
      <3>3. {msg[r] : r \in {x \in Rounds : pc[x] = "store"}} \subseteq Messages
        BY DEF TypeOK
      <3> QED
        BY <2>1, <3>1, <3>2, <3>3 DEF Crash, TypeOK, IsCache, Entry, Places, Replies
    <2>2. ASSUME NEW r \in Rounds, Acknowledge(r) PROVE TypeOK'
      BY <2>2 DEF Acknowledge, TypeOK, Goto, Places, Suspended, history
    <2>3. ASSUME NEW r \in Rounds, NoMessages(r) PROVE TypeOK'
      BY <2>3 DEF NoMessages, End, TypeOK, Goto, Places, Replies, history
    <2>4. ASSUME NEW r \in Rounds, HandOut(r) PROVE TypeOK'
      BY <2>4 DEF HandOut, TypeOK, Goto, Places, history
    <2>5. ASSUME NEW r \in Rounds, Reject(r) PROVE TypeOK'
      BY <2>5 DEF Reject, TypeOK, history
    <2>6. ASSUME NEW r \in Rounds, Begin(r) PROVE TypeOK'
      BY <2>6 DEF Begin, TypeOK, Goto, Places, Suspended, history
    <2>7. ASSUME NEW r \in Rounds, MemberAnswer(r) PROVE TypeOK'
      BY <2>7 DEF MemberAnswer, PossibleReplies, TypeOK, Goto, Places, Suspended, Replies
    <2>8. ASSUME NEW r \in Rounds, DmAnswer(r) PROVE TypeOK'
      BY <2>8 DEF DmAnswer, PossibleReplies, TypeOK, Goto, Places, Replies
    <2>9. ASSUME NEW r \in Rounds, Store(r) PROVE TypeOK'
      <3>1. msg[r] \in Messages /\ [error |-> IsError(reply[r]), tries |-> 0] \in Entry
        BY <2>9 DEF Store, TypeOK, Entry, MaxTries, IsError
      <3>2. IsCache(cache') /\ DOMAIN cache' = DOMAIN cache \cup {msg[r]}
        BY <2>0, <2>9, <3>1, EmplaceIsCache DEF Store
      <3>3. posted' \in [DOMAIN cache' -> Nat]
        BY <2>9, <3>2 DEF Store, Emplace, TypeOK
      <3> QED
        BY <2>9, <3>2, <3>3 DEF Store, TypeOK, IsCache, Entry, Goto, Places, Replies
    <2>10. ASSUME NEW r \in Rounds, ClearGarbage(r) PROVE TypeOK'
      <3>1. IsCache(cache') /\ DOMAIN cache' = DOMAIN cache \ Expiring(cache)
        BY <2>0, <2>10, AgedIsCache DEF ClearGarbage
      <3>2. posted' \in [DOMAIN cache' -> Nat]
        BY <2>10, <3>1 DEF ClearGarbage, Erase, TypeOK
      <3>3. Expiring(cache) \subseteq Messages
        BY DEF Expiring, TypeOK
      <3> QED
        BY <2>10, <3>1, <3>2, <3>3 DEF ClearGarbage, TypeOK, IsCache, Entry, Goto, Places
    <2>11. ASSUME NEW r \in Rounds, PostReport(r) PROVE TypeOK'
      <3>1. posted' \in [DOMAIN cache' -> Nat]
        BY <2>11 DEF PostReport, Counted, MaxTries, TypeOK
      <3> QED
        BY <2>11, <3>1 DEF PostReport, TypeOK, Goto, Places, Suspended
    <2>12. ASSUME NEW r \in Rounds, PanelAccepts(r) PROVE TypeOK'
      BY <2>12 DEF PanelAccepts, TypeOK, Goto, Places, Suspended, history
    <2>13. ASSUME NEW r \in Rounds, ReportSucceeds(r) PROVE TypeOK'
      <3>1. IsCache(cache') /\ DOMAIN cache' = DOMAIN cache \ report[r]
        BY <2>0, <2>13, EraseIsCache, ZenonT(60) DEF ReportSucceeds
      <3>2. posted' \in [DOMAIN cache' -> Nat]
        BY <2>13, <3>1 DEF ReportSucceeds, Erase, TypeOK
      <3> QED
        BY <2>13, <3>1, <3>2
        DEF ReportSucceeds, End, TypeOK, IsCache, Entry, Goto, Places, Replies
    <2>14. ASSUME NEW r \in Rounds, ReportFails(r) PROVE TypeOK'
      BY <2>14 DEF ReportFails, End, TypeOK, Goto, Places, Replies, history
    <2>15. ASSUME NEW r \in Rounds, Abandon(r) PROVE TypeOK'
      BY <2>15 DEF Abandon, End, TypeOK, Goto, Places, Replies, history
    <2>16. CASE UNCHANGED vars
      BY <2>16 DEF vars, roundVars, history, TypeOK
    <2> QED
      BY <2>1, <2>2, <2>3, <2>4, <2>5, <2>6, <2>7, <2>8, <2>9, <2>10, <2>11,
         <2>12, <2>13, <2>14, <2>15, <2>16 DEF Next, Progress
  <1> QED
    BY <1>1, <1>2, PTL DEF Spec
-----------------------------------------------------------------------------
(* The inductive invariant of the message-level promises.  A report the     *)
(* panel has accepted is part of what it was told, and what a round is      *)
(* about to store has been finished: without the first, the success         *)
(* callback could erase an untold entry; without the second, the cache      *)
(* could hold the result of a sending still under way.                      *)
AcceptedIsTold == \A r \in Rounds : pc[r] = "accepted" => report[r] \subseteq told

StoresFinished == \A r \in Rounds : pc[r] = "store" => msg[r] \in finished

Reported ==
    /\ told \subseteq finished
    /\ DOMAIN cache \subseteq finished
    /\ \A r \in Rounds : report[r] \subseteq finished

(* What the round standing at "store" holds in its hands.                   *)
Carried == {msg[r] : r \in {x \in Rounds : pc[x] = "store"}}

Safe == AcceptedIsTold /\ StoresFinished /\ Reported /\ NothingForgotten

(* Every step of the pipeline preserves it.                                 *)
LEMMA SafeStep == TypeOK /\ Safe /\ [Next]_vars => Safe'
  <1> SUFFICES ASSUME TypeOK, Safe, [Next]_vars
               PROVE  Safe'
    OBVIOUS
  <1> USE DEF Safe, AcceptedIsTold, StoresFinished, Reported
  <1>0. IsCache(cache)
    BY DEF TypeOK, IsCache, Entry
  <1>a. NothingForgotten <=>
          finished \subseteq DOMAIN cache \cup told \cup givenUp \cup lost \cup Carried
    BY DEF NothingForgotten, Carried
  <1>b. NothingForgotten' <=>
          finished' \subseteq DOMAIN cache' \cup told' \cup givenUp' \cup lost' \cup Carried'
    BY DEF NothingForgotten, Carried
  <1>1. CASE Crash
    <2>1. DOMAIN cache' = {}
      BY <1>0, <1>1 DEF Crash, Erase, IsCache
    <2>2. lost' = lost \cup DOMAIN cache \cup Carried /\ finished' = finished
          /\ told' = told /\ givenUp' = givenUp
      BY <1>1 DEF Crash, Carried
    <2>3. /\ \A r \in Rounds : pc'[r] = "idle" /\ report'[r] = {}
      BY <1>1 DEF Crash
    <2> QED
      BY <1>a, <1>b, <2>1, <2>2, <2>3
  <1>2. ASSUME NEW r \in Rounds, Acknowledge(r) PROVE Safe'
    <2>1. Carried' = Carried
      BY <1>2 DEF Acknowledge, Goto, Carried, TypeOK
    <2> QED
      BY <1>2, <1>a, <1>b, <2>1 DEF Acknowledge, Goto, TypeOK, history
  <1>3. ASSUME NEW r \in Rounds, NoMessages(r) PROVE Safe'
    <2>1. Carried' = Carried
      BY <1>3 DEF NoMessages, End, Goto, Carried, TypeOK
    <2> QED
      BY <1>3, <1>a, <1>b, <2>1 DEF NoMessages, End, Goto, TypeOK, history
  <1>4. ASSUME NEW r \in Rounds, HandOut(r) PROVE Safe'
    <2>1. Carried' = Carried
      BY <1>4 DEF HandOut, Goto, Carried, TypeOK
    <2> QED
      BY <1>4, <1>a, <1>b, <2>1 DEF HandOut, Goto, TypeOK, history
  <1>5. ASSUME NEW r \in Rounds, Reject(r) PROVE Safe'
    <2>1. Carried' = Carried
      BY <1>5 DEF Reject, Carried
    <2> QED
      BY <1>5, <1>a, <1>b, <2>1 DEF Reject, history
  <1>6. ASSUME NEW r \in Rounds, Begin(r) PROVE Safe'
    <2>1. Carried' = Carried
      BY <1>6 DEF Begin, Goto, Carried, TypeOK
    <2> QED
      BY <1>6, <1>a, <1>b, <2>1 DEF Begin, Goto, TypeOK, history
  <1>7. ASSUME NEW r \in Rounds, MemberAnswer(r) PROVE Safe'
    <2>1. CASE pc'[r] = "store" /\ finished' = finished \cup {msg[r]}
      <3>1. Carried' = Carried \cup {msg[r]}
        BY <1>7, <2>1 DEF MemberAnswer, Goto, Carried, TypeOK
      <3> QED
        BY <1>7, <1>a, <1>b, <2>1, <3>1 DEF MemberAnswer, Goto, TypeOK
    <2>2. CASE pc'[r] = "dm" /\ finished' = finished
      <3>1. Carried' = Carried
        BY <1>7, <2>2 DEF MemberAnswer, Goto, Carried, TypeOK
      <3> QED
        BY <1>7, <1>a, <1>b, <2>2, <3>1 DEF MemberAnswer, Goto, TypeOK
    <2> QED
      BY <1>7, <2>1, <2>2 DEF MemberAnswer, Goto, TypeOK
  <1>8. ASSUME NEW r \in Rounds, DmAnswer(r) PROVE Safe'
    <2>1. Carried' = Carried \cup {msg[r]}
      BY <1>8 DEF DmAnswer, Goto, Carried, TypeOK
    <2> QED
      BY <1>8, <1>a, <1>b, <2>1 DEF DmAnswer, Goto, TypeOK
  <1>9. ASSUME NEW r \in Rounds, Store(r) PROVE Safe'
    <2>1. DOMAIN cache' = DOMAIN cache \cup {msg[r]}
      BY <1>9 DEF Store, Emplace
    <2>2. Carried \subseteq Carried' \cup {msg[r]}
      BY <1>9 DEF Store, Goto, Carried, TypeOK
    <2> QED
      BY <1>9, <1>a, <1>b, <2>1, <2>2 DEF Store, Goto, TypeOK
  <1>10. ASSUME NEW r \in Rounds, ClearGarbage(r) PROVE Safe'
    <2>1. DOMAIN cache' = DOMAIN cache \ Expiring(cache)
      BY <1>0, <1>10, AgedIsCache DEF ClearGarbage
    <2>2. Carried' = Carried
      BY <1>10 DEF ClearGarbage, Goto, Carried, TypeOK
    <2> QED
      BY <1>10, <1>a, <1>b, <2>1, <2>2 DEF ClearGarbage, Goto, TypeOK
  <1>11. ASSUME NEW r \in Rounds, PostReport(r) PROVE Safe'
    <2>1. Carried' = Carried
      BY <1>11 DEF PostReport, Goto, Carried, TypeOK
    <2> QED
      BY <1>11, <1>a, <1>b, <2>1 DEF PostReport, Goto, TypeOK
  <1>12. ASSUME NEW r \in Rounds, PanelAccepts(r) PROVE Safe'
    <2>1. Carried' = Carried
      BY <1>12 DEF PanelAccepts, Goto, Carried, TypeOK
    <2> QED
      BY <1>12, <1>a, <1>b, <2>1 DEF PanelAccepts, Goto, TypeOK, history
  <1>13. ASSUME NEW r \in Rounds, ReportSucceeds(r) PROVE Safe'
    <2>1. DOMAIN cache' = DOMAIN cache \ report[r]
      BY <1>0, <1>13, EraseIsCache, ZenonT(60) DEF ReportSucceeds
    <2>2. Carried' = Carried
      BY <1>13 DEF ReportSucceeds, End, Goto, Carried, TypeOK
    <2>3. report[r] \subseteq told
      BY <1>13 DEF ReportSucceeds
    <2> QED
      BY <1>13, <1>a, <1>b, <2>1, <2>2, <2>3 DEF ReportSucceeds, End, Goto, TypeOK
  <1>14. ASSUME NEW r \in Rounds, ReportFails(r) PROVE Safe'
    <2>1. Carried' = Carried
      BY <1>14 DEF ReportFails, End, Goto, Carried, TypeOK
    <2> QED
      BY <1>14, <1>a, <1>b, <2>1 DEF ReportFails, End, Goto, TypeOK, history
  <1>15. ASSUME NEW r \in Rounds, Abandon(r) PROVE Safe'
    <2>1. Carried' = Carried
      BY <1>15 DEF Abandon, End, Goto, Carried, TypeOK, Suspended
    <2> QED
      BY <1>15, <1>a, <1>b, <2>1 DEF Abandon, End, Goto, TypeOK, history
  <1>16. CASE UNCHANGED vars
    BY <1>16, <1>a, <1>b DEF vars, roundVars, history, Carried
  <1> QED
    BY <1>1, <1>2, <1>3, <1>4, <1>5, <1>6, <1>7, <1>8, <1>9, <1>10, <1>11,
       <1>12, <1>13, <1>14, <1>15, <1>16 DEF Next, Progress

THEOREM SafeInvariant == Spec => []Safe
  <1>1. Init => Safe
    BY DEF Init, Safe, AcceptedIsTold, StoresFinished, Reported, NothingForgotten
  <1> QED
    BY <1>1, SafeStep, TypeCorrect, PTL DEF Spec

(* No result is silently forgotten (queued_messages.cpp:69, 107-114,        *)
(* 134-142).                                                                *)
THEOREM NothingIsForgotten == Spec => []NothingForgotten
  <1>1. Safe => NothingForgotten
    BY DEF Safe
  <1> QED
    BY <1>1, SafeInvariant, PTL

(* Nothing is reported before its sending was finished                      *)
(* (queued_messages.cpp:65-95).                                             *)
THEOREM OnlyFinishedIsReported == Spec => []ReportedAfterSending
  <1>1. Safe => ReportedAfterSending
    BY DEF Safe, Reported, ReportedAfterSending
  <1> QED
    BY <1>1, SafeInvariant, PTL
-----------------------------------------------------------------------------
(* How old an entry can be.  Every round ages the cache once and reports it *)
(* once afterwards, so an age not covered by a report belongs to a round    *)
(* that stands between the two.                                             *)
LEMMA AgeingFinite ==
    /\ IsFiniteSet(Ageing)
    /\ Cardinality(Ageing) \in Nat
    /\ Cardinality(Ageing) <= Cardinality(Rounds)
    /\ Cardinality(Rounds) \in Nat
  BY ConstantsAssumption, FS_Subset, FS_CardinalityType DEF Ageing

(* Every step keeps TriesAccounted; ageing and reporting are the ones that  *)
(* move a round into and out of Ageing.                                     *)
LEMMA TriesStep == TypeOK /\ TriesAccounted /\ [Next]_vars => TriesAccounted'
  <1> SUFFICES ASSUME TypeOK, TriesAccounted, [Next]_vars
               PROVE  TriesAccounted'
    OBVIOUS
  <1>0. IsCache(cache)
    BY DEF TypeOK, IsCache, Entry
  <1>a. ASSUME Ageing' = Ageing, cache' = cache, posted' = posted
        PROVE  TriesAccounted'
    BY <1>a DEF TriesAccounted
  <1>1. CASE Crash
    <2>1. DOMAIN cache' = {}
      BY <1>0, <1>1 DEF Crash, Erase, IsCache
    <2> QED
      BY <2>1 DEF TriesAccounted
  <1>2. ASSUME NEW r \in Rounds,
               \/ Acknowledge(r) \/ NoMessages(r) \/ HandOut(r) \/ Reject(r)
               \/ Begin(r) \/ DmAnswer(r) \/ PanelAccepts(r)
               \/ ReportFails(r) \/ Abandon(r)
        PROVE  TriesAccounted'
    <2>1. cache' = cache /\ posted' = posted
      BY <1>2 DEF Acknowledge, NoMessages, HandOut, Reject, Begin, DmAnswer,
                  PanelAccepts, ReportFails, Abandon, history
    <2>2. Ageing' = Ageing
      BY <1>2 DEF Acknowledge, NoMessages, HandOut, Reject, Begin, DmAnswer,
                  PanelAccepts, ReportFails, Abandon, End, Goto, Suspended,
                  Ageing, TypeOK
    <2> QED
      BY <1>a, <2>1, <2>2
  <1>3. ASSUME NEW r \in Rounds, MemberAnswer(r) PROVE TriesAccounted'
    <2>1. pc[r] = "member" /\ (Goto(r, "store") \/ Goto(r, "dm"))
          /\ cache' = cache /\ posted' = posted
      BY <1>3 DEF MemberAnswer
    <2>2. Ageing' = Ageing
      BY <2>1 DEF Goto, Ageing, TypeOK
    <2> QED
      BY <1>a, <2>1, <2>2
  <1>4. ASSUME NEW r \in Rounds, Store(r) PROVE TriesAccounted'
    <2>1. Ageing' = Ageing
      BY <1>4 DEF Store, Goto, Ageing, TypeOK
    <2>2. ASSUME NEW m \in DOMAIN cache'
          PROVE  cache'[m].tries <= posted'[m] + Cardinality(Ageing)
      <3>1. CASE m \in DOMAIN cache
        <4>1. cache'[m] = cache[m] /\ posted'[m] = posted[m]
          BY <1>4, <3>1 DEF Store, Emplace, TypeOK
        <4> QED
          BY <3>1, <4>1 DEF TriesAccounted
      <3>2. CASE m \notin DOMAIN cache
        <4>1. cache'[m].tries = 0 /\ posted'[m] = 0
          BY <1>4, <2>2, <3>2 DEF Store, Emplace, TypeOK
        <4> QED
          BY <4>1, AgeingFinite
      <3> QED
        BY <3>1, <3>2
    <2> QED
      BY <2>1, <2>2 DEF TriesAccounted
  <1>5. ASSUME NEW r \in Rounds, ClearGarbage(r) PROVE TriesAccounted'
    <2>1. r \notin Ageing /\ Ageing' = Ageing \cup {r}
      BY <1>5 DEF ClearGarbage, Goto, Ageing, TypeOK
    <2>2. Cardinality(Ageing') = Cardinality(Ageing) + 1
      BY <2>1, AgeingFinite, FS_AddElement
    <2>3. ASSUME NEW m \in DOMAIN cache'
          PROVE  cache'[m].tries <= posted'[m] + Cardinality(Ageing')
      <3>1. m \in DOMAIN cache /\ cache'[m].tries = cache[m].tries + 1
        BY <1>0, <1>5, <2>3, AgedIsCache DEF ClearGarbage
      <3>2. posted'[m] = posted[m]
        BY <1>5, <2>3 DEF ClearGarbage, Erase, Aged, TypeOK
      <3>3. cache[m].tries \in Nat /\ posted[m] \in Nat
        BY <3>1 DEF TypeOK, MaxTries
      <3>4. cache[m].tries <= posted[m] + Cardinality(Ageing)
        BY <3>1 DEF TriesAccounted
      <3> QED
        BY <2>2, <3>1, <3>2, <3>3, <3>4, AgeingFinite
    <2> QED
      BY <2>3 DEF TriesAccounted
  <1>6. ASSUME NEW r \in Rounds, PostReport(r) PROVE TriesAccounted'
    <2>1. r \in Ageing /\ Ageing' = Ageing \ {r}
      BY <1>6 DEF PostReport, Goto, Ageing, TypeOK
    <2>2. Cardinality(Ageing') = Cardinality(Ageing) - 1
      BY <2>1, AgeingFinite, FS_RemoveElement
    <2>3. ASSUME NEW m \in DOMAIN cache'
          PROVE  cache'[m].tries <= posted'[m] + Cardinality(Ageing')
      <3>1. m \in DOMAIN cache /\ cache'[m].tries = cache[m].tries
        BY <1>6, <2>3 DEF PostReport
      <3>2. posted'[m] = Counted(posted[m])
        BY <1>6, <3>1 DEF PostReport, TypeOK
      <3>3. cache[m].tries \in 0 .. 3 /\ posted[m] \in Nat
        BY <3>1 DEF TypeOK, MaxTries
      <3>4. cache[m].tries <= posted[m] + Cardinality(Ageing)
        BY <3>1 DEF TriesAccounted
      <3>5. Cardinality(Ageing) \in Nat /\ Cardinality(Ageing') \in Nat
        BY <2>1, AgeingFinite, FS_RemoveElement, FS_CardinalityType
      <3>6. CASE posted[m] < 4
        BY <2>2, <3>1, <3>2, <3>3, <3>4, <3>5, <3>6 DEF Counted, MaxTries
      <3>7. CASE posted[m] >= 4
        BY <3>1, <3>2, <3>3, <3>5, <3>7 DEF Counted, MaxTries
      <3> QED
        BY <3>3, <3>6, <3>7
    <2> QED
      BY <2>3 DEF TriesAccounted
  <1>7. ASSUME NEW r \in Rounds, ReportSucceeds(r) PROVE TriesAccounted'
    <2>1. Ageing' = Ageing
      BY <1>7 DEF ReportSucceeds, End, Goto, Ageing, TypeOK
    <2>2. ASSUME NEW m \in DOMAIN cache'
          PROVE  m \in DOMAIN cache /\ cache'[m] = cache[m] /\ posted'[m] = posted[m]
      BY <1>0, <1>7, <2>2 DEF ReportSucceeds, Erase, TypeOK
    <2> QED
      BY <2>1, <2>2 DEF TriesAccounted
  <1>8. CASE UNCHANGED vars
    BY <1>8, <1>a DEF vars, roundVars, history, Ageing
  <1> QED
    BY <1>1, <1>2, <1>3, <1>4, <1>5, <1>6, <1>7, <1>8 DEF Next, Progress

(* The age of an entry never runs ahead of its reports by more than the     *)
(* rounds between ageing and report (queued_messages.cpp:75-81).            *)
THEOREM TriesAreAccounted == Spec => []TriesAccounted
  <1>1. Init => TriesAccounted
    BY DEF Init, TriesAccounted
  <1> QED
    BY <1>1, TriesStep, TypeCorrect, PTL DEF Spec

(* An entry is given up only after at least 4 - |Rounds| reports            *)
(* (queued_messages.cpp:136-138).                                           *)
THEOREM GivenUpOnlyAfterReports == Spec => GivenUpAfterReports
  <1>1. ASSUME TypeOK, TriesAccounted, [Next]_vars,
               NEW r \in Rounds, pc[r] = "next", pc'[r] = "snapshot",
               NEW m \in DOMAIN cache \ DOMAIN cache'
        PROVE  posted[m] + Cardinality(Rounds) >= 4
    <2>0. IsCache(cache)
      BY <1>1 DEF TypeOK, IsCache, Entry
    <2>1. \E x \in Rounds : ClearGarbage(x)
      <3>1. CASE Crash
        BY <1>1, <3>1 DEF Crash
      <3>2. CASE UNCHANGED vars
        BY <1>1, <3>2 DEF vars, roundVars
      <3>3. ASSUME NEW x \in Rounds, Acknowledge(x) \/ Progress(x)
            PROVE  ClearGarbage(x)
        BY <1>1, <3>3
        DEF Progress, Acknowledge, NoMessages, HandOut, Reject, Begin, MemberAnswer,
            DmAnswer, Store, PostReport, PanelAccepts, ReportSucceeds, ReportFails,
            Abandon, End, Goto, TypeOK
      <3> QED
        BY <1>1, <3>1, <3>2, <3>3 DEF Next
    <2>2. m \in Expiring(cache)
      BY <1>1, <2>0, <2>1, AgedIsCache DEF ClearGarbage
    <2>3. cache[m].tries + 1 >= 4
      BY <2>2 DEF Expiring, MaxTries
    <2>4. cache[m].tries <= posted[m] + Cardinality(Ageing)
      BY <1>1 DEF TriesAccounted
    <2>5. Cardinality(Ageing) + 1 <= Cardinality(Rounds)
      <3>1. r \notin Ageing /\ Ageing \cup {r} \subseteq Rounds
        BY <1>1 DEF Ageing
      <3>2. Cardinality(Ageing \cup {r}) = Cardinality(Ageing) + 1
        BY <3>1, AgeingFinite, FS_AddElement
      <3> QED
        BY <3>1, <3>2, FS_Subset, ConstantsAssumption
    <2>6. cache[m].tries \in Nat /\ posted[m] \in Nat
      BY <1>1 DEF TypeOK, MaxTries
    <2> QED
      BY <2>3, <2>4, <2>5, <2>6, AgeingFinite
  <1>2. TypeOK /\ TriesAccounted /\ [Next]_vars =>
          [\A r \in Rounds :
              pc[r] = "next" /\ pc'[r] = "snapshot" =>
                  \A m \in DOMAIN cache \ DOMAIN cache' :
                      posted[m] + Cardinality(Rounds) >= 4]_vars
    BY <1>1
  <1> QED
    BY <1>2, TypeCorrect, TriesAreAccounted, PTL DEF Spec, GivenUpAfterReports
-----------------------------------------------------------------------------
(* A cached result is never replaced while it is cached: only Store writes  *)
(* results, through emplace (queued_messages.cpp:125-128).                  *)
THEOREM ResultsStay == Spec => ResultStays
  <1>1. ASSUME TypeOK, [Next]_vars, NEW m \in DOMAIN cache \cap DOMAIN cache'
        PROVE  /\ cache'[m].error = cache[m].error
               /\ cache'[m].tries >= cache[m].tries
    <2>0. IsCache(cache) /\ cache[m].tries \in Nat
      BY <1>1 DEF TypeOK, IsCache, Entry, MaxTries
    <2>1. CASE cache' = cache
      BY <2>0, <2>1
    <2>2. CASE Crash
      BY <1>1, <2>0, <2>2 DEF Crash, Erase, IsCache
    <2>3. ASSUME NEW r \in Rounds, Store(r)
          PROVE  cache'[m] = cache[m]
      BY <1>1, <2>3 DEF Store, Emplace
    <2>4. ASSUME NEW r \in Rounds, ClearGarbage(r)
          PROVE  /\ cache'[m].error = cache[m].error
                 /\ cache'[m].tries = cache[m].tries + 1
      BY <1>1, <2>0, <2>4, AgedIsCache DEF ClearGarbage
    <2>5. ASSUME NEW r \in Rounds, ReportSucceeds(r)
          PROVE  cache'[m] = cache[m]
      BY <1>1, <2>5 DEF ReportSucceeds, Erase
    <2>6. cache' = cache \/ Crash
          \/ \E r \in Rounds : Store(r) \/ ClearGarbage(r) \/ ReportSucceeds(r)
      BY <1>1 DEF Next, Progress, vars, Acknowledge, NoMessages, HandOut, Reject,
         Begin, MemberAnswer, DmAnswer, PostReport, PanelAccepts, ReportFails, Abandon
    <2> QED
      BY <2>0, <2>1, <2>2, <2>3, <2>4, <2>5, <2>6
  <1>2. TypeOK /\ [Next]_vars =>
          [\A m \in DOMAIN cache \cap DOMAIN cache' :
              /\ cache'[m].error = cache[m].error
              /\ cache'[m].tries >= cache[m].tries]_vars
    BY <1>1
  <1> QED
    BY <1>2, TypeCorrect, PTL DEF Spec, ResultStays

-----------------------------------------------------------------------------
(* Implementation of ResultReporting.  Held is what the abstract            *)
(* specification calls held: the cache and the results about to be stored.  *)
Held == DOMAIN cache \cup Carried

(* A step of a round that changes no result the bot holds is a stutter.     *)
LEMMA SilentStep ==
    ASSUME UNCHANGED <<finished, told, givenUp, lost>>, Held' = Held
    PROVE  UNCHANGED Reporting!vars
  BY DEF Reporting!vars, Held, Carried

(* Every step of the pipeline is a step of ResultReporting or a stutter.    *)
LEMMA RefinementStep ==
    TypeOK /\ Safe /\ [Next]_vars => [Reporting!Next]_(Reporting!vars)
  <1> SUFFICES ASSUME TypeOK, Safe, [Next]_vars
               PROVE  [Reporting!Next]_(Reporting!vars)
    OBVIOUS
  <1>0. IsCache(cache)
    BY DEF TypeOK, IsCache, Entry
  <1>1. CASE Crash
    <2>1. DOMAIN cache' = {} /\ Carried' = {} /\ lost' = lost \cup Held
      BY <1>0, <1>1 DEF Crash, Erase, IsCache, Carried, Held
    <2>2. Reporting!Lose
      BY <1>1, <2>1 DEF Reporting!Lose, Crash, Held, Carried
    <2> QED
      BY <2>2 DEF Reporting!Next
  <1>2. ASSUME NEW r \in Rounds,
               \/ Acknowledge(r) \/ NoMessages(r) \/ HandOut(r) \/ Reject(r)
               \/ Begin(r) \/ PostReport(r) \/ ReportFails(r) \/ Abandon(r)
        PROVE  UNCHANGED Reporting!vars
    <2>1. UNCHANGED <<cache, finished, told, givenUp, lost>>
      BY <1>2 DEF Acknowledge, NoMessages, HandOut, Reject, Begin, PostReport,
                  ReportFails, Abandon, history
    <2>2. Carried' = Carried
      BY <1>2 DEF Acknowledge, NoMessages, HandOut, Reject, Begin, PostReport,
                  ReportFails, Abandon, End, Goto, Suspended, Carried, TypeOK
    <2> QED
      BY <2>1, <2>2, SilentStep DEF Held
  <1>3. ASSUME NEW r \in Rounds, Carried' = Carried \cup {msg[r]},
               finished' = finished \cup {msg[r]}, msg[r] \in Messages,
               UNCHANGED <<cache, told, givenUp, lost>>
        PROVE  Reporting!Next
    <2>1. PICK m \in Messages : m = msg[r]
      BY <1>3
    <2>2. Reporting!Obtain(m)
      BY <1>3, <2>1 DEF Reporting!Obtain, Carried
    <2> QED
      BY <2>2 DEF Reporting!Next
  <1>4. ASSUME NEW r \in Rounds, MemberAnswer(r)
        PROVE  Reporting!Next \/ UNCHANGED Reporting!vars
    <2>0. UNCHANGED <<cache, told, givenUp, lost>> /\ msg[r] \in Messages
      BY <1>4 DEF MemberAnswer, TypeOK
    <2>1. CASE pc'[r] = "store" /\ finished' = finished \cup {msg[r]}
      <3>1. Carried' = Carried \cup {msg[r]}
        BY <1>4, <2>1 DEF MemberAnswer, Goto, Carried, TypeOK
      <3> QED
        BY <1>3, <2>0, <2>1, <3>1
    <2>2. CASE pc'[r] = "dm" /\ finished' = finished
      <3>1. Carried' = Carried
        BY <1>4, <2>2 DEF MemberAnswer, Goto, Carried, TypeOK
      <3> QED
        BY <2>0, <2>2, <3>1, SilentStep DEF Held
    <2> QED
      BY <1>4, <2>1, <2>2 DEF MemberAnswer, Goto, TypeOK
  <1>5. ASSUME NEW r \in Rounds, DmAnswer(r) PROVE Reporting!Next
    <2>1. Carried' = Carried \cup {msg[r]}
      BY <1>5 DEF DmAnswer, Goto, Carried, TypeOK
    <2> QED
      BY <1>3, <1>5, <2>1 DEF DmAnswer, TypeOK
  <1>6. ASSUME NEW r \in Rounds, Store(r) PROVE UNCHANGED Reporting!vars
    <2>1. DOMAIN cache' = DOMAIN cache \cup {msg[r]}
      BY <1>6 DEF Store, Emplace
    <2>2. Carried = Carried' \cup {msg[r]}
      BY <1>6 DEF Store, Goto, Carried, TypeOK
    <2> QED
      BY <1>6, <2>1, <2>2, SilentStep DEF Store, Held
  <1>7. ASSUME NEW r \in Rounds, ClearGarbage(r) PROVE Reporting!Next
    <2>1. DOMAIN cache' = DOMAIN cache \ Expiring(cache) /\ Expiring(cache) \subseteq DOMAIN cache
      BY <1>0, <1>7, AgedIsCache DEF ClearGarbage, Expiring
    <2>2. Carried' = Carried
      BY <1>7 DEF ClearGarbage, Goto, Carried, TypeOK
    <2>3. PICK S \in SUBSET Held : S = Expiring(cache)
      BY <2>1 DEF Held
    <2>4. PICK kept \in SUBSET S : kept = S \cap Carried
      OBVIOUS
    <2>5. Held' = (Held \ S) \cup kept
      BY <2>1, <2>2, <2>3, <2>4 DEF Held
    <2>6. Reporting!GiveUp(S, kept)
      BY <1>7, <2>3, <2>5 DEF ClearGarbage, Reporting!GiveUp, Held, Carried
    <2> QED
      BY <2>6 DEF Reporting!Next, Held, Carried
  <1>8. ASSUME NEW r \in Rounds, PanelAccepts(r) PROVE Reporting!Next
    <2>1. Carried' = Carried
      BY <1>8 DEF PanelAccepts, Goto, Carried, TypeOK
    <2>2. Reporting!Accept(report[r])
      BY <1>8, <2>1 DEF PanelAccepts, Reporting!Accept, history, Carried
    <2>3. report[r] \in SUBSET finished
      BY DEF Safe, Reported
    <2> QED
      BY <2>2, <2>3 DEF Reporting!Next
  <1>9. ASSUME NEW r \in Rounds, ReportSucceeds(r) PROVE Reporting!Next
    <2>1. DOMAIN cache' = DOMAIN cache \ report[r] /\ report[r] \subseteq told
      BY <1>0, <1>9, EraseIsCache, ZenonT(60) DEF ReportSucceeds, Safe, AcceptedIsTold
    <2>2. Carried' = Carried
      BY <1>9 DEF ReportSucceeds, End, Goto, Carried, TypeOK
    <2>3. PICK S \in SUBSET Held : S = (DOMAIN cache \cap report[r]) \ Carried
      BY DEF Held
    <2>4. Held' = Held \ S /\ S \subseteq told
      BY <2>1, <2>2, <2>3 DEF Held
    <2>5. Reporting!Release(S)
      BY <1>9, <2>4 DEF ReportSucceeds, Reporting!Release, Held, Carried
    <2> QED
      BY <2>5 DEF Reporting!Next, Held, Carried
  <1>10. CASE UNCHANGED vars
    BY <1>10, SilentStep DEF vars, roundVars, history, Held, Carried
  <1> QED
    BY <1>1, <1>2, <1>4, <1>5, <1>6, <1>7, <1>8, <1>9, <1>10 DEF Next, Progress

(* The pipeline implements the abstract promise to the panel                *)
(* (queued_messages.cpp:54-143).                                            *)
THEOREM PipelineImplementsReporting == Spec => ImplementsReporting
  <1>1. Init => Reporting!Init
    BY DEF Init, Reporting!Init
  <1> QED
    BY <1>1, RefinementStep, TypeCorrect, SafeInvariant, PTL
    DEF Spec, ImplementsReporting, Reporting!Spec

-----------------------------------------------------------------------------
(* At most once.  While nothing goes wrong one round is under way at a time *)
(* and reports all that it has sent: a round that begins finds the cache    *)
(* empty and everything that was ever sent told to the panel, which hands   *)
(* out only what it was not told.                                           *)
OneAtATime == \A r, x \in Rounds : pc[r] # "idle" /\ pc[x] # "idle" => r = x

Delivered(m) == m \in told \cup DOMAIN cache
                \/ \E r \in Rounds : pc[r] \in {"dm", "store"} /\ msg[r] = m

Busy(r) == pc[r] \in {"next", "member", "dm", "store"}

FreshBatch(r) ==
    /\ Busy(r) => /\ \A m \in DOMAIN cache : cache[m].tries = 0
                  /\ \A m \in todo[r] : sends[m] = 0
    /\ pc[r] \in {"member", "dm", "store"} => msg[r] \notin todo[r]
    /\ pc[r] = "member" => sends[msg[r]] = 0

ReportsAll(r) ==
    /\ pc[r] \in {"reporting", "accepted"} => DOMAIN cache \subseteq report[r]
    /\ pc[r] = "accepted" => report[r] \subseteq told

Clean ==
    /\ OneAtATime
    /\ \A m \in Messages : sends[m] <= 1
    /\ \A m \in Messages : sends[m] # 0 => Delivered(m)
    /\ DOMAIN cache # {} => \E r \in Rounds : pc[r] \notin {"idle", "acknowledging"}
    /\ \A r \in Rounds : FreshBatch(r) /\ ReportsAll(r)

Orderly == trouble = "none" => Clean

LEMMA OrderlyStep == TypeOK /\ Orderly /\ [Next]_vars => Orderly'
  <1> SUFFICES ASSUME TypeOK, Orderly, [Next]_vars, trouble' = "none"
               PROVE  Clean'
    BY DEF Orderly
  <1> USE DEF Clean, OneAtATime, FreshBatch, ReportsAll, Delivered, Busy
  <1>0. /\ pc \in [Rounds -> Places] /\ todo \in [Rounds -> SUBSET Messages]
        /\ msg \in [Rounds -> Messages \cup {"none"}] /\ sends \in [Messages -> Nat]
        /\ report \in [Rounds -> SUBSET Messages]
        /\ IsCache(cache)
        /\ \A r \in Rounds : pc[r] \in {"member", "dm", "store"} => msg[r] \in Messages
    BY DEF TypeOK, IsCache, Entry
  <1>1. CASE Crash
    BY <1>1 DEF Crash
  <1>2. ASSUME NEW r \in Rounds, Acknowledge(r) PROVE Clean'
    <2>1. trouble = "none" /\ Clean /\ \A x \in Rounds : pc[x] = "idle"
      BY <1>2 DEF Acknowledge, Orderly
    <2>2. pc' = [pc EXCEPT ![r] = "acknowledging"]
          /\ UNCHANGED <<cache, todo, msg, report, told, sends>>
      BY <1>2 DEF Acknowledge, Goto
    <2>3. DOMAIN cache = {}
      BY <2>1
    <2> QED
      BY <1>0, <2>1, <2>2, <2>3
  <1>3. ASSUME NEW r \in Rounds, pc[r] # "idle",
               NEW place, pc' = [pc EXCEPT ![r] = place], trouble = "none"
        PROVE  /\ OneAtATime'
               /\ \A x \in Rounds : x # r => pc[x] = "idle" /\ pc'[x] = "idle"
               /\ pc'[r] = place
    <2>1. Clean
      BY <1>3 DEF Orderly
    <2>2. pc'[r] = place /\ \A x \in Rounds : x # r => pc'[x] = pc[x]
      BY <1>0, <1>3
    <2>3. \A x \in Rounds : x # r => pc[x] = "idle"
      BY <1>3, <2>1
    <2> QED
      BY <2>2, <2>3
  <1>4. ASSUME NEW r \in Rounds, NoMessages(r) PROVE Clean'
    <2>1. /\ trouble = "none" /\ pc[r] = "acknowledging" /\ pc' = [pc EXCEPT ![r] = "idle"]
          /\ UNCHANGED <<cache, told, sends>>
      BY <1>4 DEF NoMessages, End, Goto, history
    <2>2. /\ Clean /\ OneAtATime' /\ pc'[r] = "idle"
          /\ \A x \in Rounds : x # r => pc[x] = "idle" /\ pc'[x] = "idle"
      BY <1>3, <2>1 DEF Orderly
    <2>3. DOMAIN cache = {}
      BY <2>1, <2>2
    <2> QED
      BY <2>1, <2>2, <2>3
  <1>5. ASSUME NEW r \in Rounds, HandOut(r) PROVE Clean'
    <2>1. /\ trouble = "none" /\ pc[r] = "acknowledging" /\ pc' = [pc EXCEPT ![r] = "next"]
          /\ UNCHANGED <<cache, msg, report, told, sends>>
      BY <1>5 DEF HandOut, Goto, history
    <2>2. PICK batch \in SUBSET {m \in Messages \ told : sends[m] < MaxSends} :
              todo' = [todo EXCEPT ![r] = batch]
      BY <1>5 DEF HandOut
    <2>3. /\ Clean /\ OneAtATime' /\ pc'[r] = "next"
          /\ \A x \in Rounds : x # r => pc[x] = "idle" /\ pc'[x] = "idle"
      BY <1>3, <2>1 DEF Orderly
    <2>4. DOMAIN cache = {}
      BY <2>1, <2>3
    <2>5. \A m \in batch : m \in Messages /\ m \notin told
      BY <2>2
    <2>6. \A m \in batch : sends[m] = 0
      BY <2>1, <2>3, <2>4, <2>5
    <2>7. todo'[r] = batch
      BY <1>0, <2>2
    <2> QED
      BY <2>1, <2>3, <2>4, <2>6, <2>7
  <1>6. ASSUME NEW r \in Rounds, Reject(r) PROVE Clean'
    <2>1. trouble = "none" /\ pc[r] = "next" /\ UNCHANGED <<cache, pc, msg, report, told, sends>>
      BY <1>6 DEF Reject, history
    <2>2. Clean /\ \A x \in Rounds : todo'[x] \subseteq todo[x]
      BY <1>0, <1>6, <2>1 DEF Orderly, Reject
    <2> QED
      BY <2>1, <2>2
  <1>7. ASSUME NEW r \in Rounds, Begin(r) PROVE Clean'
    <2>1. /\ trouble = "none" /\ pc[r] = "next" /\ pc' = [pc EXCEPT ![r] = "member"]
          /\ UNCHANGED <<cache, report, told, sends>>
      BY <1>7 DEF Begin, Goto, history
    <2>2. /\ Clean /\ OneAtATime' /\ pc'[r] = "member"
          /\ \A x \in Rounds : x # r => pc[x] = "idle" /\ pc'[x] = "idle"
      BY <1>3, <2>1 DEF Orderly
    <2>3. PICK m \in todo[r] : msg' = [msg EXCEPT ![r] = m] /\ todo' = [todo EXCEPT ![r] = @ \ {m}]
      BY <1>7 DEF Begin
    <2>4. msg'[r] = m /\ todo'[r] = todo[r] \ {m} /\ m \in Messages
      BY <1>0, <2>3
    <2>5. sends[m] = 0 /\ \A n \in todo'[r] : sends[n] = 0
      BY <2>1, <2>2, <2>4
    <2>6. \A n \in Messages : sends[n] # 0 => n \in told \cup DOMAIN cache
      BY <2>1, <2>2
    <2> QED
      BY <2>1, <2>2, <2>4, <2>5, <2>6
  <1>8. ASSUME NEW r \in Rounds, MemberAnswer(r) PROVE Clean'
    <2>1. /\ trouble = "none" /\ pc[r] = "member" /\ UNCHANGED <<cache, todo, msg, report, told>>
          /\ \/ pc' = [pc EXCEPT ![r] = "store"] /\ sends' = sends
             \/ pc' = [pc EXCEPT ![r] = "dm"] /\ sends' = [sends EXCEPT ![msg[r]] = @ + 1]
      BY <1>8 DEF MemberAnswer, Goto
    <2>2. /\ Clean /\ OneAtATime' /\ pc'[r] \in {"store", "dm"}
          /\ \A x \in Rounds : x # r => pc[x] = "idle" /\ pc'[x] = "idle"
      BY <1>3, <2>1 DEF Orderly
    <2>3. /\ msg[r] \in Messages /\ msg[r] \notin todo[r] /\ sends[msg[r]] = 0
          /\ \A n \in todo[r] : n \in Messages /\ sends[n] = 0
      BY <1>0, <2>1, <2>2
    <2>4. \A n \in Messages : sends'[n] = sends[n] \/ (n = msg[r] /\ sends'[n] = 1 /\ pc'[r] = "dm")
      BY <1>0, <2>1, <2>2, <2>3
    <2>5. \A n \in Messages : sends'[n] <= 1
      BY <2>2, <2>4
    <2>6. \A n \in Messages : sends'[n] # 0 =>
             n \in told' \cup DOMAIN cache' \/ (pc'[r] \in {"dm", "store"} /\ msg'[r] = n)
      BY <2>1, <2>2, <2>4
    <2>7. \A n \in todo'[r] : sends'[n] = 0
      BY <2>1, <2>3, <2>4
    <2> QED
      BY <2>1, <2>2, <2>3, <2>5, <2>6, <2>7
  <1>9. ASSUME NEW r \in Rounds, DmAnswer(r) PROVE Clean'
    <2>1. /\ trouble = "none" /\ pc[r] = "dm" /\ pc' = [pc EXCEPT ![r] = "store"]
          /\ UNCHANGED <<cache, todo, msg, report, told, sends>>
      BY <1>9 DEF DmAnswer, Goto
    <2>2. /\ Clean /\ OneAtATime' /\ pc'[r] = "store"
          /\ \A x \in Rounds : x # r => pc[x] = "idle" /\ pc'[x] = "idle"
      BY <1>3, <2>1 DEF Orderly
    <2> QED
      BY <2>1, <2>2
  <1>10. ASSUME NEW r \in Rounds, Store(r) PROVE Clean'
    <2>1. /\ trouble = "none" /\ pc[r] = "store" /\ pc' = [pc EXCEPT ![r] = "next"]
          /\ UNCHANGED <<todo, report, told, sends>>
      BY <1>10 DEF Store, Goto
    <2>2. /\ Clean /\ OneAtATime' /\ pc'[r] = "next"
          /\ \A x \in Rounds : x # r => pc[x] = "idle" /\ pc'[x] = "idle"
      <3>1. Clean
        BY <2>1, Zenon DEF Orderly
      <3>2. pc[r] # "idle"
        BY <2>1
      <3> HIDE DEF Clean, OneAtATime
      <3> QED
        BY <1>3, <2>1, <3>1, <3>2
    <2>3. /\ DOMAIN cache' = DOMAIN cache \cup {msg[r]}
          /\ \A m \in DOMAIN cache' : cache'[m].tries = 0
      <3>1. cache' = Emplace(cache, msg[r], [error |-> IsError(reply[r]), tries |-> 0])
        BY <1>10 DEF Store
      <3>2. PICK e : e.tries = 0 /\ cache' = Emplace(cache, msg[r], e)
        BY <3>1
      <3> QED
        BY <2>1, <2>2, <3>2 DEF Emplace
    <2>4. \A n \in Messages : sends[n] # 0 => n \in told \cup DOMAIN cache'
      BY <2>1, <2>2, <2>3
    <2> QED
      BY <2>1, <2>2, <2>3, <2>4
  <1>11. ASSUME NEW r \in Rounds, ClearGarbage(r) PROVE Clean'
    <2>1. /\ trouble = "none" /\ pc[r] = "next" /\ pc' = [pc EXCEPT ![r] = "snapshot"]
          /\ UNCHANGED <<todo, report, told, sends, msg>> /\ cache' = Aged(cache)
      BY <1>11 DEF ClearGarbage, Goto
    <2>2. /\ Clean /\ OneAtATime' /\ pc'[r] = "snapshot"
          /\ \A x \in Rounds : x # r => pc[x] = "idle" /\ pc'[x] = "idle"
      BY <1>3, <2>1 DEF Orderly
    <2>3. Expiring(cache) = {}
      BY <2>1, <2>2 DEF Expiring, MaxTries
    <2>4. DOMAIN cache' = DOMAIN cache
      BY <1>0, <2>1, <2>3, AgedIsCache
    <2> QED
      BY <2>1, <2>2, <2>4
  <1>12. ASSUME NEW r \in Rounds, PostReport(r) PROVE Clean'
    <2>1. /\ trouble = "none" /\ pc[r] = "snapshot" /\ pc' = [pc EXCEPT ![r] = "reporting"]
          /\ UNCHANGED <<cache, todo, told, sends, msg>> /\ report'[r] = DOMAIN cache
      BY <1>0, <1>12 DEF PostReport, Goto
    <2>2. /\ Clean /\ OneAtATime' /\ pc'[r] = "reporting"
          /\ \A x \in Rounds : x # r => pc[x] = "idle" /\ pc'[x] = "idle"
      BY <1>3, <2>1 DEF Orderly
    <2> QED
      BY <2>1, <2>2
  <1>13. ASSUME NEW r \in Rounds, PanelAccepts(r) PROVE Clean'
    <2>1. /\ trouble = "none" /\ pc[r] = "reporting" /\ pc' = [pc EXCEPT ![r] = "accepted"]
          /\ UNCHANGED <<cache, todo, sends, msg, report>> /\ told' = told \cup report[r]
      BY <1>13 DEF PanelAccepts, Goto, history
    <2>2. /\ Clean /\ OneAtATime' /\ pc'[r] = "accepted"
          /\ \A x \in Rounds : x # r => pc[x] = "idle" /\ pc'[x] = "idle"
      BY <1>3, <2>1 DEF Orderly
    <2> QED
      BY <2>1, <2>2
  <1>14. ASSUME NEW r \in Rounds, ReportSucceeds(r) PROVE Clean'
    <2>1. /\ trouble = "none" /\ pc[r] = "accepted" /\ pc' = [pc EXCEPT ![r] = "idle"]
          /\ UNCHANGED <<told, sends>> /\ cache' = Erase(cache, report[r])
      BY <1>14 DEF ReportSucceeds, End, Goto
    <2>2. /\ Clean /\ OneAtATime' /\ pc'[r] = "idle"
          /\ \A x \in Rounds : x # r => pc[x] = "idle" /\ pc'[x] = "idle"
      BY <1>3, <2>1 DEF Orderly
    <2>3. DOMAIN cache \subseteq told /\ DOMAIN cache' = {}
      BY <2>1, <2>2 DEF Erase
    <2> QED
      BY <2>1, <2>2, <2>3
  <1>15. ASSUME NEW r \in Rounds, ReportFails(r) \/ Abandon(r) PROVE Clean'
    BY <1>15 DEF ReportFails, Abandon
  <1>16. CASE UNCHANGED vars
    BY <1>16 DEF vars, roundVars, history, Orderly
  <1> QED
    BY <1>1, <1>2, <1>4, <1>5, <1>6, <1>7, <1>8, <1>9, <1>10, <1>11, <1>12, <1>13, <1>14,
       <1>15, <1>16 DEF Next, Progress

(* SentAtMostOnce: as long as no round overtakes another, every answer      *)
(* comes, every report is taken and the process lives, no member gets a     *)
(* message twice (queued_messages.cpp:54-114).                              *)
THEOREM NothingSentTwice == Spec => []SentAtMostOnce
  <1>1. Init => Orderly
    BY DEF Init, Orderly, Clean, OneAtATime, FreshBatch, ReportsAll, Delivered, Busy
  <1>2. Orderly => SentAtMostOnce
    BY DEF Orderly, Clean, SentAtMostOnce
  <1> QED
    BY <1>1, <1>2, OrderlyStep, TypeCorrect, PTL DEF Spec
=============================================================================
