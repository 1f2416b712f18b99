--------------------------- MODULE LifecycleProofs ---------------------------
(***************************************************************************)
(* Proofs about Lifecycle for every finite set of shards, with and without  *)
(* a valid or central token, and with and without a signal.                 *)
(***************************************************************************)
EXTENDS Lifecycle, TLAPS

-----------------------------------------------------------------------------
(* Steps common to several actions.                                         *)

(* Posting a shutdown acknowledgement moves at most its own state, and only *)
(* from "none" (acknowledge_payload.cpp:110-133).                           *)
LEMMA PostFarewellStep ==
    ASSUME StateOK, NEW g \in Signals, PostFarewell(g)
    PROVE  /\ farewell' \in [Signals -> {"none", "posted", "answered", "shut", "over"}]
           /\ \A x \in Signals \ {g} : farewell'[x] = farewell[x]
  BY DEF PostFarewell, StateOK

(* A refused acknowledgement leads to the shutdown acknowledgement of 24    *)
(* and of nothing else, and only for a bot with a refused, not central      *)
(* token (acknowledge_payload.cpp:45-49).                                   *)
LEMMA RefusedStep ==
    ASSUME StateOK, NEW answer \in Answers, Refused(answer)
    PROVE  /\ farewell' \in [Signals -> {"none", "posted", "answered", "shut", "over"}]
           /\ farewell'["SIGTERM"] = farewell["SIGTERM"]
           /\ farewell'["signal 24"] # farewell["signal 24"] =>
                  /\ ~ TokenValid /\ ~ IsCentral
                  /\ farewell'["signal 24"] # "none"
  <1>1. CASE answer = 401 /\ ~ IsCentral
    <2>1. PostFarewell("signal 24")
      BY <1>1, Zenon DEF Refused
    <2>2. ~ TokenValid
      BY <1>1, LifecycleAssumption DEF Answers
    <2>3. farewell'["signal 24"] # "none"
      BY <2>1 DEF PostFarewell, StateOK, Signals
    <2> QED
      BY <1>1, <2>1, <2>2, <2>3, PostFarewellStep DEF Signals
  <1>2. CASE ~ (answer = 401 /\ ~ IsCentral)
    BY <1>2 DEF Refused, StateOK
  <1> QED
    BY <1>1, <1>2

(* next_timer stays a queue of the known timers when one is armed or taken  *)
(* (timer.cpp:30-43, 71-72).                                                *)
LEMMA TimersStep ==
    ASSUME StateOK, NEW t \in TimerIds, NEW delay \in 0 .. AckPeriod
    PROVE  /\ Arm(t, delay) => /\ DOMAIN timers' = DOMAIN timers \cup {t}
                               /\ timers' \in [DOMAIN timers' -> 0 .. AckPeriod]
           /\ Disarm(t) => /\ DOMAIN timers' = DOMAIN timers \ {t}
                           /\ timers' \in [DOMAIN timers' -> 0 .. AckPeriod]
  BY DEF StateOK, Arm, Disarm, AckPeriod

-----------------------------------------------------------------------------
(* Every step keeps the types of the threads' places, the timers and the    *)
(* requests.                                                                *)
LEMMA StateStep ==
    ASSUME StateOK, [Next]_vars
    PROVE  StateOK'
  <1> USE DEF startVars, timerVars, loopVars, sigVars, endVars, history
  <1>1. ASSUME NEW s \in Shards, ReadFlag(s) PROVE StateOK'
    <2>1. start' \in [Shards -> {"off", "read", "skipped", "fetch", "ack", "arm",
                                 "assign", "up"}]
      BY <1>1 DEF ReadFlag, StateOK
    <2>2. UNCHANGED <<timers, stopped, ackTimer, main, firing, handler, host, held, acks,
                      farewell, code, status, lateTicks>>
      BY <1>1 DEF ReadFlag
    <2> QED
      BY <2>1, <2>2, ZenonT(60) DEF StateOK
  <1>2. ASSUME NEW s \in Shards, WriteFlag(s) PROVE StateOK'
    <2>1. start' \in [Shards -> {"off", "read", "skipped", "fetch", "ack", "arm",
                                 "assign", "up"}]
      BY <1>2 DEF WriteFlag, StateOK
    <2>2. UNCHANGED <<timers, stopped, ackTimer, main, firing, handler, host, held, acks,
                      farewell, code, status, lateTicks>>
      BY <1>2 DEF WriteFlag
    <2> QED
      BY <2>1, <2>2, ZenonT(60) DEF StateOK
  <1>3. ASSUME NEW s \in Shards, FetchAnswered(s) PROVE StateOK'
    <2>1. start' \in [Shards -> {"off", "read", "skipped", "fetch", "ack", "arm",
                                 "assign", "up"}]
      BY <1>3 DEF FetchAnswered, StateOK
    <2>2. UNCHANGED <<timers, stopped, ackTimer, main, firing, handler, host, held, acks,
                      farewell, code, status, lateTicks>>
      BY <1>3 DEF FetchAnswered
    <2> QED
      BY <2>1, <2>2, ZenonT(60) DEF StateOK
  <1>4. ASSUME NEW s \in Shards, StartupAnswered(s) PROVE StateOK'
    <2>1. farewell' \in [Signals -> {"none", "posted", "answered", "shut", "over"}]
      BY <1>4, RefusedStep DEF StartupAnswered
    <2> QED
      BY <1>4, <2>1, ZenonT(60) DEF StartupAnswered, StateOK
  <1>5. ASSUME NEW s \in Shards, ArmAckTimer(s) PROVE StateOK'
    <2>1. Arm(s, AckPeriod) /\ AckPeriod \in 0 .. AckPeriod /\ s \in TimerIds
      BY <1>5 DEF ArmAckTimer, AckPeriod, TimerIds
    <2>2. /\ DOMAIN timers' \subseteq TimerIds
          /\ timers' \in [DOMAIN timers' -> 0 .. AckPeriod]
      BY <2>1, TimersStep DEF StateOK
    <2>3. start' \in [Shards -> {"off", "read", "skipped", "fetch", "ack", "arm",
                                 "assign", "up"}]
      BY <1>5 DEF ArmAckTimer, StateOK
    <2>4. UNCHANGED <<stopped, ackTimer, main, firing, handler, host, held, acks, farewell,
                      code, status, lateTicks>>
      BY <1>5 DEF ArmAckTimer
    <2> QED
      BY <2>2, <2>3, <2>4, ZenonT(60) DEF StateOK
  <1>6. ASSUME NEW s \in Shards, AssignAckTimer(s) PROVE StateOK'
    BY <1>6, ZenonT(60) DEF AssignAckTimer, StateOK
  <1>7. CASE TimePasses
    <2>1. timers' = [t \in DOMAIN timers |-> IF timers[t] > 0 THEN timers[t] - 1 ELSE 0]
      BY <1>7 DEF TimePasses
    <2>2. timers \in [DOMAIN timers -> 0 .. AckPeriod]
      BY DEF StateOK
    <2>3. DOMAIN timers' = DOMAIN timers /\ timers' \in [DOMAIN timers -> 0 .. AckPeriod]
      BY <2>1, <2>2 DEF AckPeriod
    <2> QED
      BY <1>7, <2>3, ZenonT(60) DEF TimePasses, StateOK
  <1>8. ASSUME NEW t \in TimerIds, TakeTimer(t) PROVE StateOK'
    <2>1. /\ DOMAIN timers' \subseteq TimerIds
          /\ timers' \in [DOMAIN timers' -> 0 .. AckPeriod]
      <3>1. Disarm(t) /\ 0 \in 0 .. AckPeriod
        BY <1>8 DEF TakeTimer, AckPeriod
      <3> QED
        BY <3>1, TimersStep DEF StateOK
    <2> QED
      BY <1>8, <2>1 DEF TakeTimer, StateOK
  <1>9. CASE CheckDeleted
    BY <1>9 DEF CheckDeleted, StateOK
  <1>10. CASE AckTick
    <2>1. Arm(firing, AckPeriod) /\ AckPeriod \in 0 .. AckPeriod /\ firing \in TimerIds
      BY <1>10 DEF AckTick, AckPeriod, TimerIds
    <2>2. /\ DOMAIN timers' \subseteq TimerIds
          /\ timers' \in [DOMAIN timers' -> 0 .. AckPeriod]
      BY <2>1, TimersStep DEF StateOK
    <2>3. lateTicks' \in 0 .. 2
      <3>1. lateTicks' = IF firing \in stopped THEN Capped(lateTicks, 2) ELSE lateTicks
        BY <1>10 DEF AckTick
      <3>2. lateTicks \in 0 .. 2
        BY DEF StateOK
      <3> QED
        BY <3>1, <3>2 DEF Capped
    <2>4. acks' \in 0 .. MaxAcks
      <3>1. acks' = Capped(acks, MaxAcks)
        BY <1>10 DEF AckTick
      <3>2. acks \in 0 .. MaxAcks /\ MaxAcks \in Nat
        BY LifecycleAssumption DEF StateOK
      <3> QED
        BY <3>1, <3>2 DEF Capped
    <2>5. UNCHANGED <<start, stopped, ackTimer, handler, host, held, farewell, code, status>>
              /\ main' = "loop" /\ firing' = "none"
      BY <1>10 DEF AckTick
    <2> QED
      BY <2>2, <2>3, <2>4, <2>5 DEF StateOK
  <1>11. CASE TimeoutTick
    BY <1>11 DEF TimeoutTick, StateOK
  <1>12. CASE AckAnswered
    <2>1. farewell' \in [Signals -> {"none", "posted", "answered", "shut", "over"}]
      BY <1>12, RefusedStep DEF AckAnswered
    <2>2. acks > 0 /\ acks' = acks - 1
      BY <1>12 DEF AckAnswered
    <2>3. acks \in 0 .. MaxAcks /\ MaxAcks \in Nat
      BY LifecycleAssumption DEF StateOK
    <2>4. acks' \in 0 .. MaxAcks
      BY <2>2, <2>3
    <2>5. UNCHANGED <<start, timers, stopped, ackTimer, main, firing, handler, host, held,
                      code, status, lateTicks>>
      BY <1>12 DEF AckAnswered
    <2> QED
      BY <2>1, <2>4, <2>5, ZenonT(60) DEF StateOK
  <1>13. ASSUME NEW where \in {"main", "pool"}, Signal(where) PROVE StateOK'
    BY <1>13 DEF Signal, StateOK
  <1>14. CASE HandlerStops
    BY <1>14 DEF HandlerStops, StateOK, TimerIds
  <1>15. CASE HandlerPosts
    <2>1. farewell' \in [Signals -> {"none", "posted", "answered", "shut", "over"}]
      BY <1>15, PostFarewellStep DEF HandlerPosts, Signals
    <2> QED
      BY <1>15, <2>1 DEF HandlerPosts, StateOK
  <1>16. CASE HandlerArms
    <2>1. Arm("timeout", Timeout) /\ Timeout \in 0 .. AckPeriod /\ "timeout" \in TimerIds
      BY <1>16 DEF HandlerArms, AckPeriod, Timeout, TimerIds
    <2>2. /\ DOMAIN timers' \subseteq TimerIds
          /\ timers' \in [DOMAIN timers' -> 0 .. AckPeriod]
      BY <2>1, TimersStep DEF StateOK
    <2> QED
      BY <1>16, <2>2 DEF HandlerArms, StateOK
  <1>17. ASSUME NEW g \in Signals, FarewellAnswered(g) PROVE StateOK'
    <2>1. farewell' \in [Signals -> {"none", "posted", "answered", "shut", "over"}]
      BY <1>17 DEF FarewellAnswered, StateOK
    <2>2. UNCHANGED <<start, timers, stopped, ackTimer, main, firing, handler, host, held, acks,
                      code, status, lateTicks>>
      BY <1>17 DEF FarewellAnswered
    <2> QED
      BY <2>1, <2>2, ZenonT(60) DEF StateOK
  <1>18. ASSUME NEW g \in Signals, FarewellShutsDown(g) PROVE StateOK'
    <2>1. farewell' \in [Signals -> {"none", "posted", "answered", "shut", "over"}]
      BY <1>18 DEF FarewellShutsDown, StateOK
    <2>2. DOMAIN timers' = {} /\ timers' \in [DOMAIN timers' -> 0 .. AckPeriod]
      BY <1>18 DEF FarewellShutsDown
    <2>3. UNCHANGED <<start, stopped, ackTimer, main, firing, handler, host, held, acks, code,
                      status, lateTicks>>
      BY <1>18 DEF FarewellShutsDown
    <2> QED
      BY <2>1, <2>2, <2>3, ZenonT(60) DEF StateOK
  <1>19. ASSUME NEW g \in Signals, FarewellRaises(g) PROVE StateOK'
    <2>1. farewell' \in [Signals -> {"none", "posted", "answered", "shut", "over"}]
      BY <1>19 DEF FarewellRaises, StateOK
    <2>2. status' \in {g, status}
              /\ UNCHANGED <<start, timers, stopped, ackTimer, main, firing, handler, host, held,
                            acks, code, lateTicks>>
      BY <1>19 DEF FarewellRaises
    <2> QED
      BY <2>1, <2>2, ZenonT(60) DEF StateOK
  <1>20. CASE LoopHangs \/ LeaveLoop
    <2>1. main' \in {"hung", "out"}
              /\ UNCHANGED <<start, timers, stopped, ackTimer, firing, handler, host, held, acks,
                            farewell, code, status, lateTicks>>
      BY <1>20 DEF LoopHangs, LeaveLoop
    <2> QED
      BY <2>1 DEF StateOK
  <1>21. CASE FreeQueues
    <2>1. main' = "freed"
              /\ UNCHANGED <<start, timers, stopped, ackTimer, firing, handler, host, held, acks,
                            farewell, code, status, lateTicks>>
      BY <1>21 DEF FreeQueues
    <2> QED
      BY <2>1 DEF StateOK
  <1>22. CASE JoinPool
    <2>1. status' \in {"code 0", "code 1"}
      BY <1>22 DEF JoinPool
    <2>2. UNCHANGED <<start, timers, stopped, ackTimer, main, firing, handler, host, held,
                      acks, farewell, code, lateTicks>>
      BY <1>22 DEF JoinPool
    <2> QED
      BY <2>1, <2>2, ZenonT(60) DEF StateOK
  <1>23. CASE UNCHANGED vars
    <2>1. UNCHANGED <<start, timers, stopped, ackTimer, main, firing, handler, host, held,
                      acks, farewell, code, status, lateTicks>>
      BY <1>23 DEF vars
    <2> QED
      BY <2>1, ZenonT(60) DEF StateOK
  <1> QED
    BY <1>1, <1>2, <1>3, <1>4, <1>5, <1>6, <1>7, <1>8, <1>9, <1>10, <1>11, <1>12,
       <1>13, <1>14, <1>15, <1>16, <1>17, <1>18, <1>19, <1>20, <1>21, <1>22, <1>23
    DEF Next, Startup, Handler, Farewell, Main

(* Every step keeps the flags flags.                                        *)
LEMMA FlagsStep ==
    ASSUME FlagsOK, [Next]_vars
    PROVE  FlagsOK'
  <1> USE DEF startVars, timerVars, loopVars, sigVars, endVars, history
  <1>1. ASSUME NEW s \in Shards, Startup(s) PROVE FlagsOK'
    BY <1>1 DEF Startup, ReadFlag, WriteFlag, FetchAnswered, NoteAck, StartupAnswered,
                ArmAckTimer, AssignAckTimer, FlagsOK
  <1>2. CASE TimePasses \/ AckAnswered
    BY <1>2 DEF TimePasses, AckAnswered, FlagsOK
  <1>3. ASSUME NEW t \in TimerIds, TakeTimer(t) PROVE FlagsOK'
    BY <1>3 DEF TakeTimer, FlagsOK
  <1>4. ASSUME NEW where \in {"main", "pool"}, Signal(where) PROVE FlagsOK'
    BY <1>4 DEF Signal, FlagsOK
  <1>5. CASE Handler
    BY <1>5 DEF Handler, HandlerStops, HandlerPosts, HandlerArms, FlagsOK
  <1>6. ASSUME NEW g \in Signals, FarewellAnswered(g) \/ Farewell(g) PROVE FlagsOK'
    BY <1>6 DEF FarewellAnswered, Farewell, FarewellShutsDown, FarewellRaises, FlagsOK
  <1>7. CASE Main
    BY <1>7 DEF Main, CheckDeleted, AckTick, NoteAck, TimeoutTick, LoopHangs, LeaveLoop, FreeQueues,
                JoinPool, FlagsOK
  <1>8. CASE UNCHANGED vars
    BY <1>8 DEF vars, FlagsOK
  <1> QED
    BY <1>1, <1>2, <1>3, <1>4, <1>5, <1>6, <1>7, <1>8 DEF Next

(* Type correctness of the state that main.cpp:13-19 declares, of the       *)
(* timers (timer.cpp) and of the threads' places.                           *)
THEOREM TypeCorrect == Spec => []TypeOK
  <1>1. Init => TypeOK
    <2> SUFFICES ASSUME Init PROVE TypeOK
      OBVIOUS
    <2>1. DOMAIN timers = {} /\ timers \in [DOMAIN timers -> 0 .. AckPeriod]
      BY DEF Init
    <2>2. acks \in 0 .. MaxAcks /\ lateTicks \in 0 .. 2
      BY LifecycleAssumption DEF Init
    <2> QED
      BY <2>1, <2>2 DEF Init, TypeOK, FlagsOK, StateOK
  <1>2. TypeOK /\ [Next]_vars => TypeOK'
    BY StateStep, FlagsStep DEF TypeOK
  <1> QED
    BY <1>1, <1>2, PTL DEF Spec

-----------------------------------------------------------------------------
(* The inductive invariant of the late tick.  Until the handler has noted a *)
(* handle no acknowledge timer is in deleted_timers; afterwards the set of  *)
(* noted ones only shrinks, and the single tick that may be late is the one *)
(* whose callback was already decided on.                                   *)
LateInv ==
    /\ handler \in {"none", "stop"} =>
           stopped \cap Shards = {} /\ lateTicks = 0
    /\ lateTicks \in {0, 1}
    /\ main = "fire" /\ lateTicks = 1 => firing \notin stopped \cap Shards

(* Every step keeps it.                                                     *)
LEMMA LateStep ==
    ASSUME TypeOK, LateInv, [Next]_vars
    PROVE  LateInv'
  <1> USE DEF startVars, timerVars, loopVars, sigVars, endVars, history
  <1>1. ASSUME UNCHANGED <<handler, stopped, lateTicks, main, firing>>
        PROVE  LateInv'
    BY <1>1 DEF LateInv
  <1>2. ASSUME NEW s \in Shards, Startup(s) PROVE LateInv'
    <2>1. UNCHANGED <<handler, stopped, lateTicks, main, firing>>
      BY <1>2 DEF Startup, ReadFlag, WriteFlag, FetchAnswered, StartupAnswered,
                  ArmAckTimer, AssignAckTimer
    <2> QED
      BY <1>1, <2>1
  <1>3. CASE TimePasses \/ AckAnswered
    <2>1. UNCHANGED <<handler, stopped, lateTicks, main, firing>>
      BY <1>3 DEF TimePasses, AckAnswered
    <2> QED
      BY <1>1, <2>1
  <1>4. ASSUME NEW t \in TimerIds, TakeTimer(t) PROVE LateInv'
    <2>1. main' = "taken" /\ UNCHANGED <<handler, stopped, lateTicks>>
      BY <1>4 DEF TakeTimer
    <2> QED
      BY <2>1 DEF LateInv
  <1>5. CASE CheckDeleted
    <2>1. UNCHANGED <<handler, lateTicks>>
      BY <1>5 DEF CheckDeleted
    <2>2. \/ stopped' = stopped \ {firing} /\ main' = "loop"
          \/ firing \notin stopped /\ UNCHANGED <<stopped, firing>>
      BY <1>5 DEF CheckDeleted
    <2> QED
      BY <2>1, <2>2 DEF LateInv
  <1>6. CASE AckTick
    <2>1. lateTicks' = IF firing \in stopped THEN Capped(lateTicks, 2) ELSE lateTicks
      BY <1>6 DEF AckTick
    <2>2. main = "fire" /\ firing \in Shards /\ main' = "loop"
              /\ UNCHANGED <<handler, stopped>>
      BY <1>6 DEF AckTick
    <2> QED
      BY <2>1, <2>2 DEF LateInv, Capped
  <1>7. CASE TimeoutTick
    <2>1. firing = "timeout" /\ stopped' = stopped \cup {firing} /\ main' = "out"
              /\ UNCHANGED <<handler, lateTicks>>
      BY <1>7 DEF TimeoutTick
    <2>2. "timeout" \notin Shards
      BY LifecycleAssumption
    <2> QED
      BY <2>1, <2>2 DEF LateInv
  <1>8. ASSUME NEW where \in {"main", "pool"}, Signal(where) PROVE LateInv'
    <2>1. handler = "none" /\ UNCHANGED <<stopped, lateTicks, main, firing>>
      BY <1>8 DEF Signal
    <2> QED
      BY <2>1 DEF LateInv
  <1>9. CASE HandlerStops
    <2>1. handler = "stop" /\ handler' = "post" /\ UNCHANGED <<lateTicks, main, firing>>
      BY <1>9 DEF HandlerStops
    <2> QED
      BY <2>1 DEF LateInv
  <1>10. CASE HandlerPosts \/ HandlerArms
    <2>1. handler' \in {"arm", "done"} /\ UNCHANGED <<stopped, lateTicks, main, firing>>
      BY <1>10 DEF HandlerPosts, HandlerArms
    <2> QED
      BY <2>1 DEF LateInv
  <1>11. ASSUME NEW g \in Signals, FarewellAnswered(g) \/ Farewell(g) PROVE LateInv'
    <2>1. UNCHANGED <<handler, stopped, lateTicks, main, firing>>
      BY <1>11 DEF FarewellAnswered, Farewell, FarewellShutsDown, FarewellRaises
    <2> QED
      BY <1>1, <2>1
  <1>12. CASE LoopHangs \/ LeaveLoop \/ FreeQueues
    <2>1. main' \in {"hung", "out", "freed"} /\ UNCHANGED <<handler, stopped, lateTicks, firing>>
      BY <1>12 DEF LoopHangs, LeaveLoop, FreeQueues
    <2> QED
      BY <2>1 DEF LateInv
  <1>13. CASE JoinPool \/ UNCHANGED vars
    <2>1. UNCHANGED <<handler, stopped, lateTicks, main, firing>>
      BY <1>13 DEF JoinPool, vars
    <2> QED
      BY <1>1, <2>1
  <1> QED
    BY <1>2, <1>3, <1>4, <1>5, <1>6, <1>7, <1>8, <1>9, <1>10, <1>11, <1>12, <1>13
    DEF Next, Handler, Main

(* A stopped acknowledge timer ticks at most once more, for any number of   *)
(* acknowledge timers (timer.cpp:45-98, signal_handler.cpp:6).              *)
THEOREM OneLateTickAtMost == Spec => []AtMostOneLateTick
  <1>1. Init => LateInv
    BY DEF Init, LateInv
  <1>2. TypeOK /\ LateInv /\ [Next]_vars => LateInv'
    BY LateStep
  <1>3. LateInv => AtMostOneLateTick
    BY DEF LateInv, AtMostOneLateTick
  <1> QED
    BY <1>1, <1>2, <1>3, TypeCorrect, PTL DEF Spec

-----------------------------------------------------------------------------
(* What may end the process: a signal being handled, or an acknowledgement  *)
(* that was refused.                                                        *)
HasReason == handler # "none" \/ farewell["signal 24"] # "none"

(* The inductive invariant of the ways out: each state on one of them names *)
(* what has led to it.                                                      *)
EndInv ==
    /\ farewell["SIGTERM"] # "none" => handler # "none"
    /\ farewell["signal 24"] # "none" => ~ TokenValid /\ ~ IsCentral
    /\ "timeout" \in DOMAIN timers \/ firing = "timeout" \/ code = 1 => handler = "done"
    /\ terminating \/ main \in {"out", "freed"} \/ status # "running" => HasReason
    /\ status = "code 1" => handler = "done"

(* A handler that has run stays as it is, and once begun it never goes back *)
(* to "none" (signal_handler.cpp:4-16).                                     *)
LEMMA HandlerStep ==
    ASSUME [Next]_vars
    PROVE  /\ handler # "none" => handler' # "none"
           /\ handler = "done" => handler' = "done"
  <1> USE DEF startVars, timerVars, loopVars, sigVars, endVars, history
  <1>1. ASSUME NEW s \in Shards, Startup(s) PROVE handler' = handler
    BY <1>1 DEF Startup, ReadFlag, WriteFlag, FetchAnswered, StartupAnswered,
                ArmAckTimer, AssignAckTimer
  <1>2. CASE TimePasses \/ AckAnswered
    BY <1>2 DEF TimePasses, AckAnswered
  <1>3. ASSUME NEW t \in TimerIds, TakeTimer(t) PROVE handler' = handler
    BY <1>3 DEF TakeTimer
  <1>4. ASSUME NEW where \in {"main", "pool"}, Signal(where)
        PROVE  handler = "none"
    BY <1>4 DEF Signal
  <1>5. CASE Handler
    BY <1>5 DEF Handler, HandlerStops, HandlerPosts, HandlerArms
  <1>6. ASSUME NEW g \in Signals, FarewellAnswered(g) \/ Farewell(g)
        PROVE  handler' = handler
    BY <1>6 DEF FarewellAnswered, Farewell, FarewellShutsDown, FarewellRaises
  <1>7. CASE Main
    BY <1>7 DEF Main, CheckDeleted, AckTick, TimeoutTick, LoopHangs, LeaveLoop, FreeQueues, JoinPool
  <1>8. CASE UNCHANGED vars
    BY <1>8 DEF vars
  <1> QED
    BY <1>1, <1>2, <1>3, <1>4, <1>5, <1>6, <1>7, <1>8 DEF Next

(* Every step keeps the invariant of the ways out.                          *)
LEMMA EndStep ==
    ASSUME TypeOK, EndInv, [Next]_vars
    PROVE  EndInv'
  <1> USE DEF startVars, timerVars, loopVars, sigVars, endVars, history
  <1>0. /\ handler # "none" => handler' # "none"
        /\ handler = "done" => handler' = "done"
    BY HandlerStep
  <1>1. ASSUME UNCHANGED <<timers, firing, farewell, code, terminating, main, status>>
        PROVE  EndInv'
    BY <1>0, <1>1 DEF EndInv, HasReason
  <1>2. ASSUME NEW s \in Shards, Startup(s) PROVE EndInv'
    <2>1. UNCHANGED <<handler, firing, code, terminating, main, status>>
      BY <1>2 DEF Startup, ReadFlag, WriteFlag, FetchAnswered, StartupAnswered,
                  ArmAckTimer, AssignAckTimer
    <2>2. CASE StartupAnswered(s)
      <3>1. /\ farewell'["SIGTERM"] = farewell["SIGTERM"]
            /\ farewell'["signal 24"] # farewell["signal 24"] =>
                   ~ TokenValid /\ ~ IsCentral /\ farewell'["signal 24"] # "none"
        BY <2>2, RefusedStep DEF StartupAnswered, TypeOK
      <3>2. timers' = timers
        BY <2>2 DEF StartupAnswered
      <3> QED
        BY <2>1, <3>1, <3>2 DEF EndInv, HasReason
    <2>3. CASE ArmAckTimer(s)
      <3>1. DOMAIN timers' = DOMAIN timers \cup {s} /\ farewell' = farewell
        BY <2>3 DEF ArmAckTimer, Arm
      <3>2. s # "timeout"
        BY LifecycleAssumption
      <3> QED
        BY <2>1, <3>1, <3>2 DEF EndInv, HasReason
    <2>4. CASE ReadFlag(s) \/ WriteFlag(s) \/ FetchAnswered(s) \/ AssignAckTimer(s)
      <3>1. UNCHANGED <<timers, farewell>>
        BY <2>4 DEF ReadFlag, WriteFlag, FetchAnswered, AssignAckTimer
      <3> QED
        BY <1>1, <2>1, <3>1
    <2> QED
      BY <1>2, <2>2, <2>3, <2>4 DEF Startup
  <1>3. CASE TimePasses
    <2>1. DOMAIN timers' = DOMAIN timers
              /\ UNCHANGED <<handler, firing, farewell, code, terminating, main, status>>
      BY <1>3 DEF TimePasses
    <2> QED
      BY <2>1 DEF EndInv, HasReason
  <1>4. ASSUME NEW t \in TimerIds, TakeTimer(t) PROVE EndInv'
    <2>1. /\ t \in DOMAIN timers /\ DOMAIN timers' = DOMAIN timers \ {t}
          /\ firing' = t /\ main' = "taken"
          /\ UNCHANGED <<handler, farewell, code, terminating, status>>
      BY <1>4 DEF TakeTimer, Disarm
    <2> QED
      BY <2>1 DEF EndInv, HasReason
  <1>5. CASE CheckDeleted
    <2>1. /\ firing' \in {firing, "none"} /\ main' \in {"loop", "fire"}
          /\ UNCHANGED <<handler, timers, farewell, code, terminating, status>>
      BY <1>5 DEF CheckDeleted
    <2> QED
      BY <2>1 DEF EndInv, HasReason
  <1>6. CASE AckTick
    <2>1. /\ firing \in Shards /\ DOMAIN timers' = DOMAIN timers \cup {firing}
          /\ firing' = "none" /\ main' = "loop"
          /\ UNCHANGED <<handler, farewell, code, terminating, status>>
      BY <1>6 DEF AckTick, Arm
    <2>2. "timeout" \notin Shards
      BY LifecycleAssumption
    <2> QED
      BY <2>1, <2>2 DEF EndInv, HasReason
  <1>7. CASE TimeoutTick
    <2>1. /\ firing = "timeout" /\ firing' = "none" /\ DOMAIN timers' = {}
          /\ UNCHANGED <<handler, farewell, status>>
      BY <1>7 DEF TimeoutTick
    <2>2. handler = "done"
      BY <2>1 DEF EndInv
    <2> QED
      BY <2>1, <2>2 DEF EndInv, HasReason
  <1>8. CASE AckAnswered
    <2>1. /\ farewell'["SIGTERM"] = farewell["SIGTERM"]
          /\ farewell'["signal 24"] # farewell["signal 24"] =>
                 ~ TokenValid /\ ~ IsCentral /\ farewell'["signal 24"] # "none"
      BY <1>8, RefusedStep DEF AckAnswered, TypeOK
    <2>2. UNCHANGED <<handler, timers, firing, code, terminating, main, status>>
      BY <1>8 DEF AckAnswered
    <2> QED
      BY <2>1, <2>2 DEF EndInv, HasReason
  <1>9. ASSUME NEW where \in {"main", "pool"}, Signal(where) PROVE EndInv'
    <2>1. UNCHANGED <<timers, firing, farewell, code, terminating, main, status>>
      BY <1>9 DEF Signal
    <2> QED
      BY <1>1, <2>1
  <1>10. CASE HandlerStops
    <2>1. UNCHANGED <<timers, firing, farewell, code, terminating, main, status>>
      BY <1>10 DEF HandlerStops
    <2> QED
      BY <1>1, <2>1
  <1>11. CASE HandlerPosts
    <2>1. farewell'["signal 24"] = farewell["signal 24"]
      BY <1>11, PostFarewellStep DEF HandlerPosts, Signals, TypeOK
    <2>2. /\ handler' = "arm" /\ handler = "post"
          /\ UNCHANGED <<timers, firing, code, terminating, main, status>>
      BY <1>11 DEF HandlerPosts
    <2> QED
      BY <2>1, <2>2 DEF EndInv, HasReason
  <1>12. CASE HandlerArms
    <2>1. /\ handler' = "done" /\ handler = "arm"
          /\ UNCHANGED <<firing, farewell, code, terminating, main, status>>
      BY <1>12 DEF HandlerArms
    <2> QED
      BY <2>1 DEF EndInv, HasReason
  <1>13. ASSUME NEW g \in Signals, FarewellAnswered(g) PROVE EndInv'
    <2>1. /\ farewell[g] = "posted" /\ farewell' = [farewell EXCEPT ![g] = "answered"]
          /\ UNCHANGED <<handler, timers, firing, code, terminating, main, status>>
      BY <1>13 DEF FarewellAnswered
    <2>2. farewell \in [Signals -> {"none", "posted", "answered", "shut", "over"}]
      BY DEF TypeOK, StateOK
    <2>3. /\ farewell'["SIGTERM"] # "none" <=> farewell["SIGTERM"] # "none"
          /\ farewell'["signal 24"] # "none" <=> farewell["signal 24"] # "none"
      BY <2>1, <2>2 DEF Signals
    <2> QED
      BY <2>1, <2>2, <2>3 DEF EndInv, HasReason
  <1>14. ASSUME NEW g \in Signals, FarewellShutsDown(g) PROVE EndInv'
    <2>1. /\ farewell[g] = "answered" /\ farewell' = [farewell EXCEPT ![g] = "shut"]
          /\ DOMAIN timers' = {}
          /\ UNCHANGED <<handler, firing, code, main, status>>
      BY <1>14 DEF FarewellShutsDown
    <2>2. HasReason
      BY <2>1 DEF EndInv, HasReason, Signals
    <2>3. farewell \in [Signals -> {"none", "posted", "answered", "shut", "over"}]
      BY DEF TypeOK, StateOK
    <2>4. /\ farewell'["SIGTERM"] # "none" <=> farewell["SIGTERM"] # "none"
          /\ farewell'["signal 24"] # "none" <=> farewell["signal 24"] # "none"
      BY <2>1, <2>3 DEF Signals
    <2> QED
      BY <2>1, <2>2, <2>4 DEF EndInv, HasReason
  <1>15. ASSUME NEW g \in Signals, FarewellRaises(g) PROVE EndInv'
    <2>1. /\ farewell[g] = "shut" /\ farewell' = [farewell EXCEPT ![g] = "over"]
          /\ status' \in {g, status}
          /\ UNCHANGED <<handler, timers, firing, code, terminating, main>>
      BY <1>15 DEF FarewellRaises
    <2>2. HasReason
      BY <2>1 DEF EndInv, HasReason, Signals
    <2>3. farewell \in [Signals -> {"none", "posted", "answered", "shut", "over"}]
      BY DEF TypeOK, StateOK
    <2>4. /\ farewell'["SIGTERM"] # "none" <=> farewell["SIGTERM"] # "none"
          /\ farewell'["signal 24"] # "none" <=> farewell["signal 24"] # "none"
      BY <2>1, <2>3 DEF Signals
    <2> QED
      BY <2>1, <2>2, <2>4 DEF EndInv, HasReason, Signals
  <1>16. CASE LoopHangs
    <2>1. main' = "hung" /\ UNCHANGED <<handler, timers, firing, farewell, code,
                                        terminating, status>>
      BY <1>16 DEF LoopHangs
    <2> QED
      BY <2>1 DEF EndInv, HasReason
  <1>20. CASE LeaveLoop
    <2>1. terminating /\ UNCHANGED <<handler, timers, firing, farewell, code, terminating,
                                     status>>
      BY <1>20 DEF LeaveLoop
    <2> QED
      BY <2>1 DEF EndInv, HasReason
  <1>17. CASE FreeQueues
    <2>1. main = "out" /\ UNCHANGED <<handler, timers, firing, farewell, code, terminating,
                                      status>>
      BY <1>17 DEF FreeQueues
    <2> QED
      BY <2>1 DEF EndInv, HasReason
  <1>18. CASE JoinPool
    <2>1. /\ main = "freed" /\ status' = IF code = 0 THEN "code 0" ELSE "code 1"
          /\ UNCHANGED <<handler, timers, firing, farewell, code, terminating, main>>
      BY <1>18 DEF JoinPool
    <2>2. code \in {0, 1}
      BY DEF TypeOK, StateOK
    <2> QED
      BY <2>1, <2>2 DEF EndInv, HasReason
  <1>19. CASE UNCHANGED vars
    BY <1>1, <1>19 DEF vars
  <1> QED
    BY <1>2, <1>3, <1>4, <1>5, <1>6, <1>7, <1>8, <1>9, <1>10, <1>11, <1>12, <1>13,
       <1>14, <1>15, <1>16, <1>17, <1>18, <1>19, <1>20
    DEF Next, Handler, Farewell, Main

(* The process never ends of itself, only by a signal or by the refusal of  *)
(* a token that is not a central one, and with the failure code only by the *)
(* handler's timeout (acknowledge_payload.cpp:45-49, signal_handler.cpp:    *)
(* 10-15).                                                                  *)
THEOREM EndsOnlyForAReason == Spec => []EndsForAReason
  <1>1. Init => EndInv
    <2> SUFFICES ASSUME Init PROVE EndInv
      OBVIOUS
    <2>1. farewell["SIGTERM"] = "none" /\ farewell["signal 24"] = "none"
      BY DEF Init, Signals
    <2>2. "timeout" \notin DOMAIN timers /\ firing # "timeout" /\ code # 1
      BY DEF Init
    <2>3. ~ terminating
      BY DEF Init
    <2>4. main \notin {"out", "freed"} /\ status = "running" /\ status # "code 1"
      BY DEF Init
    <2> QED
      BY <2>1, <2>2, <2>3, <2>4, Zenon DEF EndInv
  <1>2. TypeOK /\ EndInv /\ [Next]_vars => EndInv'
    BY EndStep
  <1>3. EndInv => EndsForAReason
    BY DEF EndInv, EndsForAReason, HasReason
  <1> QED
    BY <1>1, <1>2, <1>3, TypeCorrect, PTL DEF Spec
=============================================================================
