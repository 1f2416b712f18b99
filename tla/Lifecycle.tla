------------------------------ MODULE Lifecycle ------------------------------
(***************************************************************************)
(* Start and end of the bot process: the ready handler that begins the      *)
(* acknowledgements (main.cpp), the acknowledge timer on the event loop     *)
(* (dpp cluster/timer.cpp), the signal handler, and the ways out through    *)
(* acknowledge_payload::exit, the five second timeout and main's return.    *)
(*                                                                          *)
(* Three kinds of threads run: the main thread with the event loop and its  *)
(* timers, pool threads with the ready handlers and the answers of          *)
(* requests, and the signal handler on whichever thread it interrupts.      *)
(* Time advances in units of five seconds.                                  *)
(***************************************************************************)
EXTENDS Naturals, FiniteSets

CONSTANTS
    Shards,      \* the shards of the cluster; each fires on_ready
    TokenValid,  \* whether the panel accepts API_TOKEN
    IsCentral,   \* whether IS_CENTRAL is set
    CanSignal,   \* whether SIGTERM may arrive
    MaxAcks      \* bound: acknowledgements counted as under way

ASSUME LifecycleAssumption ==
    /\ IsFiniteSet(Shards)
    /\ "timeout" \notin Shards /\ "none" \notin Shards
    /\ TokenValid \in BOOLEAN /\ IsCentral \in BOOLEAN /\ CanSignal \in BOOLEAN
    /\ MaxAcks \in Nat \ {0}

VARIABLES
    called,      \* the static flag of run_once
    start,       \* where the ready handler of each shard stands
    timers,      \* next_timer: armed timers with the time left, in five seconds
    stopped,     \* deleted_timers
    ackTimer,    \* the global acknowledge_timer, "none" for its initial 0
    main,        \* where the main thread stands
    firing,      \* the timer tick_timers has taken from the queue
    handler,     \* where the signal handler stands
    host,        \* the thread it interrupted
    held,        \* the lock that thread holds meanwhile, "none" if it holds none
    acks,        \* acknowledgements posted by the timer and not answered
    farewell,    \* the shutdown acknowledgement of each signal value
    terminating, \* cluster::terminating
    code,        \* the exit code main is leaving with
    status,      \* how the process ended, or "running"
    \* history
    late,        \* an acknowledgement was posted after a shutdown acknowledgement
    lateTicks    \* ticks of an acknowledge timer whose handle was noted as stopped

startVars == <<called, start>>
timerVars == <<timers, stopped, ackTimer>>
loopVars  == <<main, firing>>
sigVars   == <<handler, host, held>>
endVars   == <<terminating, code, status>>
history   == <<late, lateTicks>>
vars == <<startVars, timerVars, loopVars, sigVars, acks, farewell, endVars, history>>

(* The values exit is called with; SIGINT is handled as SIGTERM is.         *)
Signals  == {"SIGTERM", "signal 24"}
TimerIds == Shards \cup {"timeout"}

(* The locks that the handler takes itself: timer_guard in stop_timer and   *)
(* start_timer; the mutex of the payload, in_mutex of the queue that gets   *)
(* the shutdown acknowledgement and, as that is delivered at once and       *)
(* connects, dns_cache_mutex and fds_mutex in exit; and those of the C      *)
(* library (allocator, output) from its first line on.  None is recursive.  *)
PostLocks == {"payload", "in_mutex", "dns_cache_mutex", "fds_mutex", "libc"}
Locks     == PostLocks \cup {"timer_guard"}

AckPeriod == 6    \* ACKNOWLEDGE_FREQUENCY: 30 seconds
Timeout   == 1    \* the handler's timer: 5 seconds

Capped(n, bound) == IF n < bound THEN n + 1 ELSE bound

-----------------------------------------------------------------------------
Init ==
    /\ called = FALSE
    /\ start = [s \in Shards |-> "off"]
    /\ timers = [t \in {} |-> 0]
    /\ stopped = {}
    /\ ackTimer = "none"
    /\ main = "loop"
    /\ firing = "none"
    /\ handler = "none"
    /\ host = "none"
    /\ held = "none"
    /\ acks = 0
    /\ farewell = [g \in Signals |-> "none"]
    /\ terminating = FALSE
    /\ code = 0
    /\ status = "running"
    /\ late = FALSE
    /\ lateTicks = 0

Running == status = "running"

(* A thread cannot go on while the handler runs on top of it.               *)
HandlerOn(thread) == host = thread /\ handler \in {"stop", "post", "arm"}

MainFree == ~ HandlerOn("main")

(* A lock that the interrupted thread holds is not to be had, neither for   *)
(* the handler nor for another thread.                                      *)
Free(lock) == held # lock

(* Building the payload and posting a request.                              *)
CanPost == \A lock \in PostLocks : Free(lock)

(* Answers reach the bot while the event loop handles sockets.              *)
Listening == Running /\ main = "loop" /\ MainFree

Arm(t, delay) ==
    timers' = [x \in DOMAIN timers \cup {t} |-> IF x = t THEN delay ELSE timers[x]]

Disarm(t) == timers' = [x \in DOMAIN timers \ {t} |-> timers[x]]

(* An acknowledgement is posted, perhaps after a shutdown acknowledgement.  *)
NoteAck ==
    /\ CanPost
    /\ late' = (late \/ \E g \in Signals : farewell[g] # "none")

(* acknowledge_payload::exit: POST /acknowledge?shutdown=true.              *)
PostFarewell(g) ==
    /\ CanPost
    /\ farewell' = [farewell EXCEPT ![g] = IF @ = "none" THEN "posted" ELSE @]

(* Bug: the test of IS_CENTRAL the wrong way round.                         *)
BugRefused(answer) ==
    IF answer = 401 /\ IsCentral THEN PostFarewell("signal 24")
                                 ELSE UNCHANGED farewell

(* What send_acknowledgement does about a refusal: the unqualified          *)
(* exit(EXIT_INVALID_API_TOKEN) inside the member function names the member *)
(* acknowledge_payload::exit, which takes 24 for a signal.                  *)
Refused(answer) ==
    IF answer = 401 /\ ~ IsCentral THEN PostFarewell("signal 24")
                                   ELSE UNCHANGED farewell

Answers == IF TokenValid THEN {200, 500} ELSE {401}

-----------------------------------------------------------------------------
(* The ready handler of a shard, on a pool thread.  The exchange of the     *)
(* plain static flag in run_once is a read and a write.                     *)
ReadFlag(s) ==
    /\ Running /\ start[s] = "off"
    /\ start' = [start EXCEPT ![s] = IF called THEN "skipped" ELSE "read"]
    /\ UNCHANGED <<called, timerVars, loopVars, sigVars, acks, farewell, endVars, history>>

WriteFlag(s) ==
    /\ Running /\ start[s] = "read"
    /\ called' = TRUE
    /\ start' = [start EXCEPT ![s] = "fetch"]
    /\ UNCHANGED <<timerVars, loopVars, sigVars, acks, farewell, endVars, history>>

(* fetch_current_application was answered: the startup acknowledgement.     *)
FetchAnswered(s) ==
    /\ Listening /\ start[s] = "fetch"
    /\ start' = [start EXCEPT ![s] = "ack"]
    /\ NoteAck
    /\ UNCHANGED <<called, timerVars, loopVars, sigVars, acks, farewell, endVars, lateTicks>>

(* The startup acknowledgement was answered; the handler goes on to edit    *)
(* the application and to register the command whatever the answer was.     *)
StartupAnswered(s) ==
    /\ Listening /\ start[s] = "ack"
    /\ \E answer \in Answers : Refused(answer)
    /\ start' = [start EXCEPT ![s] = "arm"]
    /\ UNCHANGED <<called, timerVars, loopVars, sigVars, acks, endVars, history>>

ArmAckTimer(s) ==
    /\ Running /\ start[s] = "arm" /\ Free("timer_guard")
    /\ Arm(s, AckPeriod)
    /\ start' = [start EXCEPT ![s] = "assign"]
    /\ UNCHANGED <<called, stopped, ackTimer, loopVars, sigVars, acks, farewell,
                   endVars, history>>

(* The handle reaches the global only after start_timer has returned.       *)
AssignAckTimer(s) ==
    /\ Running /\ start[s] = "assign"
    /\ ackTimer' = s
    /\ start' = [start EXCEPT ![s] = "up"]
    /\ UNCHANGED <<called, timers, stopped, loopVars, sigVars, acks, farewell,
                   endVars, history>>

-----------------------------------------------------------------------------
(* The event loop: time, timers and the answers of acknowledgements.        *)
TimePasses ==
    /\ Running
    /\ \E t \in DOMAIN timers : timers[t] > 0
    /\ timers' = [t \in DOMAIN timers |-> IF timers[t] > 0 THEN timers[t] - 1 ELSE 0]
    /\ UNCHANGED <<startVars, stopped, ackTimer, loopVars, sigVars, acks, farewell,
                   endVars, history>>

(* tick_timers takes a due timer from the queue and, in a second critical   *)
(* section of timer_guard, looks it up in deleted_timers.                   *)
TakeTimer(t) ==
    /\ Running /\ main = "loop" /\ MainFree /\ Free("timer_guard")
    /\ t \in DOMAIN timers /\ timers[t] = 0
    /\ Disarm(t)
    /\ main' = "taken"
    /\ firing' = t
    /\ UNCHANGED <<startVars, stopped, ackTimer, sigVars, acks, farewell, endVars, history>>

(* Bug: deleted_timers is not consulted.                                    *)
BugCheckDeleted ==
    /\ Running /\ main = "taken" /\ MainFree /\ Free("timer_guard")
    /\ main' = "fire"
    /\ UNCHANGED <<startVars, timerVars, firing, sigVars, acks, farewell, endVars, history>>

(* The outcome is kept in a local variable and timer_guard released: a      *)
(* timer stopped from now on still ticks once.                              *)
CheckDeleted ==
    /\ Running /\ main = "taken" /\ MainFree /\ Free("timer_guard")
    /\ IF firing \in stopped
       THEN /\ stopped' = stopped \ {firing}
            /\ main' = "loop"
            /\ firing' = "none"
       ELSE /\ main' = "fire"
            /\ UNCHANGED <<stopped, firing>>
    /\ UNCHANGED <<startVars, timers, ackTimer, sigVars, acks, farewell, endVars, history>>

(* on_tick of the acknowledge timer: send_acknowledgement runs up to its    *)
(* first await; the timer goes back into the queue.                         *)
AckTick ==
    /\ Running /\ main = "fire" /\ firing \in Shards
    /\ MainFree /\ Free("timer_guard")
    /\ NoteAck
    /\ lateTicks' = IF firing \in stopped THEN Capped(lateTicks, 2) ELSE lateTicks
    /\ acks' = Capped(acks, MaxAcks)
    /\ Arm(firing, AckPeriod)
    /\ main' = "loop"
    /\ firing' = "none"
    /\ UNCHANGED <<startVars, stopped, ackTimer, sigVars, farewell, endVars>>

(* on_tick of the timeout: stop_timer, shutdown, and exit(EXIT_FAILURE),    *)
(* which runs the destructors of the globals on this thread.                *)
TimeoutTick ==
    /\ Running /\ main = "fire" /\ firing = "timeout"
    /\ MainFree /\ Free("timer_guard")
    /\ stopped' = stopped \cup {firing}
    /\ terminating' = TRUE
    /\ timers' = [t \in {} |-> 0]
    /\ main' = "out"
    /\ firing' = "none"
    /\ code' = 1
    /\ UNCHANGED <<startVars, ackTimer, sigVars, acks, farewell, status, history>>

(* Bug: a request is completed twice.                                       *)
BugAckAnswered ==
    /\ Listening
    /\ \E answer \in Answers : Refused(answer)
    /\ acks' = acks - 1
    /\ UNCHANGED <<startVars, timerVars, loopVars, sigVars, endVars, history>>

AckAnswered ==
    /\ Listening /\ acks > 0
    /\ \E answer \in Answers : Refused(answer)
    /\ acks' = acks - 1
    /\ UNCHANGED <<startVars, timerVars, loopVars, sigVars, endVars, history>>

-----------------------------------------------------------------------------
(* Where the payload is built: by the acknowledge timer on the main thread, *)
(* by the ready handler and by the answer to a refused token on the pool.   *)
BuildsPayload(where) ==
    IF where = "main"
    THEN main = "fire" /\ firing \in Shards
    ELSE \/ \E s \in Shards : start[s] = "fetch"
         \/ /\ 401 \in Answers /\ ~ IsCentral
            /\ acks > 0 \/ \E s \in Shards : start[s] = "ack"

(* The signal handler starts on a thread that may hold a lock just then.    *)
Signal(where) ==
    /\ Running /\ CanSignal /\ handler = "none"
    /\ main \in {"loop", "taken", "fire"}
    /\ host' = where
    /\ handler' = "stop"
    /\ \E lock \in Locks \cup {"none"} :
           /\ lock = "payload" => BuildsPayload(where)
           /\ held' = lock
    /\ UNCHANGED <<startVars, timerVars, loopVars, acks, farewell, endVars, history>>

(* stop_timer(acknowledge_timer): the handle is only noted, existing or not.*)
HandlerStops ==
    /\ Running /\ handler = "stop" /\ Free("timer_guard") /\ Free("libc")
    /\ stopped' = stopped \cup {ackTimer}
    /\ handler' = "post"
    /\ UNCHANGED <<startVars, timers, ackTimer, loopVars, host, held, acks, farewell,
                   endVars, history>>

(* exit(signal).  On top of a thread that holds one of the locks it waits   *)
(* for ever, and the timeout is never armed.                                *)
HandlerPosts ==
    /\ Running /\ handler = "post"
    /\ PostFarewell("SIGTERM")
    /\ handler' = "arm"
    /\ UNCHANGED <<startVars, timerVars, loopVars, host, held, acks, endVars, history>>

(* Bug: the handler relies on the panel to answer.                          *)
BugHandlerArms ==
    /\ Running /\ handler = "arm"
    /\ handler' = "done"
    /\ UNCHANGED <<startVars, timerVars, loopVars, host, held, acks, farewell, endVars, history>>

HandlerArms ==
    /\ Running /\ handler = "arm"
    /\ Arm("timeout", Timeout)
    /\ handler' = "done"
    /\ UNCHANGED <<startVars, stopped, ackTimer, loopVars, host, held, acks, farewell,
                   endVars, history>>

-----------------------------------------------------------------------------
(* The answer of a shutdown acknowledgement, whatever it says, is put on    *)
(* the pool's queue.                                                        *)
FarewellAnswered(g) ==
    /\ Listening /\ farewell[g] = "posted"
    /\ farewell' = [farewell EXCEPT ![g] = "answered"]
    /\ UNCHANGED <<startVars, timerVars, loopVars, sigVars, acks, endVars, history>>

(* The callback on a pool thread: bot.shutdown() ...                        *)
FarewellShutsDown(g) ==
    /\ Running /\ farewell[g] = "answered" /\ Free("timer_guard")
    /\ farewell' = [farewell EXCEPT ![g] = "shut"]
    /\ terminating' = TRUE
    /\ timers' = [t \in {} |-> 0]
    /\ UNCHANGED <<startVars, stopped, ackTimer, loopVars, sigVars, acks, code, status,
                   history>>

(* ... then std::raise of the captured signal.  Once the destructor of the  *)
(* cluster has deleted the request with its callback, the captured value is *)
(* read from freed memory: it may still be there, or raise refuses it.      *)
FarewellRaises(g) ==
    /\ Running /\ farewell[g] = "shut"
    /\ farewell' = [farewell EXCEPT ![g] = "over"]
    /\ \/ status' = g
       \/ main = "freed" /\ UNCHANGED status
    /\ UNCHANGED <<startVars, timerVars, loopVars, sigVars, acks, terminating, code, history>>

(* The loop's turn takes a lock that is never given back: tick_timers, the   *)
(* queues' own timer, get_fd of a socket, any allocation.                   *)
LoopHangs ==
    /\ Running /\ main = "loop" /\ MainFree
    /\ held \in {"timer_guard", "in_mutex", "fds_mutex", "libc"}
    /\ main' = "hung"
    /\ UNCHANGED <<startVars, timerVars, firing, sigVars, acks, farewell, endVars, history>>

(* Bug: the loop does not look at terminating.                              *)
BugLeaveLoop ==
    /\ Running /\ main = "loop" /\ MainFree
    /\ main' = "out"
    /\ UNCHANGED <<startVars, timerVars, firing, sigVars, acks, farewell, endVars, history>>

(* main's event loop ends, start() returns and main returns EXIT_SUCCESS.   *)
LeaveLoop ==
    /\ Running /\ main = "loop" /\ MainFree /\ terminating
    /\ main' = "out"
    /\ UNCHANGED <<startVars, timerVars, firing, sigVars, acks, farewell, endVars, history>>

(* ~cluster deletes the request queues, which stop their timers ...         *)
FreeQueues ==
    /\ Running /\ main = "out" /\ Free("timer_guard")
    /\ main' = "freed"
    /\ UNCHANGED <<startVars, timerVars, firing, sigVars, acks, farewell, endVars, history>>

(* ... and joins the pool, whose threads first finish what they are doing   *)
(* and empty its queue.                                                     *)
JoinPool ==
    /\ Running /\ main = "freed" /\ ~ HandlerOn("pool")
    /\ \A g \in Signals : farewell[g] \notin {"answered", "shut"}
    /\ status' = IF code = 0 THEN "code 0" ELSE "code 1"
    /\ UNCHANGED <<startVars, timerVars, loopVars, sigVars, acks, farewell, terminating,
                   code, history>>

Startup(s) ==
    \/ ReadFlag(s) \/ WriteFlag(s) \/ FetchAnswered(s) \/ StartupAnswered(s)
    \/ ArmAckTimer(s) \/ AssignAckTimer(s)

Handler == HandlerStops \/ HandlerPosts \/ HandlerArms

Farewell(g) == FarewellShutsDown(g) \/ FarewellRaises(g)

Main == CheckDeleted \/ AckTick \/ TimeoutTick \/ LoopHangs \/ LeaveLoop
        \/ FreeQueues \/ JoinPool

Next ==
    \/ \E s \in Shards : Startup(s)
    \/ TimePasses
    \/ \E t \in TimerIds : TakeTimer(t)
    \/ AckAnswered
    \/ \E where \in {"main", "pool"} : Signal(where)
    \/ Handler
    \/ \E g \in Signals : FarewellAnswered(g) \/ Farewell(g)
    \/ Main

Spec == Init /\ [][Next]_vars

(* Clocks run, threads are scheduled, and the event loop keeps ticking.     *)
(* next_timer is ordered by due time, so a due timer is not passed over for *)
(* ever: strong fairness of taking it.  No answer is assumed.               *)
Fairness ==
    /\ WF_vars(TimePasses)
    /\ \A t \in TimerIds : SF_vars(TakeTimer(t))
    /\ WF_vars(Handler)
    /\ \A g \in Signals : WF_vars(Farewell(g))
    /\ WF_vars(CheckDeleted \/ AckTick \/ TimeoutTick \/ FreeQueues \/ JoinPool)
    /\ SF_vars(LeaveLoop)

FairSpec == Spec /\ Fairness

(* The panel and Discord answer, and the ready handlers go on.              *)
Answered ==
    /\ \A s \in Shards : SF_vars(Startup(s))
    /\ SF_vars(AckAnswered)
    /\ \A g \in Signals : SF_vars(FarewellAnswered(g))

-----------------------------------------------------------------------------
FlagsOK == called \in BOOLEAN /\ terminating \in BOOLEAN /\ late \in BOOLEAN

StateOK ==
    /\ start \in [Shards -> {"off", "read", "skipped", "fetch", "ack", "arm",
                             "assign", "up"}]
    /\ DOMAIN timers \subseteq TimerIds
    /\ timers \in [DOMAIN timers -> 0 .. AckPeriod]
    /\ stopped \subseteq TimerIds \cup {"none"}
    /\ ackTimer \in Shards \cup {"none"}
    /\ main \in {"loop", "taken", "fire", "hung", "out", "freed"}
    /\ firing \in TimerIds \cup {"none"}
    /\ handler \in {"none", "stop", "post", "arm", "done"}
    /\ host \in {"none", "main", "pool"}
    /\ held \in Locks \cup {"none"}
    /\ acks \in 0 .. MaxAcks
    /\ farewell \in [Signals -> {"none", "posted", "answered", "shut", "over"}]
    /\ code \in {0, 1}
    /\ status \in {"running", "code 0", "code 1"} \cup Signals
    /\ lateTicks \in 0 .. 2

(* Types of all variables.                                                  *)
TypeOK == FlagsOK /\ StateOK

(* stop_timer only leaves a note, and tick_timers reads it before it runs   *)
(* the callback: still, a timer whose handle the signal handler has noted   *)
(* ticks at most once more (timer.cpp:45-98, signal_handler.cpp:6).         *)
AtMostOneLateTick == lateTicks <= 1

(* Once SIGTERM is being handled the process ends, although no request need *)
(* ever be answered: the five second timer sees to it.  This holds for a    *)
(* handler that interrupted a thread holding none of the locks the handler  *)
(* takes itself - timer_guard (timer.cpp:39, 52), the payload's mutex       *)
(* (acknowledge_payload.cpp:6 by way of 129), the queue's in_mutex          *)
(* (queues.cpp:424), the engine's and the DNS cache's, the C library's.  On *)
(* top of one of those it hangs and nothing is promised                     *)
(* (signal_handler.cpp:4-16).                                               *)
StopsAfterSignal ==
    handler # "none" ~> (status # "running" \/ held # "none")

(* The process never ends of itself: only a signal, or an acknowledgement   *)
(* that was refused, leads to any of the ways out; only the token of a bot  *)
(* that is not a central one is held against it; and the failure code       *)
(* belongs to the handler's timeout alone                                   *)
(* (acknowledge_payload.cpp:45-49, signal_handler.cpp:10-15).               *)
EndsForAReason ==
    /\ status # "running" => handler # "none" \/ farewell["signal 24"] # "none"
    /\ farewell["signal 24"] # "none" => ~ TokenValid /\ ~ IsCentral
    /\ status = "code 1" => handler = "done"

(* A bot whose token the panel refuses does not keep running, as long as    *)
(* requests are answered, even if SIGTERM comes in between; unless a lock   *)
(* was left behind under the handler, as above                              *)
(* (acknowledge_payload.cpp:45-49, 110-133).                                *)
InvalidTokenStops ==
    Answered => ((\E s \in Shards : start[s] = "up")
                     ~> (status # "running" \/ held # "none"))

(* acknowledge_payload.h:28: exit is to "send the last acknowledgement      *)
(* before exiting".                                                         *)
FarewellIsLast == ~ late

(* acknowledge_payload.h:29: exit "raises the signal when the               *)
(* acknowledgement is sent"; its callback does not come to nothing.         *)
FarewellRaisesSignal ==
    \A g \in Signals : farewell[g] = "over" => status \in Signals
=============================================================================
