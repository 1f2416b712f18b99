---------------------------- MODULE RequestQueue ----------------------------
(***************************************************************************)
(* One request queue of the cluster (dpp/queues.cpp): requests are kept     *)
(* sorted by endpoint, sent through an https_client each, and kept aside in *)
(* removals until their handler has been called.                            *)
(*                                                                          *)
(* A thread that posts a request delivers the queue at once, and a timer of *)
(* the event loop delivers it every second.  A delivery copies the raw      *)
(* pointers of all waiting requests under the lock and then goes through    *)
(* this view without it, so the deliveries of several threads overlap.      *)
(***************************************************************************)
EXTENDS Naturals, Sequences

CONSTANTS
    Requests,    \* the requests that are posted
    endpoint,    \* the endpoint of each, a number in the order of the strings
    Posters,     \* pool threads that post
    Refusable,   \* requests whose connection may throw when it is begun
    Metered      \* endpoints whose rate limit may be used up

Loop      == "loop"
Threads   == Posters \cup {Loop}
Endpoints == {endpoint[r] : r \in Requests}

ASSUME QueueAssumption ==
    /\ endpoint \in [Requests -> Nat]
    /\ Loop \notin Posters
    /\ Refusable \subseteq Requests
    /\ Metered \subseteq Endpoints

VARIABLES
    requests_in,  \* the waiting requests
    removals,     \* requests that have been run, until they are swept
    freed,        \* requests that were swept
    limited,      \* endpoints whose bucket has nothing left and must be waited for
    open,         \* requests whose https_client is at work
    tasks,        \* completions of each request in the pool's queue
    pc,           \* where the delivery of each thread stands
    view,         \* requests_view of each thread: what it has yet to go through
    ticking,      \* the event loop is in the queue's timer
    calls,        \* how often the handler of each request was called
    \* history, never read by the queue
    posted,       \* requests that were handed to post_request
    runs,         \* how often each thread began a connection for each request
    shared,       \* requests that were in the views of two threads at one time
    broken        \* a freed request was used: undefined from here on

store   == <<requests_in, removals, freed>>
network == <<open, tasks, calls>>
threads == <<pc, view, ticking>>
history == <<posted, runs, shared, broken>>
vars    == <<store, limited, network, threads, history>>

Elements(s) == {s[i] : i \in DOMAIN s}

(* The completed flag of a request; it is set when the handler returns.     *)
Completed == {r \in Requests : calls[r] > 0}

Init ==
    /\ requests_in = << >>
    /\ removals  = {}
    /\ freed     = {}
    /\ limited   = {}
    /\ open      = {}
    /\ tasks     = [r \in Requests |-> 0]
    /\ pc        = [t \in Threads |-> "idle"]
    /\ view      = [t \in Threads |-> << >>]
    /\ ticking   = FALSE
    /\ posted    = {}
    /\ runs      = [r \in Requests |-> [t \in Threads |-> 0]]
    /\ calls     = [r \in Requests |-> 0]
    /\ shared    = {}
    /\ broken    = FALSE

(* The event loop is between two handlers.                                  *)
LoopIdle == pc[Loop] = "idle" /\ ~ ticking

(* A freed request is read or written: the program may do anything.         *)
UseAfterFree ==
    /\ broken' = TRUE
    /\ UNCHANGED <<store, limited, network, threads, posted, runs, shared>>

-----------------------------------------------------------------------------
(* Where a request goes.  The definitions named Bug... are the slips the    *)
(* properties are tested against; no behaviour of Spec uses them.           *)

InsertAt(s, k, r)  == SubSeq(s, 1, k) \o <<r>> \o SubSeq(s, k + 1, Len(s))
WithoutAt(s, k)    == SubSeq(s, 1, k - 1) \o SubSeq(s, k + 1, Len(s))

(* Bug: push_back.                                                          *)
BugInsertionPoint(s, r, k) == k = Len(s)

(* std::lower_bound: before the first request of the same endpoint.         *)
InsertionPoint(s, r, k) ==
    /\ \A i \in 1 .. k : endpoint[s[i]] < endpoint[r]
    /\ \A i \in k + 1 .. Len(s) : endpoint[s[i]] >= endpoint[r]

(* post_request: insert under the lock, then deliver on this thread.        *)
Post(t) ==
    /\ ~ broken
    /\ pc[t] = "idle" /\ (t = Loop => LoopIdle)
    /\ \E r \in Requests \ posted : \E k \in 0 .. Len(requests_in) :
          /\ InsertionPoint(requests_in, r, k)
          /\ requests_in' = InsertAt(requests_in, k, r)
          /\ posted' = posted \cup {r}
    /\ pc' = [pc EXCEPT ![t] = "view"]
    /\ UNCHANGED <<removals, freed, limited, network, view, ticking, runs, shared, broken>>

(* tick_and_deliver_requests copies the pointers under the shared lock.     *)
Copy(t) ==
    /\ view' = [view EXCEPT ![t] = requests_in]
    /\ pc'   = [pc EXCEPT ![t] = IF requests_in = << >> THEN "idle" ELSE "deliver"]
    /\ shared' = shared \cup {r \in Elements(requests_in) :
                                 \E u \in Threads \ {t} : r \in Elements(view[u])}
    /\ UNCHANGED <<store, limited, network, posted, runs, broken>>

(* The thread that posted begins to deliver.                                *)
View(t) == ~ broken /\ pc[t] = "view" /\ Copy(t) /\ UNCHANGED ticking

(* The timer of the queue begins with a delivery.                           *)
Tick == ~ broken /\ LoopIdle /\ ticking' = TRUE /\ Copy(Loop)

(* Bug: an exhausted bucket ends the delivery only after its request ran.   *)
BugDeliver(t) ==
    /\ ~ broken /\ pc[t] = "deliver" /\ Head(view[t]) \notin freed
    /\ open' = open \cup {Head(view[t])}
    /\ runs'   = [runs EXCEPT ![Head(view[t])][t] = @ + 1]
    /\ IF endpoint[Head(view[t])] \in limited
       THEN view' = [view EXCEPT ![t] = << >>] /\ pc' = [pc EXCEPT ![t] = "idle"]
       ELSE pc' = [pc EXCEPT ![t] = "remove"] /\ UNCHANGED view
    /\ UNCHANGED <<store, limited, tasks, calls, ticking, posted, shared, broken>>

(* An exhausted bucket ends the delivery of the whole view.                 *)
Wait(t) ==
    /\ endpoint[Head(view[t])] \in limited
    /\ view' = [view EXCEPT ![t] = << >>]
    /\ pc'   = [pc EXCEPT ![t] = "idle"]
    /\ UNCHANGED <<store, limited, network, ticking, history>>

(* http_request::run: a new https_client takes the place of an earlier one, *)
(* or its constructor throws and nothing will ever be completed.            *)
Run(t) ==
    /\ endpoint[Head(view[t])] \notin limited
    /\ pc' = [pc EXCEPT ![t] = "remove"]
    /\ \/ /\ open' = open \cup {Head(view[t])}
          /\ runs'   = [runs EXCEPT ![Head(view[t])][t] = @ + 1]
       \/ /\ Head(view[t]) \in Refusable
          /\ UNCHANGED <<open, runs>>
    /\ UNCHANGED <<store, limited, tasks, calls, view, ticking, posted, shared, broken>>

(* The next request of the view, without the lock.                          *)
Deliver(t) ==
    /\ ~ broken
    /\ pc[t] = "deliver"
    /\ IF Head(view[t]) \in freed THEN UseAfterFree ELSE Wait(t) \/ Run(t)

(* Bug: what the iterator points to is erased, without keeping it.          *)
BugDropOut(r) ==
    /\ IF r \in Elements(requests_in)
       THEN \E k \in DOMAIN requests_in :
               requests_in[k] = r /\ requests_in' = WithoutAt(requests_in, k)
       ELSE UNCHANGED requests_in
    /\ UNCHANGED removals

(* Bug: the request stays in requests_in.                                   *)
BugTakeOut(r) == removals' = removals \cup {r} /\ UNCHANGED requests_in

(* The owned pointer moves from requests_in to removals, if it is there.    *)
TakeOut(r) ==
    IF r \in Elements(requests_in)
    THEN /\ \E k \in DOMAIN requests_in :
               requests_in[k] = r /\ requests_in' = WithoutAt(requests_in, k)
         /\ removals' = removals \cup {r}
    ELSE UNCHANGED <<requests_in, removals>>

Remove(t) ==
    /\ ~ broken
    /\ pc[t] = "remove"
    /\ IF Head(view[t]) \in freed
       THEN UseAfterFree
       ELSE /\ TakeOut(Head(view[t]))
            /\ view' = [view EXCEPT ![t] = Tail(@)]
            /\ pc'   = [pc EXCEPT ![t] = IF Len(view[t]) = 1 THEN "idle" ELSE "deliver"]
            /\ UNCHANGED <<freed, limited, network, ticking, history>>

(* Bug: requests are swept as soon as they have been run.                   *)
BugSwept == removals

(* What the timer erases whenever the time is a multiple of 90 seconds.     *)
Swept == removals \cap Completed

(* The rest of the timer: every 90 seconds the completed requests are       *)
(* erased from removals, and their clients with them.                       *)
Sweep ==
    /\ ~ broken
    /\ ticking /\ pc[Loop] = "idle"
    /\ \E due \in {{}, Swept} :
          /\ removals' = removals \ due
          /\ freed'    = freed \cup due
          /\ open'     = open \ due
    /\ ticking' = FALSE
    /\ UNCHANGED <<requests_in, limited, tasks, calls, pc, view, history>>

-----------------------------------------------------------------------------
(* Bug: an answer that uses up the bucket completes nothing.                *)
BugAnswer(r) ==
    /\ ~ broken
    /\ LoopIdle /\ r \in open
    /\ open' = open \ {r}
    /\ \/ limited' = limited \ {endpoint[r]} /\ tasks' = [tasks EXCEPT ![r] = @ + 1]
       \/ limited' = limited \cup ({endpoint[r]} \cap Metered) /\ UNCHANGED tasks
    /\ UNCHANGED <<store, calls, threads, history>>

(* The client of a request is through, with an answer or without one: the   *)
(* event loop sets the bucket of the endpoint (an answer without rate limit *)
(* headers leaves nothing remaining) and queues the completion.             *)
Answer(r) ==
    /\ ~ broken
    /\ LoopIdle /\ r \in open
    /\ open'    = open \ {r}
    /\ limited' \in {limited \ {endpoint[r]}, limited \cup ({endpoint[r]} \cap Metered)}
    /\ tasks'   = [tasks EXCEPT ![r] = @ + 1]
    /\ UNCHANGED <<store, calls, threads, history>>

(* Bug: the completion is run by two pool threads.                          *)
BugComplete(r) ==
    /\ ~ broken
    /\ calls[r] < 2
    /\ tasks' = [tasks EXCEPT ![r] = @ - 1]
    /\ calls' = [calls EXCEPT ![r] = @ + 1]
    /\ UNCHANGED <<store, limited, open, threads, history>>

(* A pool thread calls the handler and sets the flag.                       *)
Complete(r) ==
    /\ ~ broken
    /\ tasks[r] > 0
    /\ IF r \in freed
       THEN UseAfterFree
       ELSE /\ tasks' = [tasks EXCEPT ![r] = @ - 1]
            /\ calls' = [calls EXCEPT ![r] = @ + 1]
            /\ UNCHANGED <<store, limited, open, threads, history>>

(* Bug: the time is compared the wrong way round.                           *)
BugTimeUp(e) ==
    /\ ~ broken
    /\ e \notin limited
    /\ limited' = limited \ {e}
    /\ UNCHANGED <<store, network, threads, history>>

(* The time of a bucket is up.                                              *)
TimeUp(e) ==
    /\ ~ broken
    /\ e \in limited
    /\ limited' = limited \ {e}
    /\ UNCHANGED <<store, network, threads, history>>

Delivery(t) == View(t) \/ Deliver(t) \/ Remove(t)

Next ==
    \/ \E t \in Threads : Post(t) \/ Delivery(t)
    \/ Tick \/ Sweep
    \/ \E r \in Requests : Answer(r) \/ Complete(r)
    \/ \E e \in Metered : TimeUp(e)

Spec == Init /\ [][Next]_vars

(* The threads are scheduled, the event loop ticks and handles its sockets  *)
(* in between, clocks run, and every client completes (HttpsClient).        *)
Fairness ==
    /\ \A t \in Threads : WF_vars(Delivery(t))
    /\ WF_vars(Tick) /\ WF_vars(Sweep)
    /\ SF_vars(\E r \in Requests : Answer(r))
    /\ WF_vars(\E r \in Requests : Complete(r))
    /\ WF_vars(\E e \in Metered : TimeUp(e))

FairSpec == Spec /\ Fairness

-----------------------------------------------------------------------------
(* Types of all variables; a thread that is delivering has something to     *)
(* deliver.                                                                 *)
TypeOK ==
    /\ requests_in \in Seq(Requests)
    /\ removals \subseteq Requests /\ freed \subseteq Requests /\ posted \subseteq Requests
    /\ limited \subseteq Metered
    /\ open \subseteq Requests
    /\ tasks \in [Requests -> Nat]
    /\ pc \in [Threads -> {"idle", "view", "deliver", "remove"}]
    /\ view \in [Threads -> Seq(Requests)]
    /\ \A t \in Threads : pc[t] \in {"deliver", "remove"} <=> view[t] # << >>
    /\ ticking \in BOOLEAN /\ broken \in BOOLEAN
    /\ runs \in [Requests -> [Threads -> Nat]]
    /\ calls \in [Requests -> Nat]
    /\ shared \subseteq Requests

(* lower_bound and equal_range search a sorted sequence: whatever threads   *)
(* insert and remove in between, the queue is sorted by endpoint.           *)
(* (queues.cpp:398, 426).                                                   *)
QueueSorted ==
    \A i, j \in DOMAIN requests_in :
        i < j => endpoint[requests_in[i]] <= endpoint[requests_in[j]]

(* Each request that was handed to post_request has one owner at any time:  *)
(* it is in the queue once, in removals, or freed.  The overlapping         *)
(* insertions, removals and sweeps of several threads neither drop a        *)
(* request nor give it two owners (queues.cpp:303-312, 393-408, 426-427).   *)
OneOwner ==
    /\ posted = Elements(requests_in) \cup removals \cup freed
    /\ \A i, j \in DOMAIN requests_in : i # j => requests_in[i] # requests_in[j]
    /\ Elements(requests_in) \cap removals = {}
    /\ (Elements(requests_in) \cup removals) \cap freed = {}

(* However deliveries overlap, no thread sends a request twice: each takes  *)
(* it out of the queue before it looks again (queues.cpp:361-409).          *)
OncePerThread == \A r \in Requests, t \in Threads : runs[r][t] <= 1

(* A request is sent twice, and its handler called twice, only when two     *)
(* threads had it in their views at one time (queues.cpp:347-389).          *)
OnceUnlessShared ==
    \A r \in Requests \ shared :
        /\ calls[r] <= 1
        /\ \A t, u \in Threads : runs[r][t] > 0 /\ runs[r][u] > 0 => t = u

(* A freed request is used only after such an overlap: the sweep waits for  *)
(* the handler, and a request on its own is in no view by then              *)
(* (queues.cpp:300-313, 361-408, 263-274).                                  *)
SafeUnlessShared == broken => shared # {}

(* The queue implements the promise, with its liveness: every request that  *)
(* is sent gets its handler called (queues.cpp:339-431).                    *)
Promise == INSTANCE RequestPromise WITH
    posted  <- posted,
    sent    <- {r \in Requests : \E t \in Threads : runs[r][t] > 0},
    handled <- {r \in Requests : calls[r] > 0}

ImplementsPromise == Promise!FairSpec

(* With finitely many requests all are delivered in the end, though an      *)
(* exhausted bucket holds up everything behind it and a later request of    *)
(* the same endpoint goes first (queues.cpp:366-384, 426).                  *)
QueueDrains == []<>(requests_in = << >> \/ broken)
=============================================================================
