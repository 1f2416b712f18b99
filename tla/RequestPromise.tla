--------------------------- MODULE RequestPromise ---------------------------
(***************************************************************************)
(* What a request queue promises the code that posts to it, without the     *)
(* queue, its threads and its rate limits: what is sent was posted, the     *)
(* handler is called only for a request that was sent, and for each of      *)
(* these it is called in the end.  A request whose connection cannot even   *)
(* be begun is never sent and its handler never called.  Once the queue has *)
(* used a request it has freed, nothing is promised any more.               *)
(***************************************************************************)
CONSTANT Requests

VARIABLES
    posted,   \* requests handed to the queue
    sent,     \* requests a connection was begun for, at least once
    handled,  \* requests whose handler was called, at least once
    broken    \* the behaviour of the program is undefined from here on

vars == <<posted, sent, handled, broken>>

Init ==
    /\ posted  = {}
    /\ sent    = {}
    /\ handled = {}
    /\ broken  = FALSE

Post(r) ==
    /\ ~ broken
    /\ posted' = posted \cup {r}
    /\ UNCHANGED <<sent, handled, broken>>

Send(r) ==
    /\ ~ broken /\ r \in posted
    /\ sent' = sent \cup {r}
    /\ UNCHANGED <<posted, handled, broken>>

Handle(r) ==
    /\ ~ broken /\ r \in sent
    /\ handled' = handled \cup {r}
    /\ UNCHANGED <<posted, sent, broken>>

Break ==
    /\ broken' = TRUE
    /\ UNCHANGED <<posted, sent, handled>>

Next == Break \/ \E r \in Requests : Post(r) \/ Send(r) \/ Handle(r)

Spec == Init /\ [][Next]_vars

(* For finitely many requests: none that is sent is left unhandled.         *)
FairSpec == Spec /\ WF_vars(\E r \in Requests : Handle(r))
=============================================================================
