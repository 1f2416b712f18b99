-------------------------------- MODULE Shard --------------------------------
(***************************************************************************)
(* The gateway connections of the cluster (dpp/discordclient.cpp,           *)
(* wsclient.cpp and the reconnect monitor of cluster.cpp): each shard keeps *)
(* a websocket to Discord, over which the events arrive, and a connection   *)
(* that is lost is replaced by a new object that resumes the session.       *)
(*                                                                          *)
(* Time is in seconds, as in the code.  The event loop runs every timer in  *)
(* the second it is due, timers of one second in any order.                 *)
(***************************************************************************)
EXTENDS Integers, Sequences, Functions

CONSTANTS
    NumShards,           \* numshards
    RECONNECT_INTERVAL,  \* 5
    MonitorPeriod,       \* the period of the reconnect monitor: 5
    ConnectTimeout,      \* of a websocket that is not connected: 5
    ConnectRetry,        \* when connect() is tried again, in seconds: 3
    HeartbeatSeconds,    \* heartbeat_interval in seconds; Discord's is 41.25
    MsPerSecond,         \* 1000
    MaxSessions, MaxEvents, MaxWire   \* bounds of what Discord does, for each shard

ASSUME ShardAssumption ==
    /\ {NumShards, RECONNECT_INTERVAL, MonitorPeriod, ConnectTimeout, ConnectRetry,
        HeartbeatSeconds, MsPerSecond} \subseteq Nat \ {0}
    /\ ConnectRetry < ConnectTimeout
    /\ {MaxSessions, MaxEvents} \subseteq [0 .. NumShards - 1 -> Nat]
    /\ MaxWire \in [0 .. NumShards - 1 -> Nat \ {0}]
    /\ \A s \in 0 .. NumShards - 1 : MaxSessions[s] # 0 => MaxEvents[s] # 0

Shards == 0 .. NumShards - 1      \* ids: a map goes through them in this order
None   == -1

(* The limit of one_second_timer compares seconds with milliseconds.        *)
AckLimit == 2 * HeartbeatSeconds * MsPerSecond

Frame(op, session, seq) == [op |-> op, session |-> session, seq |-> seq]
Ops == {"hello", "ready", "resumed", "event", "invalid", "ack", "leave"}

VARIABLES
    conn,           \* of the shard's object: connecting, connected, closed; stranded
                    \* when a retry of connect() got no socket; ended when the server
                    \* has said within TLS that it sends no more; dead when its socket
                    \* was closed behind its back; none without an object
    age,            \* seconds since the object was made, up to ConnectTimeout
    ready, sessionid, last_seq,
    ack,            \* seconds since last_heartbeat_ack, up to AckLimit + 1
    identify,       \* seconds until the delayed identify of the object, or None
    stray,          \* the same, of objects that were deleted
    reconnections,  \* shards that wait for reconnection, with the seconds they wait
    monitor,        \* seconds until the monitor runs
    since,          \* seconds since last_identify, up to RECONNECT_INTERVAL
    crashed,        \* a null pointer or freed object was used
    \* Discord's side
    wire,           \* frames that the shard has not handled
    sent,           \* frames that Discord has not handled
    session, latest,\* the session Discord holds, and its latest event
    attached,       \* the connection belongs to that session
    issued,         \* sessions so far
    \* history
    heard,          \* the last event handed to its handler, as a frame
    unread,         \* events dropped unparsed, that no resume asked for again:
                    \* their sessions and numbers
    kept            \* the session that a READY gave the shard, until Discord told it
                    \* to forget it

object  == <<conn, age, ready, sessionid, last_seq, ack, identify>>
cluster == <<stray, reconnections, monitor, since, crashed>>
discord == <<session, latest, attached, issued>>
history == <<heard, unread, kept>>
vars    == <<object, cluster, wire, sent, discord, history>>

Init ==
    /\ conn = [s \in Shards |-> "connecting"] /\ age = [s \in Shards |-> 0]
    /\ ready = [s \in Shards |-> FALSE]
    /\ sessionid = [s \in Shards |-> 0] /\ last_seq = [s \in Shards |-> 0]
    /\ ack = [s \in Shards |-> 0] /\ identify = [s \in Shards |-> None]
    /\ stray = {} /\ reconnections = << >> /\ monitor \in 1 .. MonitorPeriod
    /\ since = RECONNECT_INTERVAL /\ crashed = FALSE
    /\ wire = [s \in Shards |-> << >>] /\ sent = [s \in Shards |-> << >>]
    /\ session = [s \in Shards |-> 0] /\ latest = [s \in Shards |-> 0]
    /\ attached = [s \in Shards |-> FALSE] /\ issued = [s \in Shards |-> 0]
    /\ heard = [s \in Shards |-> Frame("hello", 0, 0)]
    /\ unread = [s \in Shards |-> {}] /\ kept = [s \in Shards |-> 0]

With(f, S, v) == [x \in DOMAIN f |-> IF x \in S THEN v ELSE f[x]]

(* The list of reconnections with those of S put on it, or put off again.   *)
Listed(list, S) ==
    [s \in DOMAIN list \union S |-> IF s \in S THEN RECONNECT_INTERVAL ELSE list[s]]

-----------------------------------------------------------------------------
(* Closing a connection: websocket_client::close with on_disconnect, for    *)
(* all shards of S.  What is on the way in either direction is lost.        *)
Close(S) ==
    /\ conn' = With(conn, S, "closed")
    /\ reconnections' = Listed(reconnections, S)
    /\ wire' = With(wire, S, << >>)
    /\ sent' = With(sent, S, << >>)
    /\ attached' = With(attached, S, FALSE)

StaysOpen == UNCHANGED <<conn, reconnections, attached>>

(* The server has accepted the websocket, and says hello.                   *)
Connected(s) ==
    /\ ~ crashed /\ conn[s] = "connecting"
    /\ conn' = [conn EXCEPT ![s] = "connected"]
    /\ wire' = [wire EXCEPT ![s] = <<Frame("hello", 0, 0)>>]
    /\ UNCHANGED <<age, ready, sessionid, last_seq, ack, identify, cluster, sent, discord,
                   history>>

(* An error on the socket, or a connection that is refused or reset.        *)
Break(s) ==
    /\ ~ crashed /\ conn[s] \in {"connecting", "connected", "ended"}
    /\ Close({s})
    /\ UNCHANGED <<age, ready, sessionid, last_seq, ack, identify, stray, monitor, since,
                   crashed, session, latest, issued, history>>

(* The server ends its side of the TLS session, after all it had to send:   *)
(* SSL_shutdown, and nothing else.                                          *)
CloseNotify(s) ==
    /\ ~ crashed /\ conn[s] = "connected" /\ wire[s] = << >>
    /\ conn' = [conn EXCEPT ![s] = "ended"]
    /\ sent' = [sent EXCEPT ![s] = << >>]
    /\ attached' = [attached EXCEPT ![s] = FALSE]
    /\ UNCHANGED <<age, ready, sessionid, last_seq, ack, identify, cluster, wire, session,
                   latest, issued, history>>

-----------------------------------------------------------------------------
(* handle_frame.                                                            *)
Handling(s) ==
    /\ ~ crashed /\ conn[s] = "connected" /\ wire[s] # << >>
    /\ UNCHANGED <<age, stray, monitor, crashed, session, latest, issued>>

(* Bug: the difference is taken the wrong way round.                        *)
BugDelay == since - RECONNECT_INTERVAL

(* A frame that cannot be parsed is dropped, and the connection kept.       *)
Unparsed(s) ==
    /\ Handling(s)
    /\ wire' = [wire EXCEPT ![s] = Tail(@)]
    /\ unread' = IF Head(wire[s]).op \notin {"ready", "event"} THEN unread
                 ELSE [unread EXCEPT ![s] =
                          @ \union {<<Head(wire[s]).session, Head(wire[s]).seq>>}]
    /\ StaysOpen
    /\ UNCHANGED <<ready, sessionid, last_seq, ack, identify, sent, since, heard, kept>>

(* How long the next identify has to wait.                                  *)
Delay == RECONNECT_INTERVAL - since

(* hello, and invalid_session after it has forgotten the session: resume,   *)
(* which asks for what comes after last_seq, or identify, now or when       *)
(* RECONNECT_INTERVAL has passed since the last.                            *)
Hello(s) ==
    /\ Handling(s)
    /\ Head(wire[s]).op \in {"hello", "invalid"}
    /\ LET forget == Head(wire[s]).op = "invalid" IN
          /\ sessionid' = IF forget THEN [sessionid EXCEPT ![s] = 0] ELSE sessionid
          /\ last_seq'  = IF forget THEN [last_seq EXCEPT ![s] = 0] ELSE last_seq
          /\ kept'      = IF forget THEN [kept EXCEPT ![s] = 0] ELSE kept
    /\ ack' = [ack EXCEPT ![s] = 0]
    /\ \/ /\ last_seq'[s] # 0 /\ sessionid'[s] # 0
          /\ sent' = [sent EXCEPT ![s] =
                        Append(@, Frame("resume", sessionid'[s], last_seq'[s]))]
          /\ unread' = [unread EXCEPT ![s] = {u \in @ : u[2] <= last_seq'[s]}]
          /\ UNCHANGED <<identify, since>>
       \/ /\ last_seq'[s] = 0 \/ sessionid'[s] = 0
          /\ UNCHANGED unread
          /\ IF since < RECONNECT_INTERVAL
             THEN /\ identify' = [identify EXCEPT ![s] = Delay]
                  /\ UNCHANGED <<sent, since>>
             ELSE /\ sent' = [sent EXCEPT ![s] = Append(@, Frame("identify", 0, 0))]
                  /\ since' = 0
                  /\ UNCHANGED identify
    /\ wire' = [wire EXCEPT ![s] = Tail(@)]
    /\ StaysOpen
    /\ UNCHANGED <<ready, heard>>

(* READY gives the shard its session, READY and RESUMED make it ready.      *)
Noted(s) ==
    IF Head(wire[s]).op = "ready"
    THEN /\ sessionid' = [sessionid EXCEPT ![s] = Head(wire[s]).session]
         /\ kept' = [kept EXCEPT ![s] = Head(wire[s]).session]
    ELSE UNCHANGED <<sessionid, kept>>

GetsReady(s) == ready' = [ready EXCEPT ![s] = @ \/ Head(wire[s]).op # "event"]

Handler(s) ==
    /\ Handling(s)
    /\ Head(wire[s]).op \in {"ready", "resumed", "event"}
    /\ heard' = IF Head(wire[s]).op = "resumed" THEN heard
                ELSE [heard EXCEPT ![s] = Head(wire[s])]
    /\ UNCHANGED <<ack, identify, since, unread>>

Returns(s) ==
    /\ Noted(s) /\ GetsReady(s)
    /\ wire' = [wire EXCEPT ![s] = Tail(@)] /\ StaysOpen /\ UNCHANGED sent

(* It throws, before, between or after what it does to the shard.           *)
Throws(s) ==
    /\ \/ UNCHANGED <<sessionid, kept, ready>>
       \/ Noted(s) /\ (GetsReady(s) \/ UNCHANGED ready)
    /\ Close({s})

(* Bug: the number is noted when the handler has returned.                  *)
BugDispatch(s) ==
    /\ Handler(s)
    /\ \/ Returns(s) /\ last_seq' = [last_seq EXCEPT ![s] = Head(wire[s]).seq]
       \/ Throws(s) /\ UNCHANGED last_seq

(* A dispatch: its number is noted before its handler is called, which may  *)
(* throw and so close the connection.                                       *)
Dispatch(s) ==
    /\ Handler(s)
    /\ last_seq' = [last_seq EXCEPT ![s] = Head(wire[s]).seq]
    /\ Returns(s) \/ Throws(s)

HeartbeatAck(s) ==
    /\ Handling(s)
    /\ Head(wire[s]).op = "ack"
    /\ ack' = [ack EXCEPT ![s] = 0]
    /\ wire' = [wire EXCEPT ![s] = Tail(@)]
    /\ StaysOpen
    /\ UNCHANGED <<ready, sessionid, last_seq, identify, sent, since, history>>

(* Discord asks for a reconnection, or sends a close frame.                 *)
Disconnect(s) ==
    /\ Handling(s)
    /\ Head(wire[s]).op = "leave"
    /\ Close({s})
    /\ UNCHANGED <<ready, sessionid, last_seq, ack, identify, since, history>>

-----------------------------------------------------------------------------
(* Timers.                                                                  *)

(* The delayed identify: sent if the connection still stands.               *)
IdentifyTimer(s) ==
    /\ ~ crashed /\ identify[s] = 0
    /\ identify' = [identify EXCEPT ![s] = None]
    /\ since' = 0
    /\ sent' = IF conn[s] # "connected" THEN sent
               ELSE [sent EXCEPT ![s] = Append(@, Frame("identify", 0, 0))]
    /\ UNCHANGED <<conn, age, ready, sessionid, last_seq, ack, stray, reconnections,
                   monitor, crashed, wire, discord, history>>

(* The delayed identify of an object that is gone.                          *)
StrayTimer ==
    /\ ~ crashed /\ 0 \in stray
    /\ crashed' = TRUE
    /\ UNCHANGED <<object, stray, reconnections, monitor, since, wire, sent, discord,
                   history>>

(* Bug: the comparison of the times is reversed.                            *)
BugDue == {s \in DOMAIN reconnections : reconnections[s] > 0}

Due == {s \in DOMAIN reconnections : reconnections[s] = 0}

(* Bug: the shard is not taken off the list.                                *)
BugTaken(s) == reconnections

Taken(s) == Restrict(reconnections, DOMAIN reconnections \ {s})

(* Bug: the sequence number is not copied to the new object.                *)
BugRenew(s) ==
    /\ conn' = [conn EXCEPT ![s] = "connecting"]
    /\ age' = [age EXCEPT ![s] = 0]
    /\ ready' = [ready EXCEPT ![s] = FALSE]
    /\ ack' = [ack EXCEPT ![s] = 0]
    /\ last_seq' = [last_seq EXCEPT ![s] = 0]
    /\ reconnections' = Taken(s)
    /\ UNCHANGED <<sessionid, crashed>>

(* A new object takes the place of the old one, with its session; the old   *)
(* one is deleted, but not its timer.                                       *)
Renew(s) ==
    /\ conn' = [conn EXCEPT ![s] = "connecting"]
    /\ age' = [age EXCEPT ![s] = 0]
    /\ ready' = [ready EXCEPT ![s] = FALSE]
    /\ ack' = [ack EXCEPT ![s] = 0]
    /\ reconnections' = Taken(s)
    /\ UNCHANGED <<sessionid, last_seq, crashed>>

(* Its constructor throws: there is no object any more.                     *)
RenewFails(s) ==
    /\ conn' = [conn EXCEPT ![s] = "none"]
    /\ sessionid' = [sessionid EXCEPT ![s] = 0]
    /\ last_seq' = [last_seq EXCEPT ![s] = 0]
    /\ reconnections' = Listed(Taken(s), {s})
    /\ UNCHANGED <<age, ready, ack, crashed>>

(* The monitor reconnects the first shard that is due; it reads the old     *)
(* object before it looks whether there is one.                             *)
Monitor ==
    /\ ~ crashed /\ monitor = 0
    /\ monitor' = MonitorPeriod
    /\ \/ Due = {} /\ UNCHANGED <<object, stray, reconnections, crashed>>
       \/ \E s \in Due :
             /\ \A t \in Due : s <= t
             /\ IF conn[s] = "none"
                THEN crashed' = TRUE /\ UNCHANGED <<object, stray, reconnections>>
                ELSE /\ Renew(s) \/ RenewFails(s)
                     /\ identify' = [identify EXCEPT ![s] = None]
                     /\ stray' = stray \union ({identify[s]} \ {None})
    /\ UNCHANGED <<since, wire, sent, discord, history>>

Older(n, most) == IF n < most THEN n + 1 ELSE n
Sooner(n)      == IF n > 0 THEN n - 1 ELSE n

(* A second passes, with the timer of every connection.  connect() is tried *)
(* again, and without a socket, which one that fails may leave behind, no   *)
(* time limit applies; any other connection that does not get connected is  *)
(* closed.  The socket of one without acks is closed, but nothing else is   *)
(* done about it.                                                           *)
Second ==
    /\ ~ crashed /\ monitor # 0 /\ 0 \notin stray /\ \A s \in Shards : identify[s] # 0
    /\ monitor' = monitor - 1
    /\ stray'   = {n - 1 : n \in stray}
    /\ since'   = Older(since, RECONNECT_INTERVAL)
    /\ identify' = [s \in Shards |-> Sooner(identify[s])]
    /\ age' = [s \in Shards |-> Older(age[s], ConnectTimeout)]
    /\ ack' = [s \in Shards |-> Older(ack[s], AckLimit + 1)]
    /\ LET late == {s \in Shards : conn[s] = "connecting" /\ age'[s] >= ConnectTimeout}
           slow == {s \in Shards : conn[s] = "connecting" /\ age'[s] = ConnectRetry}
           mute == {s \in Shards : /\ conn[s] \in {"connected", "ended"}
                                   /\ ready[s] /\ ack'[s] > AckLimit}
           lost == late \union mute
       IN  /\ \E bare \in SUBSET slow :
                 conn' = With(With(With(conn, late, "closed"), mute, "dead"), bare, "stranded")
           /\ reconnections' =
                  Listed([s \in DOMAIN reconnections |-> Sooner(reconnections[s])], late)
           /\ wire' = With(wire, lost, << >>)
           /\ sent' = With(sent, lost, << >>)
           /\ attached' = With(attached, lost, FALSE)
    /\ UNCHANGED <<ready, sessionid, last_seq, crashed, session, latest, issued, history>>

-----------------------------------------------------------------------------
(* Discord.                                                                 *)
Send(s, frames) ==
    /\ Len(wire[s]) + Len(frames) <= MaxWire[s]
    /\ wire' = [wire EXCEPT ![s] = @ \o frames]

(* An identify begins a session; an early one may be refused.               *)
Identified(s) ==
    /\ ~ crashed /\ sent[s] # << >> /\ Head(sent[s]).op = "identify"
    /\ sent' = [sent EXCEPT ![s] = Tail(@)]
    /\ \/ /\ issued[s] < MaxSessions[s]
          /\ issued'   = [issued EXCEPT ![s] = @ + 1]
          /\ session'  = [session EXCEPT ![s] = issued[s] + 1]
          /\ latest'   = [latest EXCEPT ![s] = 1]
          /\ attached' = [attached EXCEPT ![s] = TRUE]
          /\ Send(s, <<Frame("ready", issued[s] + 1, 1)>>)
       \/ Send(s, <<Frame("invalid", 0, 0)>>) /\ UNCHANGED discord
    /\ UNCHANGED <<object, cluster, history>>

(* The events that were missed follow a resume, if the session is held.     *)
Resumed(s) ==
    /\ ~ crashed /\ sent[s] # << >> /\ Head(sent[s]).op = "resume"
    /\ sent' = [sent EXCEPT ![s] = Tail(@)]
    /\ IF Head(sent[s]).session = session[s]
       THEN /\ attached' = [attached EXCEPT ![s] = TRUE]
            /\ Send(s, [i \in 1 .. latest[s] - Head(sent[s]).seq |->
                           Frame("event", session[s], Head(sent[s]).seq + i)]
                       \o <<Frame("resumed", session[s], latest[s])>>)
       ELSE Send(s, <<Frame("invalid", 0, 0)>>) /\ UNCHANGED attached
    /\ UNCHANGED <<object, cluster, session, latest, issued, history>>

Event(s) ==
    /\ ~ crashed /\ session[s] # 0 /\ latest[s] < MaxEvents[s]
    /\ latest' = [latest EXCEPT ![s] = @ + 1]
    /\ IF attached[s] THEN Send(s, <<Frame("event", session[s], latest[s] + 1)>>)
                      ELSE UNCHANGED wire
    /\ UNCHANGED <<object, cluster, sent, session, attached, issued, history>>

(* Discord may answer the heartbeats, which only a ready shard sends.       *)
Acknowledge(s) ==
    /\ ~ crashed /\ attached[s] /\ ready[s] /\ conn[s] = "connected" /\ wire[s] = << >>
    /\ Send(s, <<Frame("ack", 0, 0)>>)
    /\ UNCHANGED <<object, cluster, sent, discord, history>>

(* Discord drops a session, and says so on its connection if it has one.    *)
(* What it says, it may also say of a session that could be resumed.        *)
DropSession(s) ==
    /\ ~ crashed /\ session[s] # 0
    /\ session' = [session EXCEPT ![s] = 0] \/ (attached[s] /\ UNCHANGED session)
    /\ attached' = [attached EXCEPT ![s] = FALSE]
    /\ IF attached[s] THEN Send(s, <<Frame("invalid", 0, 0)>>) ELSE UNCHANGED wire
    /\ UNCHANGED <<object, cluster, sent, latest, issued, history>>

AskToLeave(s) ==
    /\ ~ crashed /\ conn[s] = "connected"
    /\ Send(s, <<Frame("leave", 0, 0)>>)
    /\ UNCHANGED <<object, cluster, sent, discord, history>>

Handle(s) ==
    Hello(s) \/ Dispatch(s) \/ HeartbeatAck(s) \/ Disconnect(s) \/ Unparsed(s)
Timers    == StrayTimer \/ Monitor \/ \E s \in Shards : IdentifyTimer(s)
Discord(s) == Identified(s) \/ Resumed(s) \/ Event(s) \/ Acknowledge(s)
              \/ DropSession(s) \/ AskToLeave(s)

Next ==
    \/ Timers \/ Second
    \/ \E s \in Shards :
          Connected(s) \/ Break(s) \/ CloseNotify(s) \/ Handle(s) \/ Discord(s)

Spec == Init /\ [][Next]_vars

(* The event loop handles what arrives and runs its timers.  Discord and    *)
(* the network owe nothing.                                                 *)
FairSpec ==
    /\ Spec /\ WF_vars(Timers) /\ WF_vars(Second)
    /\ \A s \in Shards : WF_vars(Handle(s))

-----------------------------------------------------------------------------
Frames(s) == [op : Ops, session : 0 .. MaxSessions[s], seq : 0 .. MaxEvents[s]]

(* Types of all variables.                                                  *)
TypeOK ==
    /\ conn \in [Shards -> {"none", "connecting", "connected", "closed", "stranded",
                            "ended", "dead"}]
    /\ age \in [Shards -> 0 .. ConnectTimeout]
    /\ {ready, attached} \subseteq [Shards -> BOOLEAN]
    /\ \A s \in Shards :
          /\ {sessionid[s], session[s], issued[s], kept[s]} \subseteq 0 .. MaxSessions[s]
          /\ {last_seq[s], latest[s]} \subseteq 0 .. MaxEvents[s]
          /\ wire[s] \in Seq(Frames(s)) /\ Len(wire[s]) <= MaxWire[s]
          /\ Len(sent[s]) <= 1
          /\ heard[s] \in Frames(s)
          /\ unread[s] \subseteq (0 .. MaxSessions[s]) \X (0 .. MaxEvents[s])
    /\ ack \in [Shards -> 0 .. AckLimit + 1]
    /\ identify \in [Shards -> None .. RECONNECT_INTERVAL]
    /\ stray \subseteq 0 .. RECONNECT_INTERVAL
    /\ DOMAIN reconnections \subseteq Shards
    /\ \A s \in DOMAIN reconnections : reconnections[s] \in 0 .. RECONNECT_INTERVAL
    /\ monitor \in 0 .. MonitorPeriod
    /\ since \in 0 .. RECONNECT_INTERVAL
    /\ crashed \in BOOLEAN

(* A shard waits for reconnection exactly while close() has ended its       *)
(* connection or it has no object: one that is being made or stands is      *)
(* never replaced, and one that was closed stays on the list until it is.   *)
(* Connections that are lost without close() are not on the list: the       *)
(* stranded, ended and dead ones (discordclient.cpp:118-127,                *)
(* cluster.cpp:224-276).                                                    *)
WaitsIffClosed ==
    ~ crashed => DOMAIN reconnections = {s \in Shards : conn[s] \in {"closed", "none"}}

(* The event handlers get each event of a session once and in order, also   *)
(* when connections are lost between or under them and resumed; only one    *)
(* that could not be parsed may be missing, and it is not when a resume     *)
(* asked for it again (discordclient.cpp:178-241, cluster.cpp:233-244).     *)
EventsInOrder ==
    [][\A s \in Shards :
          Dispatch(s) /\ Head(wire[s]).op # "resumed" =>
             LET frame == Head(wire[s])
                 last  == IF frame.session = heard[s].session THEN heard[s].seq ELSE 0
             IN  /\ last < frame.seq
                 /\ \A n \in last + 1 .. frame.seq - 1 :
                       <<frame.session, n>> \in unread[s]]_vars

(* A session that a READY gave the shard is resumed while Discord holds it, *)
(* and not given up for a new one; unless the constructor of the new        *)
(* connection failed, when the process ends instead, or an invalid_session  *)
(* came, after which the shard identifies itself whatever Discord says of   *)
(* the session (ready.cpp:44, discordclient.cpp:211-276,                    *)
(* cluster.cpp:233-247).                                                    *)
SessionKept ==
    [][\A s \in Shards : session[s] # 0 /\ session'[s] > session[s] =>
          kept[s] # session[s]]_vars

(* When the first shard is on the list it gets a new object, whatever       *)
(* happens to the others, which may have to wait for it; or the process     *)
(* ends, because the monitor found a shard without an object or a delayed   *)
(* identify outlived its own (cluster.cpp:224-277).                         *)
FirstReplaced ==
    0 \in DOMAIN reconnections ~> conn[0] = "connecting" \/ crashed

(* discordclient.cpp:413: "Miss two ACKS, forces a reconnection": a         *)
(* connection whose acks stay out is closed for good and replaced.          *)
MissedAcksReconnect ==
    \A s \in Shards :
        conn[s] \in {"connected", "ended"} /\ ready[s] /\ ack[s] > 2 * HeartbeatSeconds
            ~> ack[s] = 0 \/ s \in DOMAIN reconnections \/ crashed

(* sslconnection.cpp:629-630: after the retries of connect(), "give up and  *)
(* let timeout code take the wheel": no connection is being made for ever.  *)
RetriesTimeOut ==
    \A s \in Shards :
        conn[s] \in {"connecting", "stranded"}
            ~> conn[s] \notin {"connecting", "stranded"} \/ crashed
=============================================================================
