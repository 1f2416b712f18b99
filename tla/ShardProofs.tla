----------------------------- MODULE ShardProofs -----------------------------
(***************************************************************************)
(* Proofs about Shard for any number of shards, any periods and any bounds  *)
(* of what Discord does: events are handled once and in order, sessions are *)
(* not given up, closed connections wait to be replaced.                    *)
(***************************************************************************)
EXTENDS Shard, TLAPS

-----------------------------------------------------------------------------
(* Sequences: the first element is taken off, others are put behind.        *)
LEMMA TailFacts ==
    ASSUME NEW S, NEW q \in Seq(S), q # << >>
    PROVE  /\ Tail(q) \in Seq(S) /\ Head(q) = q[1] /\ 1 \in DOMAIN q
           /\ Len(Tail(q)) = Len(q) - 1
           /\ \A k \in DOMAIN Tail(q) : k + 1 \in DOMAIN q /\ Tail(q)[k] = q[k + 1]
           /\ \A k \in DOMAIN q : k = 1 \/ (k - 1 \in DOMAIN Tail(q) /\ Tail(q)[k - 1] = q[k])
<1>1. Len(q) \in Nat \ {0} /\ DOMAIN q = 1 .. Len(q)
  OBVIOUS
<1>2. Tail(q) \in Seq(S) /\ Len(Tail(q)) = Len(q) - 1 /\ Head(q) = q[1]
  OBVIOUS
<1>3. DOMAIN Tail(q) = 1 .. Len(q) - 1
  BY <1>2
<1>4. \A k \in 1 .. Len(q) - 1 : Tail(q)[k] = q[k + 1]
  BY <1>1
<1> QED
  BY <1>1, <1>2, <1>3, <1>4

LEMMA ConcatFacts ==
    ASSUME NEW S, NEW q \in Seq(S), NEW v \in Seq(S)
    PROVE  /\ q \o v \in Seq(S)
           /\ Len(q \o v) = Len(q) + Len(v)
           /\ \A k \in DOMAIN q : k \in DOMAIN (q \o v) /\ (q \o v)[k] = q[k]
           /\ \A m \in DOMAIN v :
                 Len(q) + m \in DOMAIN (q \o v) /\ (q \o v)[Len(q) + m] = v[m]
           /\ \A k \in DOMAIN (q \o v) :
                 k \in DOMAIN q \/ k - Len(q) \in DOMAIN v
<1>1. /\ Len(q) \in Nat /\ Len(v) \in Nat
      /\ DOMAIN q = 1 .. Len(q) /\ DOMAIN v = 1 .. Len(v)
  OBVIOUS
<1>2. q \o v \in Seq(S) /\ Len(q \o v) = Len(q) + Len(v)
  OBVIOUS
<1>3. DOMAIN (q \o v) = 1 .. Len(q) + Len(v)
  BY <1>2
<1>4. /\ \A k \in 1 .. Len(q) : (q \o v)[k] = q[k]
      /\ \A m \in 1 .. Len(v) : (q \o v)[Len(q) + m] = v[m]
  BY <1>1
<1> QED
  BY <1>1, <1>2, <1>3, <1>4

LEMMA SingleFacts ==
    ASSUME NEW S, NEW x \in S
    PROVE  <<x>> \in Seq(S) /\ Len(<<x>>) = 1 /\ DOMAIN <<x>> = {1} /\ <<x>>[1] = x
OBVIOUS

LEMMA EmptyFacts ==
    ASSUME NEW S
    PROVE  << >> \in Seq(S) /\ Len(<< >>) = 0 /\ DOMAIN << >> = {}
OBVIOUS

-----------------------------------------------------------------------------
(* The invariant.                                                           *)

(* Frames that ask a shard to identify itself, that number events, and that *)
(* are events with a number of their own.                                   *)
Asks(f)     == f.op \in {"hello", "invalid"}
Tells(f)    == f.op \in {"ready", "resumed", "event"}
Numbered(f) == f.op \in {"ready", "event"}

Asked(s)     == \E k \in DOMAIN wire[s] : Asks(wire[s][k])
OnlyLeave(s) == \A k \in DOMAIN wire[s] : wire[s][k].op = "leave"

(* A delayed identify is going to be sent.                                  *)
Delayed(s) == conn[s] = "connected" /\ identify[s] # None

(* Of the last session: the last event that was heard, and those that were  *)
(* dropped unparsed.                                                        *)
HeardOf(s)   == IF heard[s].session = issued[s] THEN heard[s].seq ELSE 0
Missed(s, n) == <<issued[s], n>> \in unread[s]

(* Event n comes with one of the first k frames.                            *)
Comes(s, n, k) ==
    \E j \in DOMAIN wire[s] : j <= k /\ Numbered(wire[s][j]) /\ wire[s][j].seq = n

(* Without a connection nothing is under way.                               *)
LineOK(s) ==
    /\ conn[s] # "connected" => wire[s] = << >> /\ sent[s] = << >> /\ ~ attached[s]
    /\ conn[s] = "connecting" => identify[s] = None

(* One thing at a time: Discord's question, the delay, the shard's answer,  *)
(* or the events of a session.                                              *)
TurnOK(s) ==
    /\ \A j, k \in DOMAIN wire[s] : Asks(wire[s][j]) /\ j < k => wire[s][k].op = "leave"
    /\ Asked(s) => sent[s] = << >> /\ ~ attached[s] /\ ~ Delayed(s)
    /\ Delayed(s) => sent[s] = << >>
    /\ Delayed(s) \/ sent[s] # << >> => ~ attached[s] /\ OnlyLeave(s)
    /\ sent[s] # << >> => sent[s] = <<Head(sent[s])>> /\ ~ Delayed(s)

(* A shard resumes the session it has, and identifies when it has none.     *)
AnswerOK(s) ==
    /\ Delayed(s) => sessionid[s] = 0
    /\ sent[s] # << >> =>
          \/ Head(sent[s]) = Frame("identify", 0, 0) /\ sessionid[s] = 0
          \/ Head(sent[s]) = Frame("resume", sessionid[s], last_seq[s]) /\ sessionid[s] # 0

(* A session that the shard knows is the last, and what it asks for when it *)
(* resumes it is all that comes after what it heard, but for events that    *)
(* were dropped.                                                            *)
SessionOK(s) ==
    /\ session[s] \in {0, issued[s]} /\ sessionid[s] \in {0, issued[s]}
    /\ heard[s].session <= issued[s]
    /\ sessionid[s] # 0 =>
          /\ heard[s].session = issued[s] /\ heard[s].seq <= last_seq[s]
          /\ last_seq[s] # 0 /\ last_seq[s] <= latest[s]
          /\ \A n \in Nat : heard[s].seq < n /\ n <= last_seq[s] => Missed(s, n)

KnownOK(s) == conn[s] # "none" => kept[s] = sessionid[s]

(* What Discord sends of a session is of the last.                          *)
FramesOK(s) ==
    /\ attached[s] => session[s] # 0
    /\ \A k \in DOMAIN wire[s] : Tells(wire[s][k]) => wire[s][k].session = issued[s]

(* The numbers on the wire go up from what was heard.                       *)
NumbersOK(s) ==
    /\ \A k \in DOMAIN wire[s] : Numbered(wire[s][k]) =>
          HeardOf(s) < wire[s][k].seq /\ wire[s][k].seq <= latest[s]
    /\ \A j, k \in DOMAIN wire[s] :
          Numbered(wire[s][j]) /\ Numbered(wire[s][k]) /\ j < k
             => wire[s][j].seq < wire[s][k].seq

(* And none is left out: events that were not heard come before any frame   *)
(* that tells of later ones, or were dropped.                               *)
EventsOK(s) ==
    /\ \A k \in DOMAIN wire[s], n \in Nat :
          Tells(wire[s][k]) /\ HeardOf(s) < n /\ n <= wire[s][k].seq
             => Missed(s, n) \/ Comes(s, n, k)
    /\ attached[s] => HeardOf(s) <= latest[s]
    /\ \A n \in Nat : attached[s] /\ HeardOf(s) < n /\ n <= latest[s]
          => Missed(s, n) \/ \E k \in DOMAIN wire[s] : Comes(s, n, k)

(* RESUMED comes after the events that it says were sent.                   *)
ResumedOK(s) ==
    \A k \in DOMAIN wire[s] : wire[s][k].op = "resumed" =>
       /\ HeardOf(s) <= wire[s][k].seq /\ wire[s][k].seq <= latest[s] /\ wire[s][k].seq # 0
       /\ \A j \in DOMAIN wire[s] :
             Numbered(wire[s][j]) /\ j < k => wire[s][j].seq <= wire[s][k].seq

LocalInv(s) ==
    /\ LineOK(s) /\ TurnOK(s) /\ AnswerOK(s) /\ SessionOK(s) /\ KnownOK(s)
    /\ FramesOK(s) /\ NumbersOK(s) /\ EventsOK(s) /\ ResumedOK(s)

(* What TypeOK leaves out: that all of it are functions, and what is sent.  *)
AnyFrame == [op : Ops \cup {"identify", "resume"}, session : Nat, seq : Nat]

ShapeOK ==
    /\ {sessionid, last_seq, session, latest, issued, kept} \subseteq [Shards -> Nat]
    /\ heard \in [Shards -> AnyFrame]
    /\ unread \in [Shards -> SUBSET (Nat \X Nat)]
    /\ {wire, sent} \subseteq [Shards -> Seq(AnyFrame)]

Inv == /\ ShapeOK /\ TypeOK /\ WaitsIffClosed
       /\ \A s \in Shards : LocalInv(s)

-----------------------------------------------------------------------------
LEMMA InvInit == Init => Inv
<1> SUFFICES ASSUME Init PROVE Inv
  OBVIOUS
<1>1. ShapeOK
  BY DEF Init, ShapeOK, AnyFrame, Frame, Ops
<1>2. TypeOK
  <2>1. /\ {NumShards, RECONNECT_INTERVAL, MonitorPeriod, ConnectTimeout, HeartbeatSeconds,
            MsPerSecond} \subseteq Nat \ {0}
        /\ AckLimit \in Nat
    BY ShardAssumption DEF AckLimit
  <2>2. ready \in [Shards -> BOOLEAN] /\ attached \in [Shards -> BOOLEAN] /\ crashed \in BOOLEAN
    BY DEF Init
  <2>3. /\ conn \in [Shards -> {"none", "connecting", "connected", "closed", "stranded",
                                "ended", "dead"}]
        /\ age \in [Shards -> 0 .. ConnectTimeout] /\ ack \in [Shards -> 0 .. AckLimit + 1]
        /\ identify \in [Shards -> None .. RECONNECT_INTERVAL]
    BY <2>1 DEF Init, None
  <2>4. ASSUME NEW s \in Shards
        PROVE  /\ {sessionid[s], session[s], issued[s], kept[s]} \subseteq 0 .. MaxSessions[s]
               /\ {last_seq[s], latest[s]} \subseteq 0 .. MaxEvents[s]
               /\ wire[s] \in Seq(Frames(s)) /\ Len(wire[s]) <= MaxWire[s]
               /\ Len(sent[s]) <= 1
               /\ heard[s] \in Frames(s)
               /\ unread[s] \subseteq (0 .. MaxSessions[s]) \X (0 .. MaxEvents[s])
    <3>1. MaxSessions[s] \in Nat /\ MaxEvents[s] \in Nat /\ MaxWire[s] \in Nat
      BY ShardAssumption DEF Shards
    <3>2. heard[s] = Frame("hello", 0, 0) /\ Frame("hello", 0, 0) \in Frames(s)
      BY <3>1 DEF Init, Frames, Frame, Ops
    <3> QED
      BY <3>1, <3>2 DEF Init
  <2>5. /\ stray \subseteq 0 .. RECONNECT_INTERVAL /\ DOMAIN reconnections = {}
        /\ monitor \in 0 .. MonitorPeriod /\ since \in 0 .. RECONNECT_INTERVAL
    BY <2>1 DEF Init
  <2> QED
    BY <2>2, <2>3, <2>4, <2>5 DEF TypeOK
<1>3. WaitsIffClosed
  BY DEF Init, WaitsIffClosed
<1>4. ASSUME NEW s \in Shards PROVE LocalInv(s)
  BY DEF Init, LocalInv, LineOK, TurnOK, AnswerOK, SessionOK, KnownOK, FramesOK, NumbersOK,
         EventsOK, ResumedOK, OnlyLeave, Delayed, Asked, Asks, Tells, Numbered, Frame
<1> QED
  BY <1>1, <1>2, <1>3, <1>4 DEF Inv

-----------------------------------------------------------------------------
(* What the local invariant is about.                                       *)
Talk(s) == <<sessionid[s], last_seq[s], session[s], latest[s], issued[s], heard[s], unread[s],
             kept[s]>>
Line(s) == <<conn[s], wire[s], sent[s], attached[s]>>

LEMMA HeardFacts ==
    ASSUME ShapeOK, NEW s \in Shards
    PROVE  /\ HeardOf(s) \in Nat /\ latest[s] \in Nat /\ issued[s] \in Nat
           /\ last_seq[s] \in Nat /\ sessionid[s] \in Nat /\ session[s] \in Nat
           /\ heard[s].seq \in Nat /\ heard[s].session \in Nat
           /\ \A k \in DOMAIN wire[s] : wire[s][k].seq \in Nat /\ k \in Nat
<1>1. heard[s] \in AnyFrame /\ wire[s] \in Seq(AnyFrame)
  BY DEF ShapeOK
<1>2. \A k \in DOMAIN wire[s] : wire[s][k] \in AnyFrame /\ k \in Nat
  BY <1>1
<1> QED
  BY <1>1, <1>2 DEF ShapeOK, AnyFrame, HeardOf

(* Nothing of it changes, or time does.                                     *)
LEMMA LocalKept ==
    ASSUME NEW s \in Shards, LocalInv(s), UNCHANGED Talk(s), UNCHANGED Line(s),
           conn[s] \in {"connected", "connecting"} /\ identify[s] = None => identify'[s] = None
    PROVE  LocalInv(s)'
<1>1. /\ conn'[s] = conn[s] /\ wire'[s] = wire[s] /\ sent'[s] = sent[s]
      /\ attached'[s] = attached[s]
      /\ sessionid'[s] = sessionid[s] /\ last_seq'[s] = last_seq[s] /\ session'[s] = session[s]
      /\ latest'[s] = latest[s] /\ issued'[s] = issued[s] /\ heard'[s] = heard[s]
      /\ unread'[s] = unread[s] /\ kept'[s] = kept[s]
  BY DEF Talk, Line
<1>2. Delayed(s)' => Delayed(s)
  BY <1>1 DEF Delayed
<1>3. (Asked(s)' <=> Asked(s)) /\ (OnlyLeave(s)' <=> OnlyLeave(s))
  BY <1>1 DEF Asked, OnlyLeave
<1>4. /\ HeardOf(s)' = HeardOf(s)
      /\ \A n : (Missed(s, n)' <=> Missed(s, n))
      /\ \A n, k : (Comes(s, n, k)' <=> Comes(s, n, k))
  BY <1>1 DEF HeardOf, Missed, Comes
<1>5. LineOK(s)' /\ TurnOK(s)' /\ AnswerOK(s)'
  BY <1>1, <1>2, <1>3 DEF LocalInv, LineOK, TurnOK, AnswerOK
<1>6. SessionOK(s)' /\ KnownOK(s)' /\ FramesOK(s)'
  BY <1>1, <1>4 DEF LocalInv, SessionOK, KnownOK, FramesOK
<1>7. NumbersOK(s)' /\ EventsOK(s)' /\ ResumedOK(s)'
  BY <1>1, <1>4 DEF LocalInv, NumbersOK, EventsOK, ResumedOK
<1> QED
  BY <1>5, <1>6, <1>7 DEF LocalInv

(* Without anything under way only the sessions are left of it.             *)
LEMMA LocalCut ==
    ASSUME NEW s \in Shards, SessionOK(s)', KnownOK(s)',
           wire'[s] = << >>, sent'[s] = << >>, ~ attached'[s],
           conn'[s] = "connecting" => identify'[s] = None,
           conn'[s] # "connected"
    PROVE  LocalInv(s)'
<1>1. DOMAIN wire'[s] = {}
  OBVIOUS
<1>2. ~ Delayed(s)' /\ ~ Asked(s)' /\ OnlyLeave(s)'
  BY <1>1 DEF Delayed, Asked, OnlyLeave
<1>3. LineOK(s)' /\ TurnOK(s)' /\ AnswerOK(s)'
  BY <1>1, <1>2 DEF LineOK, TurnOK, AnswerOK
<1>4. FramesOK(s)' /\ NumbersOK(s)' /\ EventsOK(s)' /\ ResumedOK(s)'
  BY <1>1 DEF FramesOK, NumbersOK, EventsOK, ResumedOK
<1> QED
  BY <1>3, <1>4 DEF LocalInv

LEMMA CutFacts ==
    ASSUME ShapeOK, TypeOK, NEW s \in Shards, NEW S, s \in S, Close(S)
    PROVE  wire'[s] = << >> /\ sent'[s] = << >> /\ ~ attached'[s] /\ conn'[s] = "closed"
<1>1. /\ DOMAIN wire = Shards /\ DOMAIN sent = Shards
      /\ DOMAIN attached = Shards /\ DOMAIN conn = Shards
  BY DEF ShapeOK, TypeOK
<1>2. wire'[s] = << >> /\ sent'[s] = << >> /\ conn'[s] = "closed"
  BY <1>1 DEF Close, With
<1>3. ~ attached'[s]
  BY <1>1 DEF Close, With
<1> QED
  BY <1>2, <1>3

LEMMA Popped ==
    ASSUME ShapeOK, NEW s \in Shards, wire[s] # << >>, wire' = [wire EXCEPT ![s] = Tail(@)]
    PROVE  /\ wire'[s] = Tail(wire[s]) /\ Head(wire[s]) = wire[s][1] /\ 1 \in DOMAIN wire[s]
           /\ DOMAIN wire[s] \subseteq Nat \ {0} /\ DOMAIN wire'[s] \subseteq Nat \ {0}
           /\ \A k \in DOMAIN wire'[s] :
                 k + 1 \in DOMAIN wire[s] /\ wire'[s][k] = wire[s][k + 1]
           /\ \A k \in DOMAIN wire[s] :
                 k = 1 \/ (k - 1 \in DOMAIN wire'[s] /\ wire'[s][k - 1] = wire[s][k])
           /\ \A k \in DOMAIN wire[s] : wire[s][k] \in AnyFrame
<1>1. wire'[s] = Tail(wire[s]) /\ wire[s] \in Seq(AnyFrame)
  BY DEF ShapeOK
<1>2. Tail(wire[s]) \in Seq(AnyFrame)
  BY <1>1
<1>3. DOMAIN wire[s] \subseteq Nat \ {0} /\ DOMAIN wire'[s] \subseteq Nat \ {0}
  BY <1>1, <1>2
<1>4. \A k \in DOMAIN wire[s] : wire[s][k] \in AnyFrame
  BY <1>1
<1>5. /\ Head(wire[s]) = wire[s][1] /\ 1 \in DOMAIN wire[s]
      /\ \A k \in DOMAIN Tail(wire[s]) :
            k + 1 \in DOMAIN wire[s] /\ Tail(wire[s])[k] = wire[s][k + 1]
      /\ \A k \in DOMAIN wire[s] :
            k = 1 \/ (k - 1 \in DOMAIN Tail(wire[s]) /\ Tail(wire[s])[k - 1] = wire[s][k])
  <2> HIDE DEF AnyFrame
  <2> QED
    BY <1>1, TailFacts
<1> QED
  BY <1>1, <1>3, <1>4, <1>5

(* hello or invalid was all there was: what follows only says good bye.     *)
LEMMA HelloLocal ==
    ASSUME ShapeOK, TypeOK, NEW s \in Shards, LocalInv(s), Hello(s)
    PROVE  LocalInv(s)'
<1>1. /\ conn[s] = "connected" /\ wire[s] # << >> /\ Asks(Head(wire[s]))
      /\ wire' = [wire EXCEPT ![s] = Tail(@)]
      /\ UNCHANGED <<conn, attached, session, latest, issued, heard>>
  BY DEF Hello, Handling, StaysOpen, Asks
<1>2. /\ Head(wire[s]) = wire[s][1] /\ 1 \in DOMAIN wire[s]
      /\ DOMAIN wire[s] \subseteq Nat \ {0} /\ DOMAIN wire'[s] \subseteq Nat \ {0}
      /\ \A k \in DOMAIN wire'[s] : k + 1 \in DOMAIN wire[s] /\ wire'[s][k] = wire[s][k + 1]
  BY <1>1, Popped
<1>3. Asked(s)
  BY <1>1, <1>2 DEF Asked
<1>4. sent[s] = << >> /\ ~ attached[s] /\ identify[s] = None
  BY <1>1, <1>3 DEF LocalInv, TurnOK, Delayed
<1>5. \A k \in DOMAIN wire'[s] : wire'[s][k].op = "leave"
  BY <1>1, <1>2 DEF LocalInv, TurnOK
<1>6. /\ OnlyLeave(s)' /\ ~ Asked(s)'
      /\ \A k \in DOMAIN wire'[s] : ~ Tells(wire'[s][k]) /\ ~ Numbered(wire'[s][k])
                                    /\ wire'[s][k].op # "resumed"
  BY <1>1, <1>4, <1>5 DEF OnlyLeave, Asked, Asks, Tells, Numbered
<1>7. /\ sessionid[s] \in Nat /\ last_seq[s] \in Nat /\ session[s] \in Nat /\ issued[s] \in Nat
      /\ latest[s] \in Nat
      /\ \/ sessionid'[s] = sessionid[s] /\ last_seq'[s] = last_seq[s] /\ kept'[s] = kept[s]
         \/ sessionid'[s] = 0 /\ last_seq'[s] = 0 /\ kept'[s] = 0
  BY <1>1 DEF ShapeOK, Hello, Asks
<1>8. ASSUME NEW n \in Nat, n <= last_seq'[s], Missed(s, n) PROVE Missed(s, n)'
  <2>1. \/ unread' = unread
        \/ unread' = [unread EXCEPT ![s] = {u \in @ : u[2] <= last_seq'[s]}]
    BY DEF Hello
  <2>2. unread'[s] = unread[s] \/ unread'[s] = {u \in unread[s] : u[2] <= last_seq'[s]}
    BY <2>1 DEF ShapeOK
  <2>3. <<issued[s], n>>[2] = n
    OBVIOUS
  <2> QED
    BY <1>1, <1>8, <2>2, <2>3 DEF Missed
<1>9. SessionOK(s)'
  <2>1. CASE sessionid'[s] = 0
    BY <1>1, <2>1 DEF LocalInv, SessionOK
  <2>2. CASE sessionid'[s] = sessionid[s] /\ last_seq'[s] = last_seq[s]
    BY <1>1, <1>8, <2>2 DEF LocalInv, SessionOK
  <2> QED
    BY <1>7, <2>1, <2>2
<1>10. KnownOK(s)'
  BY <1>1, <1>7 DEF LocalInv, KnownOK
<1>11. LineOK(s)' /\ TurnOK(s)' /\ AnswerOK(s)'
  <2>1. LineOK(s)'
    BY <1>1 DEF LineOK
  <2>2. CASE sent' = [sent EXCEPT ![s] = Append(@, Frame("resume", sessionid'[s], last_seq'[s]))]
             /\ identify' = identify /\ sessionid'[s] # 0
    <3>1. sent'[s] = <<Frame("resume", sessionid'[s], last_seq'[s])>>
      BY <1>4, <2>2 DEF ShapeOK
    <3>2. sent'[s] # << >> /\ Head(sent'[s]) = Frame("resume", sessionid'[s], last_seq'[s])
      BY <3>1
    <3>3. ~ Delayed(s)'
      BY <1>1, <1>4, <2>2 DEF Delayed
    <3> QED
      BY <1>1, <1>4, <1>6, <2>1, <2>2, <3>1, <3>2, <3>3 DEF TurnOK, AnswerOK, Asked
  <2>3. CASE sent' = [sent EXCEPT ![s] = Append(@, Frame("identify", 0, 0))]
             /\ identify' = identify /\ sessionid'[s] = 0
    <3>1. sent'[s] = <<Frame("identify", 0, 0)>>
      BY <1>4, <2>3 DEF ShapeOK
    <3>2. sent'[s] # << >> /\ Head(sent'[s]) = Frame("identify", 0, 0)
      BY <3>1
    <3>3. ~ Delayed(s)'
      BY <1>1, <1>4, <2>3 DEF Delayed
    <3> QED
      BY <1>1, <1>4, <1>6, <2>1, <2>3, <3>1, <3>2, <3>3 DEF TurnOK, AnswerOK, Asked
  <2>4. CASE sent' = sent /\ sessionid'[s] = 0
    BY <1>1, <1>4, <1>6, <2>1, <2>4 DEF TurnOK, AnswerOK, Asked
  <2>5. last_seq'[s] = 0 \/ sessionid'[s] = 0 => sessionid'[s] = 0
    BY <1>7, <1>9 DEF SessionOK
  <2> QED
    BY <2>2, <2>3, <2>4, <2>5 DEF Hello
<1>12. FramesOK(s)' /\ NumbersOK(s)' /\ EventsOK(s)' /\ ResumedOK(s)'
  BY <1>1, <1>4, <1>6 DEF FramesOK, NumbersOK, EventsOK, ResumedOK
<1> QED
  BY <1>9, <1>10, <1>11, <1>12 DEF LocalInv

(* What a frame that tells of a session says of it: it is the last, no      *)
(* number comes again, and what is left out was dropped.                    *)
LEMMA DispatchNext ==
    ASSUME ShapeOK, NEW s \in Shards, LocalInv(s), Handling(s), Tells(Head(wire[s]))
    PROVE  LET f == Head(wire[s]) IN
           /\ f \in AnyFrame /\ f.session = issued[s] /\ f.seq \in Nat
           /\ f.seq # 0 /\ f.seq <= latest[s] /\ HeardOf(s) <= f.seq
           /\ Numbered(f) => HeardOf(s) < f.seq
           /\ \A n \in Nat : HeardOf(s) < n /\ n <= f.seq
                 => Missed(s, n) \/ (Numbered(f) /\ n = f.seq)
<1> DEFINE w == wire[s]
           f == Head(w)
<1>1. /\ wire[s] \in Seq(AnyFrame) /\ w # << >> /\ f = w[1] /\ 1 \in DOMAIN w
      /\ DOMAIN w \subseteq Nat \ {0} /\ f \in AnyFrame
  BY DEF ShapeOK, Handling
<1>2. f.seq \in Nat /\ HeardOf(s) \in Nat /\ latest[s] \in Nat
  BY <1>1, HeardFacts DEF AnyFrame
<1>3. f.session = issued[s]
  BY <1>1 DEF LocalInv, FramesOK
<1>4. Numbered(f) => HeardOf(s) < f.seq /\ f.seq <= latest[s]
  BY <1>1 DEF LocalInv, NumbersOK
<1>5. f.op = "resumed" => HeardOf(s) <= f.seq /\ f.seq <= latest[s] /\ f.seq # 0
  BY <1>1 DEF LocalInv, ResumedOK
<1>6. Numbered(f) \/ f.op = "resumed"
  BY DEF Tells, Numbered
<1>7. ASSUME NEW n \in Nat, HeardOf(s) < n, n <= f.seq
      PROVE  Missed(s, n) \/ (Numbered(f) /\ n = f.seq)
  <2>1. Missed(s, n) \/ Comes(s, n, 1)
    BY <1>1, <1>7 DEF LocalInv, EventsOK
  <2>2. ASSUME Comes(s, n, 1) PROVE Numbered(f) /\ n = f.seq
    <3>1. PICK j \in DOMAIN w : j <= 1 /\ Numbered(w[j]) /\ w[j].seq = n
      BY <2>2 DEF Comes
    <3>2. j = 1
      BY <1>1, <3>1
    <3> QED
      BY <1>1, <3>1, <3>2
  <2> QED
    BY <2>1, <2>2
<1>8. f.seq # 0 /\ f.seq <= latest[s] /\ HeardOf(s) <= f.seq
  BY <1>2, <1>4, <1>5, <1>6
<1> QED
  BY <1>1, <1>2, <1>3, <1>4, <1>7, <1>8

LEMMA DispatchLocal ==
    ASSUME ShapeOK, TypeOK, NEW s \in Shards, LocalInv(s), Dispatch(s)
    PROVE  LocalInv(s)'
<1> DEFINE f == Head(wire[s])
<1>1. /\ Handling(s) /\ Tells(f) /\ conn[s] = "connected" /\ wire[s] # << >>
      /\ UNCHANGED <<session, latest, issued, identify, unread>>
  BY DEF Dispatch, Handler, Handling, Tells
<1>2. /\ f \in AnyFrame /\ f.session = issued[s] /\ f.seq \in Nat
      /\ f.seq # 0 /\ f.seq <= latest[s] /\ HeardOf(s) <= f.seq
      /\ Numbered(f) => HeardOf(s) < f.seq
      /\ \A n \in Nat : HeardOf(s) < n /\ n <= f.seq
            => Missed(s, n) \/ (Numbered(f) /\ n = f.seq)
  BY <1>1, DispatchNext
<1>3. /\ HeardOf(s) \in Nat /\ latest[s] \in Nat /\ issued[s] \in Nat
      /\ heard[s].session \in Nat /\ heard[s].seq \in Nat
  BY HeardFacts
<1>4. /\ last_seq'[s] = f.seq
      /\ \/ sessionid'[s] = sessionid[s] /\ kept'[s] = kept[s]
         \/ f.op = "ready" /\ sessionid'[s] = issued[s] /\ kept'[s] = issued[s]
  <2>1. last_seq'[s] = f.seq
    BY DEF Dispatch, ShapeOK
  <2>2. UNCHANGED <<sessionid, kept>> \/ Noted(s)
    BY DEF Dispatch, Returns, Throws
  <2>3. Noted(s) => \/ UNCHANGED <<sessionid, kept>>
                    \/ f.op = "ready" /\ sessionid'[s] = f.session /\ kept'[s] = f.session
    BY DEF Noted, ShapeOK
  <2> QED
    BY <1>2, <2>1, <2>2, <2>3
<1>5. /\ Numbered(f) => heard'[s] = f /\ HeardOf(s)' = f.seq
      /\ ~ Numbered(f) => heard'[s] = heard[s] /\ HeardOf(s)' = HeardOf(s) /\ f.op = "resumed"
  <2>1. CASE f.op = "resumed"
    BY <1>1, <2>1 DEF Dispatch, Handler, HeardOf, Numbered
  <2>2. CASE f.op # "resumed"
    <3>1. heard'[s] = f /\ Numbered(f)
      BY <1>1, <2>2 DEF Dispatch, Handler, ShapeOK, Numbered, Tells
    <3> QED
      BY <1>1, <1>2, <3>1 DEF HeardOf
  <2> QED
    BY <2>1, <2>2
<1>6. /\ \A n : (Missed(s, n)' <=> Missed(s, n))
      /\ HeardOf(s)' \in Nat /\ HeardOf(s) <= HeardOf(s)' /\ HeardOf(s)' <= f.seq
  BY <1>1, <1>2, <1>3, <1>5 DEF Missed
<1>7. SessionOK(s)'
  <2>1. /\ session'[s] \in {0, issued'[s]} /\ sessionid'[s] \in {0, issued'[s]}
        /\ heard'[s].session <= issued'[s]
    BY <1>1, <1>2, <1>3, <1>4, <1>5 DEF LocalInv, SessionOK
  <2>2. ASSUME sessionid'[s] # 0
        PROVE  heard'[s].session = issued[s] /\ heard'[s].seq = HeardOf(s)'
    <3>1. CASE Numbered(f)
      BY <1>2, <1>5, <3>1
    <3>2. CASE ~ Numbered(f)
      <4>1. sessionid[s] # 0
        BY <1>4, <1>5, <2>2, <3>2
      <4> QED
        BY <1>5, <3>2, <4>1 DEF LocalInv, SessionOK, HeardOf
    <3> QED
      BY <3>1, <3>2
  <2>3. ASSUME NEW n \in Nat, HeardOf(s)' < n, n <= f.seq PROVE Missed(s, n)'
    <3>1. HeardOf(s) < n
      BY <1>3, <1>6, <2>3
    <3>2. ~ (Numbered(f) /\ n = f.seq)
      BY <1>2, <1>5, <2>3
    <3> QED
      BY <1>2, <1>6, <2>3, <3>1, <3>2
  <2> QED
    BY <1>1, <1>2, <1>4, <1>6, <2>1, <2>2, <2>3 DEF SessionOK
<1>8. KnownOK(s)'
  BY <1>1, <1>4 DEF LocalInv, KnownOK
<1>9. CASE Close({s})
  <2>1. /\ wire'[s] = << >> /\ sent'[s] = << >> /\ ~ attached'[s] /\ conn'[s] = "closed"
    BY <1>1, <1>9, CutFacts
  <2> QED
    BY <1>7, <1>8, <2>1, LocalCut
<1>10. CASE Returns(s)
  <2>1. /\ Head(wire[s]) = wire[s][1] /\ 1 \in DOMAIN wire[s]
        /\ DOMAIN wire[s] \subseteq Nat \ {0} /\ DOMAIN wire'[s] \subseteq Nat \ {0}
        /\ \A k \in DOMAIN wire'[s] :
              k + 1 \in DOMAIN wire[s] /\ wire'[s][k] = wire[s][k + 1]
        /\ \A k \in DOMAIN wire[s] :
              k = 1 \/ (k - 1 \in DOMAIN wire'[s] /\ wire'[s][k - 1] = wire[s][k])
        /\ \A k \in DOMAIN wire[s] : wire[s][k] \in AnyFrame
    BY <1>1, <1>10, Popped DEF Returns
  <2>2. UNCHANGED <<conn, attached, sent>>
    BY <1>10 DEF Returns, StaysOpen
  <2>3. sent[s] = << >> /\ ~ Delayed(s) /\ ~ Delayed(s)'
    <3>1. ~ OnlyLeave(s)
      BY <1>1, <2>1 DEF OnlyLeave, Tells
    <3> QED
      BY <1>1, <2>2, <3>1 DEF LocalInv, TurnOK, Delayed
  <2>4. Asked(s)' => Asked(s)
    BY <2>1 DEF Asked
  <2>5. \A j, k \in DOMAIN wire'[s] : (j < k => j + 1 < k + 1) /\ 1 < k + 1
    BY <2>1
  <2>6. LineOK(s)' /\ AnswerOK(s)'
    BY <1>1, <2>2, <2>3 DEF LocalInv, LineOK, AnswerOK
  <2>7. TurnOK(s)'
    <3>1. \A j, k \in DOMAIN wire'[s] : Asks(wire'[s][j]) /\ j < k => wire'[s][k].op = "leave"
      BY <2>1, <2>5 DEF LocalInv, TurnOK
    <3> QED
      BY <2>2, <2>3, <2>4, <3>1 DEF LocalInv, TurnOK
  <2>8. FramesOK(s)'
    BY <1>1, <2>1, <2>2 DEF LocalInv, FramesOK
  <2>9. NumbersOK(s)'
    <3>1. ASSUME NEW k \in DOMAIN wire'[s], Numbered(wire'[s][k])
          PROVE  HeardOf(s)' < wire'[s][k].seq /\ wire'[s][k].seq <= latest[s]
      <4>1. k + 1 \in DOMAIN wire[s] /\ wire'[s][k] = wire[s][k + 1] /\ 1 < k + 1
        BY <2>1, <2>5
      <4>2. HeardOf(s) < wire[s][k + 1].seq /\ wire[s][k + 1].seq <= latest[s]
        BY <3>1, <4>1 DEF LocalInv, NumbersOK
      <4>3. Numbered(f) => f.seq < wire[s][k + 1].seq
        BY <2>1, <3>1, <4>1 DEF LocalInv, NumbersOK
      <4> QED
        BY <1>5, <4>1, <4>2, <4>3
    <3>2. \A j, k \in DOMAIN wire'[s] :
             Numbered(wire'[s][j]) /\ Numbered(wire'[s][k]) /\ j < k
                => wire'[s][j].seq < wire'[s][k].seq
      BY <2>1, <2>5 DEF LocalInv, NumbersOK
    <3> QED
      BY <1>1, <3>1, <3>2 DEF NumbersOK
  <2>10. ASSUME NEW n \in Nat, NEW k \in DOMAIN wire[s], HeardOf(s)' < n, Comes(s, n, k)
         PROVE  k - 1 \in DOMAIN wire'[s] /\ Comes(s, n, k - 1)'
    <3>1. PICK j \in DOMAIN wire[s] : j <= k /\ Numbered(wire[s][j]) /\ wire[s][j].seq = n
      BY <2>10 DEF Comes
    <3>2. j # 1
      BY <1>2, <1>5, <2>1, <2>10, <3>1
    <3>3. k # 1 /\ j - 1 <= k - 1
      BY <2>1, <3>1, <3>2
    <3> QED
      BY <2>1, <3>1, <3>2, <3>3 DEF Comes
  <2>11. EventsOK(s)'
    <3>1. ASSUME NEW k \in DOMAIN wire'[s], NEW n \in Nat, Tells(wire'[s][k]),
                 HeardOf(s)' < n, n <= wire'[s][k].seq
          PROVE  Missed(s, n)' \/ Comes(s, n, k)'
      <4>1. k + 1 \in DOMAIN wire[s] /\ wire'[s][k] = wire[s][k + 1] /\ (k + 1) - 1 = k
        BY <2>1
      <4>2. HeardOf(s) < n
        BY <1>3, <1>6, <3>1
      <4>3. Missed(s, n) \/ Comes(s, n, k + 1)
        BY <3>1, <4>1, <4>2 DEF LocalInv, EventsOK
      <4>4. Comes(s, n, k + 1) => Comes(s, n, (k + 1) - 1)'
        BY <2>10, <3>1, <4>1
      <4> QED
        BY <1>6, <4>1, <4>3, <4>4
    <3>2. attached[s] => HeardOf(s)' <= latest[s]
      BY <1>2, <1>3, <1>6
    <3>3. ASSUME NEW n \in Nat, attached[s], HeardOf(s)' < n, n <= latest[s]
          PROVE  Missed(s, n)' \/ \E k \in DOMAIN wire'[s] : Comes(s, n, k)'
      <4>1. HeardOf(s) < n
        BY <1>3, <1>6, <3>3
      <4>2. Missed(s, n) \/ \E k \in DOMAIN wire[s] : Comes(s, n, k)
        BY <3>3, <4>1 DEF LocalInv, EventsOK
      <4> QED
        BY <1>6, <2>10, <3>3, <4>2
    <3> QED
      BY <1>1, <2>2, <3>1, <3>2, <3>3 DEF EventsOK
  <2>12. ResumedOK(s)'
    <3> SUFFICES ASSUME NEW k \in DOMAIN wire'[s], wire'[s][k].op = "resumed"
                 PROVE  /\ HeardOf(s)' <= wire'[s][k].seq /\ wire'[s][k].seq <= latest[s]
                        /\ wire'[s][k].seq # 0
                        /\ \A j \in DOMAIN wire'[s] :
                              Numbered(wire'[s][j]) /\ j < k => wire'[s][j].seq <= wire'[s][k].seq
      BY <1>1 DEF ResumedOK
    <3>1. k + 1 \in DOMAIN wire[s] /\ wire'[s][k] = wire[s][k + 1] /\ 1 < k + 1
      BY <2>1, <2>5
    <3>2. /\ HeardOf(s) <= wire[s][k + 1].seq /\ wire[s][k + 1].seq <= latest[s]
          /\ wire[s][k + 1].seq # 0
          /\ \A j \in DOMAIN wire[s] :
                Numbered(wire[s][j]) /\ j < k + 1 => wire[s][j].seq <= wire[s][k + 1].seq
      BY <3>1 DEF LocalInv, ResumedOK
    <3>3. HeardOf(s)' <= wire[s][k + 1].seq
      BY <1>5, <2>1, <3>1, <3>2
    <3> QED
      BY <2>1, <2>5, <3>1, <3>2, <3>3
  <2> QED
    BY <1>7, <1>8, <2>6, <2>7, <2>8, <2>9, <2>11, <2>12 DEF LocalInv
<1> QED
  BY <1>9, <1>10 DEF Dispatch, Throws

(* A frame that is taken off the wire and not heard: an ack, or one that is *)
(* dropped, which is noted if it has a number.                              *)
LEMMA PoppedLocal ==
    ASSUME ShapeOK, NEW s \in Shards, LocalInv(s), conn[s] = "connected", wire[s] # << >>,
           wire' = [wire EXCEPT ![s] = Tail(@)],
           UNCHANGED <<conn, attached, sent, session, latest, issued, heard, sessionid, last_seq,
                       identify, kept>>,
           unread[s] \subseteq unread'[s],
           Numbered(Head(wire[s]))
              => <<Head(wire[s]).session, Head(wire[s]).seq>> \in unread'[s]
    PROVE  LocalInv(s)'
<1> DEFINE f == Head(wire[s])
<1>1. /\ Head(wire[s]) = wire[s][1] /\ 1 \in DOMAIN wire[s]
      /\ DOMAIN wire[s] \subseteq Nat \ {0} /\ DOMAIN wire'[s] \subseteq Nat \ {0}
      /\ \A k \in DOMAIN wire'[s] : k + 1 \in DOMAIN wire[s] /\ wire'[s][k] = wire[s][k + 1]
      /\ \A k \in DOMAIN wire[s] :
            k = 1 \/ (k - 1 \in DOMAIN wire'[s] /\ wire'[s][k - 1] = wire[s][k])
  BY Popped
<1>2. \A j, k \in DOMAIN wire'[s] : (j < k <=> j + 1 < k + 1)
  BY <1>1
<1>3. HeardOf(s)' = HeardOf(s) /\ \A n : Missed(s, n) => Missed(s, n)'
  BY DEF HeardOf, Missed
<1>4. Numbered(f) => <<issued[s], f.seq>> \in unread'[s]
  <2>1. Numbered(f) => f.session = issued[s]
    BY <1>1 DEF LocalInv, FramesOK, Numbered, Tells
  <2> QED
    BY <2>1
<1>5. /\ Asked(s)' => Asked(s)
      /\ OnlyLeave(s) => OnlyLeave(s)'
      /\ Delayed(s)' <=> Delayed(s)
  BY <1>1 DEF Asked, OnlyLeave, Delayed
<1>6. LineOK(s)' /\ AnswerOK(s)' /\ KnownOK(s)'
  BY <1>5 DEF LocalInv, LineOK, AnswerOK, KnownOK
<1>7. SessionOK(s)'
  BY <1>3 DEF LocalInv, SessionOK
<1>8. TurnOK(s)'
  <2>1. \A j, k \in DOMAIN wire'[s] : Asks(wire'[s][j]) /\ j < k => wire'[s][k].op = "leave"
    BY <1>1, <1>2 DEF LocalInv, TurnOK
  <2> QED
    BY <1>5, <2>1 DEF LocalInv, TurnOK
<1>9. FramesOK(s)'
  <2>1. \A k \in DOMAIN wire'[s] : Tells(wire'[s][k]) => wire'[s][k].session = issued[s]
    <3> SUFFICES ASSUME NEW k \in DOMAIN wire'[s], Tells(wire'[s][k])
                 PROVE  wire'[s][k].session = issued[s]
      OBVIOUS
    <3>1. k + 1 \in DOMAIN wire[s] /\ wire'[s][k] = wire[s][k + 1]
      BY <1>1
    <3> QED
      BY <3>1 DEF LocalInv, FramesOK
  <2>2. attached[s] => session[s] # 0
    BY DEF LocalInv, FramesOK
  <2> QED
    BY <2>1, <2>2 DEF FramesOK
<1>10. NumbersOK(s)'
  <2>1. \A k \in DOMAIN wire'[s] : Numbered(wire'[s][k]) =>
           HeardOf(s) < wire'[s][k].seq /\ wire'[s][k].seq <= latest[s]
    BY <1>1 DEF LocalInv, NumbersOK
  <2>2. \A j, k \in DOMAIN wire'[s] :
           Numbered(wire'[s][j]) /\ Numbered(wire'[s][k]) /\ j < k
              => wire'[s][j].seq < wire'[s][k].seq
    <3> SUFFICES ASSUME NEW j \in DOMAIN wire'[s], NEW k \in DOMAIN wire'[s],
                        Numbered(wire'[s][j]), Numbered(wire'[s][k]), j < k
                 PROVE  wire'[s][j].seq < wire'[s][k].seq
      OBVIOUS
    <3>1. /\ j + 1 \in DOMAIN wire[s] /\ wire'[s][j] = wire[s][j + 1]
          /\ k + 1 \in DOMAIN wire[s] /\ wire'[s][k] = wire[s][k + 1] /\ j + 1 < k + 1
      BY <1>1, <1>2
    <3> QED
      BY <3>1 DEF LocalInv, NumbersOK
  <2> QED
    BY <1>3, <2>1, <2>2 DEF NumbersOK
<1>11. ASSUME NEW n \in Nat, NEW k \in DOMAIN wire[s], Comes(s, n, k)
       PROVE  Missed(s, n)' \/ (k - 1 \in DOMAIN wire'[s] /\ Comes(s, n, k - 1)')
  <2>1. PICK j \in DOMAIN wire[s] : j <= k /\ Numbered(wire[s][j]) /\ wire[s][j].seq = n
    BY <1>11 DEF Comes
  <2>2. CASE j = 1
    BY <1>1, <1>4, <2>1, <2>2 DEF Missed
  <2>3. CASE j # 1
    <3>1. k # 1 /\ j - 1 <= k - 1
      BY <1>1, <2>1, <2>3
    <3> QED
      BY <1>1, <2>1, <2>3, <3>1 DEF Comes
  <2> QED
    BY <2>2, <2>3
<1>12. EventsOK(s)'
  <2>1. ASSUME NEW k \in DOMAIN wire'[s], NEW n \in Nat, Tells(wire'[s][k]),
               HeardOf(s) < n, n <= wire'[s][k].seq
        PROVE  Missed(s, n)' \/ Comes(s, n, k)'
    <3>1. k + 1 \in DOMAIN wire[s] /\ wire'[s][k] = wire[s][k + 1] /\ (k + 1) - 1 = k
      BY <1>1
    <3>2. Missed(s, n) \/ Comes(s, n, k + 1)
      BY <2>1, <3>1 DEF LocalInv, EventsOK
    <3>3. Comes(s, n, k + 1) => Missed(s, n)' \/ Comes(s, n, (k + 1) - 1)'
      BY <1>11, <3>1
    <3> QED
      BY <1>3, <3>1, <3>2, <3>3
  <2>2. attached[s] => HeardOf(s) <= latest[s]
    BY DEF LocalInv, EventsOK
  <2>3. ASSUME NEW n \in Nat, attached[s], HeardOf(s) < n, n <= latest[s]
        PROVE  Missed(s, n)' \/ \E k \in DOMAIN wire'[s] : Comes(s, n, k)'
    <3>1. Missed(s, n) \/ \E k \in DOMAIN wire[s] : Comes(s, n, k)
      BY <2>3 DEF LocalInv, EventsOK
    <3> QED
      BY <1>3, <1>11, <3>1
  <2> QED
    BY <1>3, <2>1, <2>2, <2>3 DEF EventsOK
<1>13. ResumedOK(s)'
  <2> SUFFICES ASSUME NEW k \in DOMAIN wire'[s], wire'[s][k].op = "resumed"
               PROVE  /\ HeardOf(s) <= wire'[s][k].seq /\ wire'[s][k].seq <= latest[s]
                      /\ wire'[s][k].seq # 0
                      /\ \A j \in DOMAIN wire'[s] :
                            Numbered(wire'[s][j]) /\ j < k => wire'[s][j].seq <= wire'[s][k].seq
    BY <1>3 DEF ResumedOK
  <2>1. k + 1 \in DOMAIN wire[s] /\ wire'[s][k] = wire[s][k + 1]
    BY <1>1
  <2>2. \A j \in DOMAIN wire[s] :
           Numbered(wire[s][j]) /\ j < k + 1 => wire[s][j].seq <= wire[s][k + 1].seq
    BY <2>1 DEF LocalInv, ResumedOK
  <2> QED
    BY <1>1, <1>2, <2>1, <2>2 DEF LocalInv, ResumedOK
<1> QED
  BY <1>6, <1>7, <1>8, <1>9, <1>10, <1>12, <1>13 DEF LocalInv

LEMMA AckLocal ==
    ASSUME ShapeOK, NEW s \in Shards, LocalInv(s), HeartbeatAck(s)
    PROVE  LocalInv(s)'
<1>1. /\ conn[s] = "connected" /\ wire[s] # << >> /\ Head(wire[s]).op = "ack"
      /\ wire' = [wire EXCEPT ![s] = Tail(@)]
      /\ UNCHANGED <<conn, attached, sent, session, latest, issued, heard, sessionid, last_seq,
                     identify, kept, unread>>
  BY DEF HeartbeatAck, Handling, StaysOpen, history
<1>2. ~ Numbered(Head(wire[s])) /\ unread[s] \subseteq unread'[s]
  BY <1>1 DEF Numbered
<1> QED
  BY <1>1, <1>2, PoppedLocal

LEMMA UnparsedLocal ==
    ASSUME ShapeOK, NEW s \in Shards, LocalInv(s), Unparsed(s)
    PROVE  LocalInv(s)'
<1>1. /\ conn[s] = "connected" /\ wire[s] # << >>
      /\ wire' = [wire EXCEPT ![s] = Tail(@)]
      /\ UNCHANGED <<conn, attached, sent, session, latest, issued, heard, sessionid, last_seq,
                     identify, kept>>
  BY DEF Unparsed, Handling, StaysOpen
<1>2. /\ unread[s] \subseteq unread'[s]
      /\ Numbered(Head(wire[s]))
            => <<Head(wire[s]).session, Head(wire[s]).seq>> \in unread'[s]
  BY DEF Unparsed, Numbered, ShapeOK
<1> QED
  BY <1>1, <1>2, PoppedLocal

-----------------------------------------------------------------------------
(* Timers and losses.                                                       *)
LEMMA IdentifyLocal ==
    ASSUME ShapeOK, TypeOK, NEW s \in Shards, LocalInv(s), IdentifyTimer(s)
    PROVE  LocalInv(s)'
<1>1. /\ identify[s] # None /\ identify'[s] = None
      /\ UNCHANGED <<conn, wire, attached, sessionid, last_seq, session, latest, issued, heard,
                     unread, kept>>
  BY DEF IdentifyTimer, TypeOK, None, discord, history
<1>2. CASE conn[s] # "connected"
  <2>1. sent' = sent
    BY <1>2 DEF IdentifyTimer
  <2> QED
    BY <1>1, <2>1, LocalKept DEF Talk, Line
<1>3. CASE conn[s] = "connected"
  <2>1. Delayed(s) /\ ~ Delayed(s)'
    BY <1>1, <1>3 DEF Delayed
  <2>2. sent[s] = << >> /\ ~ attached[s] /\ OnlyLeave(s) /\ ~ Asked(s) /\ sessionid[s] = 0
    BY <2>1 DEF LocalInv, TurnOK, AnswerOK
  <2>3. sent'[s] = <<Frame("identify", 0, 0)>>
    BY <1>3, <2>2 DEF IdentifyTimer, ShapeOK
  <2>4. sent'[s] # << >> /\ Head(sent'[s]) = Frame("identify", 0, 0)
    BY <2>3
  <2>5. /\ OnlyLeave(s)' /\ ~ Asked(s)' /\ HeardOf(s)' = HeardOf(s)
        /\ \A n : (Missed(s, n)' <=> Missed(s, n))
        /\ \A n, k : (Comes(s, n, k)' <=> Comes(s, n, k))
    BY <1>1, <2>2 DEF OnlyLeave, Asked, HeardOf, Missed, Comes
  <2>6. LineOK(s)' /\ AnswerOK(s)'
    BY <1>1, <1>3, <2>1, <2>2, <2>4 DEF LineOK, AnswerOK
  <2>7. TurnOK(s)'
    BY <1>1, <2>1, <2>2, <2>3, <2>4, <2>5 DEF LocalInv, TurnOK
  <2>8. SessionOK(s)' /\ KnownOK(s)' /\ FramesOK(s)'
    BY <1>1, <2>5 DEF LocalInv, SessionOK, KnownOK, FramesOK
  <2>9. NumbersOK(s)' /\ EventsOK(s)' /\ ResumedOK(s)'
    BY <1>1, <2>5 DEF LocalInv, NumbersOK, EventsOK, ResumedOK
  <2> QED
    BY <2>6, <2>7, <2>8, <2>9 DEF LocalInv
<1> QED
  BY <1>2, <1>3

(* A connection that is lost takes with it what was on the way.             *)
LEMMA LossLocal ==
    ASSUME NEW s \in Shards, LocalInv(s), UNCHANGED Talk(s),
           wire'[s] = << >>, sent'[s] = << >>, ~ attached'[s],
           conn'[s] = "connecting" => identify'[s] = None,
           conn'[s] # "connected", conn[s] = "none" => conn'[s] = "none"
    PROVE  LocalInv(s)'
<1>1. SessionOK(s)'
  BY DEF LocalInv, SessionOK, Talk, Missed
<1>2. KnownOK(s)'
  BY DEF LocalInv, KnownOK, Talk
<1> QED
  BY <1>1, <1>2, LocalCut

LEMMA BreakLocal ==
    ASSUME ShapeOK, TypeOK, NEW s \in Shards, LocalInv(s), Break(s) \/ Disconnect(s)
    PROVE  LocalInv(s)'
<1>1. Close({s}) /\ UNCHANGED Talk(s) /\ conn[s] # "none"
  BY DEF Break, Disconnect, Handling, Talk, history
<1>2. wire'[s] = << >> /\ sent'[s] = << >> /\ ~ attached'[s] /\ conn'[s] = "closed"
  BY <1>1, CutFacts
<1> QED
  BY <1>1, <1>2, LossLocal

(* After the end of the TLS session nothing comes any more.                 *)
LEMMA CloseNotifyLocal ==
    ASSUME ShapeOK, TypeOK, NEW s \in Shards, LocalInv(s), CloseNotify(s)
    PROVE  LocalInv(s)'
<1>1. /\ conn[s] = "connected" /\ conn'[s] = "ended"
      /\ wire'[s] = << >> /\ sent'[s] = << >> /\ ~ attached'[s]
  BY DEF CloseNotify, ShapeOK, TypeOK
<1>2. UNCHANGED Talk(s)
  BY DEF CloseNotify, Talk, history
<1> QED
  BY <1>1, <1>2, LossLocal

LEMMA ConnectedLocal ==
    ASSUME ShapeOK, TypeOK, NEW s \in Shards, LocalInv(s), Connected(s)
    PROVE  LocalInv(s)'
<1>1. /\ conn[s] = "connecting" /\ conn'[s] = "connected"
      /\ wire'[s] = <<Frame("hello", 0, 0)>>
      /\ UNCHANGED <<sent, attached, identify, sessionid, last_seq, session, latest, issued,
                     heard, unread, kept>>
  BY DEF Connected, TypeOK, ShapeOK, discord, history
<1>2. sent[s] = << >> /\ ~ attached[s] /\ identify[s] = None
  BY <1>1 DEF LocalInv, LineOK
<1>3. DOMAIN wire'[s] = {1} /\ wire'[s][1].op = "hello"
  BY <1>1 DEF Frame
<1>4. ~ Delayed(s)'
  BY <1>1, <1>2, <1>3 DEF Delayed
<1>5. LineOK(s)' /\ TurnOK(s)' /\ AnswerOK(s)'
  BY <1>1, <1>2, <1>3, <1>4 DEF LineOK, TurnOK, AnswerOK
<1>6. SessionOK(s)' /\ KnownOK(s)'
  BY <1>1, <1>3 DEF LocalInv, SessionOK, KnownOK, Missed
<1>7. FramesOK(s)' /\ NumbersOK(s)' /\ EventsOK(s)' /\ ResumedOK(s)'
  BY <1>1, <1>2, <1>3, <1>4 DEF FramesOK, NumbersOK, EventsOK, ResumedOK, Tells, Numbered
<1> QED
  BY <1>5, <1>6, <1>7 DEF LocalInv

(* The new object of a shard has the session of the old one, or there is    *)
(* none and no session.                                                     *)
LEMMA RenewLocal ==
    ASSUME ShapeOK, TypeOK, NEW s \in Shards, LocalInv(s), conn[s] = "closed",
           Renew(s) \/ RenewFails(s), identify' = [identify EXCEPT ![s] = None],
           UNCHANGED <<wire, sent, discord, history>>
    PROVE  LocalInv(s)'
<1>1. /\ wire'[s] = << >> /\ sent'[s] = << >> /\ ~ attached'[s]
      /\ UNCHANGED <<session, latest, issued, heard, unread, kept>> /\ identify'[s] = None
  BY DEF LocalInv, LineOK, discord, TypeOK, history
<1>2. CASE Renew(s)
  <2>1. conn'[s] = "connecting" /\ UNCHANGED Talk(s)
    BY <1>1, <1>2 DEF Renew, Talk, TypeOK
  <2> QED
    BY <1>1, <2>1, LossLocal
<1>3. CASE RenewFails(s)
  <2>1. conn'[s] = "none" /\ sessionid'[s] = 0
    BY <1>3 DEF RenewFails, TypeOK, ShapeOK
  <2>2. SessionOK(s)' /\ KnownOK(s)'
    BY <1>1, <2>1 DEF LocalInv, SessionOK, KnownOK
  <2> QED
    BY <1>1, <2>1, <2>2, LocalCut
<1> QED
  BY <1>2, <1>3

LEMMA SecondLocal ==
    ASSUME ShapeOK, TypeOK, Second, NEW s \in Shards, LocalInv(s)
    PROVE  LocalInv(s)'
<1> DEFINE late == {t \in Shards : conn[t] = "connecting" /\ age'[t] >= ConnectTimeout}
           slow == {t \in Shards : conn[t] = "connecting" /\ age'[t] = ConnectRetry}
           mute == {t \in Shards : /\ conn[t] \in {"connected", "ended"}
                                   /\ ready[t] /\ ack'[t] > AckLimit}
           lost == late \union mute
<1>1. /\ \E bare \in SUBSET slow :
            conn' = With(With(With(conn, late, "closed"), mute, "dead"), bare, "stranded")
      /\ wire' = With(wire, lost, << >>)
      /\ sent' = With(sent, lost, << >>)
      /\ attached' = With(attached, lost, FALSE)
      /\ UNCHANGED <<sessionid, last_seq, session, latest, issued, heard, unread, kept>>
  BY DEF Second, history
<1>2. /\ DOMAIN wire = Shards /\ DOMAIN sent = Shards
      /\ DOMAIN attached = Shards /\ DOMAIN conn = Shards
  BY DEF ShapeOK, TypeOK
<1>3. identify[s] = None => identify'[s] = None
  BY DEF Second, Sooner, None
<1>4. UNCHANGED Talk(s)
  BY <1>1 DEF Talk
<1>5. PICK bare \in SUBSET slow :
         conn' = With(With(With(conn, late, "closed"), mute, "dead"), bare, "stranded")
  BY <1>1
<1>6. conn'[s] = IF s \in bare THEN "stranded" ELSE IF s \in mute THEN "dead"
                 ELSE IF s \in late THEN "closed" ELSE conn[s]
  <2> HIDE DEF late, slow, mute
  <2> QED
    BY <1>2, <1>5 DEF With
<1>7. CASE s \in lost \union bare
  <2>1. conn'[s] \in {"closed", "dead", "stranded"} /\ conn[s] # "none"
    BY <1>5, <1>6, <1>7
  <2>2. wire'[s] = << >> /\ sent'[s] = << >> /\ ~ attached'[s]
    <3>1. CASE s \in lost
      <4> HIDE DEF lost
      <4> QED
        BY <1>1, <1>2, <3>1 DEF With
    <3>2. CASE s \notin lost
      <4>1. conn[s] = "connecting"
        BY <1>5, <1>7, <3>2
      <4>2. wire'[s] = wire[s] /\ sent'[s] = sent[s] /\ attached'[s] = attached[s]
        <5> HIDE DEF lost
        <5> QED
          BY <1>1, <1>2, <3>2 DEF With
      <4> QED
        BY <4>1, <4>2 DEF LocalInv, LineOK
    <3> QED
      BY <3>1, <3>2
  <2> QED
    BY <1>4, <2>1, <2>2, LossLocal
<1>8. CASE s \notin lost \union bare
  <2>1. UNCHANGED Line(s)
    <3>1. conn'[s] = conn[s]
      BY <1>6, <1>8
    <3>2. wire'[s] = wire[s] /\ sent'[s] = sent[s] /\ attached'[s] = attached[s]
      <4> HIDE DEF lost
      <4> QED
        BY <1>1, <1>2, <1>8 DEF With
    <3> QED
      BY <3>1, <3>2 DEF Line
  <2> QED
    BY <1>3, <1>4, <2>1, LocalKept
<1> QED
  BY <1>7, <1>8

-----------------------------------------------------------------------------
(* What Discord sends comes behind what is on the wire.                     *)
LEMMA Appended ==
    ASSUME ShapeOK, NEW s \in Shards, NEW v \in Seq(AnyFrame), Send(s, v)
    PROVE  /\ wire'[s] = wire[s] \o v
           /\ DOMAIN wire[s] \subseteq Nat /\ DOMAIN wire'[s] \subseteq Nat
           /\ Len(wire[s]) \in Nat
           /\ \A k \in DOMAIN wire[s] :
                 k \in DOMAIN wire'[s] /\ wire'[s][k] = wire[s][k] /\ k <= Len(wire[s])
           /\ \A m \in DOMAIN v : Len(wire[s]) + m \in DOMAIN wire'[s]
                                  /\ wire'[s][Len(wire[s]) + m] = v[m]
           /\ \A k \in DOMAIN wire'[s] :
                 \/ k \in DOMAIN wire[s]
                 \/ /\ k - Len(wire[s]) \in DOMAIN v /\ k > Len(wire[s])
                    /\ wire'[s][k] = v[k - Len(wire[s])]
           /\ \A k \in DOMAIN wire'[s] : wire'[s][k] \in AnyFrame
<1>1. wire'[s] = wire[s] \o v /\ wire[s] \in Seq(AnyFrame)
  BY DEF ShapeOK, Send
<1>2. /\ wire[s] \o v \in Seq(AnyFrame)
      /\ \A k \in DOMAIN wire[s] :
            k \in DOMAIN (wire[s] \o v) /\ (wire[s] \o v)[k] = wire[s][k]
      /\ \A m \in DOMAIN v : Len(wire[s]) + m \in DOMAIN (wire[s] \o v)
                             /\ (wire[s] \o v)[Len(wire[s]) + m] = v[m]
      /\ \A k \in DOMAIN (wire[s] \o v) :
            k \in DOMAIN wire[s] \/ k - Len(wire[s]) \in DOMAIN v
  <2> HIDE DEF AnyFrame
  <2> QED
    BY <1>1, ConcatFacts
<1>3. /\ DOMAIN wire[s] = 1 .. Len(wire[s]) /\ Len(wire[s]) \in Nat
      /\ DOMAIN v = 1 .. Len(v) /\ Len(v) \in Nat
  BY <1>1
<1>4. DOMAIN wire'[s] \subseteq Nat /\ \A k \in DOMAIN wire'[s] : wire'[s][k] \in AnyFrame
  BY <1>1, <1>2
<1>5. \A k \in DOMAIN wire'[s] :
         \/ k \in DOMAIN wire[s]
         \/ /\ k - Len(wire[s]) \in DOMAIN v /\ k > Len(wire[s])
            /\ wire'[s][k] = v[k - Len(wire[s])]
  <2> SUFFICES ASSUME NEW k \in DOMAIN wire'[s], k \notin DOMAIN wire[s]
               PROVE  /\ k - Len(wire[s]) \in DOMAIN v /\ k > Len(wire[s])
                      /\ wire'[s][k] = v[k - Len(wire[s])]
    OBVIOUS
  <2>1. k - Len(wire[s]) \in DOMAIN v /\ k \in Nat
    BY <1>1, <1>2, <1>4
  <2>2. (wire[s] \o v)[Len(wire[s]) + (k - Len(wire[s]))] = v[k - Len(wire[s])]
    BY <1>2, <2>1
  <2>3. Len(wire[s]) + (k - Len(wire[s])) = k
    BY <1>3, <2>1
  <2> QED
    BY <1>1, <1>3, <2>1, <2>2, <2>3
<1> QED
  BY <1>1, <1>2, <1>3, <1>4, <1>5

LEMMA AppendedOne ==
    ASSUME ShapeOK, NEW s \in Shards, NEW x \in AnyFrame, Send(s, <<x>>)
    PROVE  \E n \in Nat :
           /\ DOMAIN wire[s] \subseteq Nat /\ DOMAIN wire'[s] \subseteq Nat
           /\ n \in DOMAIN wire'[s] /\ wire'[s][n] = x
           /\ \A k \in DOMAIN wire[s] :
                 k \in DOMAIN wire'[s] /\ wire'[s][k] = wire[s][k] /\ k < n
           /\ \A k \in DOMAIN wire'[s] : k \in DOMAIN wire[s] \/ k = n
<1> DEFINE n == Len(wire[s]) + 1
<1>1. <<x>> \in Seq(AnyFrame) /\ DOMAIN <<x>> = {1} /\ <<x>>[1] = x
  BY SingleFacts
<1>2. /\ DOMAIN wire[s] \subseteq Nat /\ DOMAIN wire'[s] \subseteq Nat /\ Len(wire[s]) \in Nat
      /\ \A k \in DOMAIN wire[s] :
            k \in DOMAIN wire'[s] /\ wire'[s][k] = wire[s][k] /\ k <= Len(wire[s])
      /\ \A m \in DOMAIN <<x>> : Len(wire[s]) + m \in DOMAIN wire'[s]
                             /\ wire'[s][Len(wire[s]) + m] = <<x>>[m]
      /\ \A k \in DOMAIN wire'[s] : k \in DOMAIN wire[s] \/ k - Len(wire[s]) \in DOMAIN <<x>>
  BY <1>1, Appended
<1>3. n \in Nat /\ n \in DOMAIN wire'[s] /\ wire'[s][n] = x
  BY <1>1, <1>2
<1>4. \A k \in DOMAIN wire[s] : k \in DOMAIN wire'[s] /\ wire'[s][k] = wire[s][k] /\ k < n
  BY <1>2
<1>5. \A k \in DOMAIN wire'[s] : k \in DOMAIN wire[s] \/ k = n
  BY <1>1, <1>2
<1> HIDE DEF n
<1> QED
  BY <1>2, <1>3, <1>4, <1>5

(* A frame that does not tell of the session.                               *)
LEMMA QuietLocal ==
    ASSUME ShapeOK, NEW s \in Shards, LocalInv(s), NEW x \in AnyFrame, Send(s, <<x>>),
           ~ Tells(x), UNCHANGED conn,
           UNCHANGED <<sessionid[s], last_seq[s], latest[s], issued[s], heard[s], unread[s],
                       kept[s]>>,
           \/ session'[s] = session[s] /\ (attached'[s] => attached[s])
           \/ session'[s] = 0 /\ ~ attached'[s]
    PROVE  /\ SessionOK(s)' /\ KnownOK(s)' /\ FramesOK(s)'
           /\ NumbersOK(s)' /\ EventsOK(s)' /\ ResumedOK(s)'
<1>1. PICK n \in Nat :
           /\ DOMAIN wire[s] \subseteq Nat /\ DOMAIN wire'[s] \subseteq Nat
           /\ n \in DOMAIN wire'[s] /\ wire'[s][n] = x
           /\ \A k \in DOMAIN wire[s] :
                 k \in DOMAIN wire'[s] /\ wire'[s][k] = wire[s][k] /\ k < n
           /\ \A k \in DOMAIN wire'[s] : k \in DOMAIN wire[s] \/ k = n
  BY AppendedOne
<1>2. ~ Numbered(x) /\ x.op # "resumed"
  BY DEF Numbered, Tells
<1>3. /\ sessionid'[s] = sessionid[s] /\ last_seq'[s] = last_seq[s] /\ latest'[s] = latest[s]
      /\ issued'[s] = issued[s] /\ heard'[s] = heard[s] /\ unread'[s] = unread[s]
      /\ kept'[s] = kept[s]
  OBVIOUS
<1>4. HeardOf(s)' = HeardOf(s) /\ \A m : (Missed(s, m)' <=> Missed(s, m))
  BY <1>3 DEF HeardOf, Missed
<1>5. \A m, k : Comes(s, m, k) => Comes(s, m, k)'
  BY <1>1 DEF Comes
<1>6. SessionOK(s)' /\ KnownOK(s)'
  BY <1>3, <1>4 DEF LocalInv, SessionOK, KnownOK
<1>7. \A k \in DOMAIN wire'[s] :
         Tells(wire'[s][k]) \/ Numbered(wire'[s][k]) \/ wire'[s][k].op = "resumed"
            => k \in DOMAIN wire[s] /\ wire'[s][k] = wire[s][k]
  BY <1>1, <1>2
<1>8. FramesOK(s)'
  BY <1>3, <1>7 DEF LocalInv, FramesOK
<1>9. NumbersOK(s)'
  BY <1>3, <1>4, <1>7 DEF LocalInv, NumbersOK
<1>10. EventsOK(s)'
  <2>1. ASSUME NEW k \in DOMAIN wire'[s], NEW m \in Nat, Tells(wire'[s][k]),
               HeardOf(s) < m, m <= wire'[s][k].seq
        PROVE  Missed(s, m) \/ Comes(s, m, k)
    BY <1>7, <2>1 DEF LocalInv, EventsOK
  <2>2. attached[s] => HeardOf(s) <= latest[s]
    BY DEF LocalInv, EventsOK
  <2>3. ASSUME NEW m \in Nat, attached[s], HeardOf(s) < m, m <= latest[s]
        PROVE  Missed(s, m) \/ \E k \in DOMAIN wire'[s] : Comes(s, m, k)
    <3>1. Missed(s, m) \/ \E k \in DOMAIN wire[s] : Comes(s, m, k)
      BY <2>3 DEF LocalInv, EventsOK
    <3> QED
      BY <1>1, <3>1
  <2>4. attached'[s] => attached[s]
    OBVIOUS
  <2> QED
    BY <1>3, <1>4, <1>5, <2>1, <2>2, <2>3, <2>4 DEF EventsOK
<1>11. ResumedOK(s)'
  BY <1>3, <1>4, <1>7 DEF LocalInv, ResumedOK
<1> QED
  BY <1>6, <1>8, <1>9, <1>10, <1>11

(* A frame that neither asks nor tells.                                     *)
LEMMA PlainLocal ==
    ASSUME ShapeOK, NEW s \in Shards, LocalInv(s), NEW x \in AnyFrame, Send(s, <<x>>),
           x.op = "leave" \/ (x.op = "ack" /\ attached[s]), conn[s] = "connected",
           UNCHANGED <<conn, identify, sent, attached>>, UNCHANGED Talk(s)
    PROVE  LocalInv(s)'
<1>1. PICK n \in Nat :
           /\ DOMAIN wire[s] \subseteq Nat /\ DOMAIN wire'[s] \subseteq Nat
           /\ n \in DOMAIN wire'[s] /\ wire'[s][n] = x
           /\ \A k \in DOMAIN wire[s] :
                 k \in DOMAIN wire'[s] /\ wire'[s][k] = wire[s][k] /\ k < n
           /\ \A k \in DOMAIN wire'[s] : k \in DOMAIN wire[s] \/ k = n
  BY AppendedOne
<1>2. ~ Asks(x) /\ ~ Tells(x)
  BY DEF Asks, Tells
<1>3. /\ sessionid'[s] = sessionid[s] /\ last_seq'[s] = last_seq[s] /\ session'[s] = session[s]
      /\ latest'[s] = latest[s] /\ issued'[s] = issued[s] /\ heard'[s] = heard[s]
      /\ unread'[s] = unread[s] /\ kept'[s] = kept[s]
  BY DEF Talk
<1>4. /\ Asked(s)' <=> Asked(s)
      /\ Delayed(s)' <=> Delayed(s)
      /\ OnlyLeave(s) /\ ~ attached[s] => OnlyLeave(s)'
  <2>1. Asked(s)' <=> Asked(s)
    BY <1>1, <1>2 DEF Asked
  <2>2. OnlyLeave(s) /\ ~ attached[s] => OnlyLeave(s)'
    BY <1>1 DEF OnlyLeave
  <2> QED
    BY <2>1, <2>2 DEF Delayed
<1>5. LineOK(s)' /\ AnswerOK(s)'
  BY <1>3, <1>4 DEF LocalInv, LineOK, AnswerOK
<1>6. TurnOK(s)'
  <2>1. \A j, k \in DOMAIN wire'[s] : Asks(wire'[s][j]) /\ j < k => wire'[s][k].op = "leave"
    <3> SUFFICES ASSUME NEW j \in DOMAIN wire'[s], NEW k \in DOMAIN wire'[s],
                        Asks(wire'[s][j]), j < k
                 PROVE  wire'[s][k].op = "leave"
      OBVIOUS
    <3>1. j \in DOMAIN wire[s] /\ wire'[s][j] = wire[s][j]
      BY <1>1, <1>2
    <3>2. ~ attached[s]
      BY <3>1 DEF LocalInv, TurnOK, Asked
    <3> QED
      BY <1>1, <3>1, <3>2 DEF LocalInv, TurnOK
  <2> QED
    BY <1>4, <2>1 DEF LocalInv, TurnOK
<1>7. /\ SessionOK(s)' /\ KnownOK(s)' /\ FramesOK(s)'
      /\ NumbersOK(s)' /\ EventsOK(s)' /\ ResumedOK(s)'
  BY <1>2, <1>3, QuietLocal
<1> QED
  BY <1>5, <1>6, <1>7 DEF LocalInv

LEMMA AllTaken ==
    ASSUME ShapeOK, NEW s \in Shards, sent[s] = <<Head(sent[s])>>,
           sent' = [sent EXCEPT ![s] = Tail(@)]
    PROVE  sent'[s] = << >>
<1>1. ASSUME NEW x PROVE Tail(<<x>>) = << >>
  OBVIOUS
<1>2. sent'[s] = Tail(sent[s])
  BY DEF ShapeOK
<1> QED
  BY <1>1, <1>2

(* invalid: the shard is to forget its session.                             *)
LEMMA InvalidLocal ==
    ASSUME ShapeOK, NEW s \in Shards, LocalInv(s), NEW x \in AnyFrame, x.op = "invalid",
           Send(s, <<x>>), conn[s] = "connected", ~ Asked(s), ~ Delayed(s),
           UNCHANGED <<conn, identify>>, sent'[s] = << >>, attached'[s] = FALSE,
           UNCHANGED <<sessionid[s], last_seq[s], latest[s], issued[s], heard[s], unread[s],
                       kept[s]>>,
           session'[s] \in {0, session[s]}
    PROVE  LocalInv(s)'
<1>1. PICK n \in Nat :
           /\ DOMAIN wire[s] \subseteq Nat /\ DOMAIN wire'[s] \subseteq Nat
           /\ n \in DOMAIN wire'[s] /\ wire'[s][n] = x
           /\ \A k \in DOMAIN wire[s] :
                 k \in DOMAIN wire'[s] /\ wire'[s][k] = wire[s][k] /\ k < n
           /\ \A k \in DOMAIN wire'[s] : k \in DOMAIN wire[s] \/ k = n
  BY AppendedOne
<1>2. ~ Tells(x)
  BY DEF Tells
<1>3. ~ Delayed(s)' /\ sessionid'[s] = sessionid[s]
  BY DEF Delayed
<1>4. LineOK(s)' /\ AnswerOK(s)'
  BY <1>3 DEF LocalInv, LineOK, AnswerOK
<1>5. TurnOK(s)'
  <2>1. \A j, k \in DOMAIN wire'[s] : Asks(wire'[s][j]) /\ j < k => wire'[s][k].op = "leave"
    BY <1>1 DEF Asked
  <2> QED
    BY <1>3, <2>1 DEF TurnOK
<1>6. /\ SessionOK(s)' /\ KnownOK(s)' /\ FramesOK(s)'
      /\ NumbersOK(s)' /\ EventsOK(s)' /\ ResumedOK(s)'
  BY <1>2, QuietLocal
<1> QED
  BY <1>4, <1>5, <1>6 DEF LocalInv

(* READY: a session begins.                                                 *)
LEMMA ReadyLocal ==
    ASSUME ShapeOK, NEW s \in Shards, LocalInv(s), NEW x \in AnyFrame, Send(s, <<x>>),
           x.op = "ready", x.session = issued[s] + 1, x.seq = 1,
           conn[s] = "connected", sent[s] # << >>, sessionid[s] = 0, UNCHANGED <<conn, identify>>,
           sent'[s] = << >>, attached'[s] = TRUE,
           issued'[s] = issued[s] + 1, session'[s] = issued[s] + 1, latest'[s] = 1,
           UNCHANGED <<sessionid[s], last_seq[s], heard[s], unread[s], kept[s]>>
    PROVE  LocalInv(s)'
<1>1. PICK n \in Nat :
           /\ DOMAIN wire[s] \subseteq Nat /\ DOMAIN wire'[s] \subseteq Nat
           /\ n \in DOMAIN wire'[s] /\ wire'[s][n] = x
           /\ \A k \in DOMAIN wire[s] :
                 k \in DOMAIN wire'[s] /\ wire'[s][k] = wire[s][k] /\ k < n
           /\ \A k \in DOMAIN wire'[s] : k \in DOMAIN wire[s] \/ k = n
  BY AppendedOne
<1>2. OnlyLeave(s) /\ ~ Delayed(s)
  BY DEF LocalInv, TurnOK
<1>3. /\ \A k \in DOMAIN wire'[s] : k # n => wire'[s][k].op = "leave"
      /\ ~ Asked(s)' /\ ~ Delayed(s)'
  BY <1>1, <1>2 DEF OnlyLeave, Asked, Asks, Delayed
<1>4. /\ issued[s] \in Nat /\ heard[s].session \in Nat /\ heard[s].session <= issued[s]
  BY HeardFacts DEF LocalInv, SessionOK
<1>5. HeardOf(s)' = 0
  BY <1>4 DEF HeardOf
<1>6. LineOK(s)' /\ TurnOK(s)' /\ AnswerOK(s)'
  BY <1>1, <1>3 DEF LineOK, TurnOK, AnswerOK, Asks
<1>7. SessionOK(s)' /\ KnownOK(s)'
  BY <1>4 DEF LocalInv, SessionOK, KnownOK
<1>8. \A k \in DOMAIN wire'[s] :
         /\ Tells(wire'[s][k]) => k = n
         /\ Numbered(wire'[s][k]) => k = n
         /\ wire'[s][k].op # "resumed"
  BY <1>1, <1>3 DEF Tells, Numbered
<1>9. FramesOK(s)'
  <2>1. session'[s] # 0
    BY <1>4
  <2> QED
    BY <1>1, <1>8, <2>1 DEF FramesOK
<1>10. NumbersOK(s)'
  BY <1>1, <1>5, <1>8 DEF NumbersOK
<1>11. EventsOK(s)'
  <2>1. Numbered(x)
    BY DEF Numbered
  <2>2. Comes(s, 1, n)'
    BY <1>1, <2>1 DEF Comes
  <2>3. \A m \in Nat : 0 < m /\ m <= 1 => m = 1
    OBVIOUS
  <2>4. ASSUME NEW k \in DOMAIN wire'[s], NEW m \in Nat, Tells(wire'[s][k]),
               HeardOf(s)' < m, m <= wire'[s][k].seq
        PROVE  Missed(s, m)' \/ Comes(s, m, k)'
    <3>1. k = n /\ m = 1
      BY <1>1, <1>5, <1>8, <2>3, <2>4
    <3> QED
      BY <2>2, <3>1
  <2>5. HeardOf(s)' <= latest'[s]
    BY <1>5
  <2>6. ASSUME NEW m \in Nat, HeardOf(s)' < m, m <= latest'[s]
        PROVE  \E k \in DOMAIN wire'[s] : Comes(s, m, k)'
    <3>1. m = 1
      BY <1>5, <2>3, <2>6
    <3> QED
      BY <1>1, <2>2, <3>1
  <2> QED
    BY <2>4, <2>5, <2>6 DEF EventsOK
<1>12. ResumedOK(s)'
  BY <1>8 DEF ResumedOK
<1> QED
  BY <1>6, <1>7, <1>9, <1>10, <1>11, <1>12 DEF LocalInv

(* An event of a session that is attached, or that the shard hears of when  *)
(* it resumes.                                                              *)
LEMMA EventLocal ==
    ASSUME ShapeOK, NEW s \in Shards, LocalInv(s), Event(s)
    PROVE  LocalInv(s)'
<1>1. /\ session[s] # 0 /\ latest'[s] = latest[s] + 1
      /\ UNCHANGED <<conn, identify, sessionid, last_seq, sent, session, attached, issued, heard,
                     unread, kept>>
  BY DEF Event, ShapeOK, object, history
<1>2. /\ HeardOf(s) \in Nat /\ latest[s] \in Nat /\ issued[s] \in Nat
      /\ last_seq[s] \in Nat /\ sessionid[s] \in Nat /\ session[s] \in Nat
      /\ \A k \in DOMAIN wire[s] : wire[s][k].seq \in Nat /\ k \in Nat
  BY HeardFacts
<1>3. session[s] = issued[s]
  BY <1>1 DEF LocalInv, SessionOK
<1>4. /\ HeardOf(s)' = HeardOf(s) /\ \A m : (Missed(s, m)' <=> Missed(s, m))
      /\ Delayed(s)' <=> Delayed(s)
  BY <1>1 DEF HeardOf, Missed, Delayed
<1>5. SessionOK(s)' /\ KnownOK(s)'
  BY <1>1, <1>2, <1>4 DEF LocalInv, SessionOK, KnownOK
<1>6. \A k \in DOMAIN wire[s] : wire[s][k].seq <= latest[s] => wire[s][k].seq <= latest[s] + 1
  BY <1>2
<1>7. CASE ~ attached[s]
  <2>1. wire' = wire
    BY <1>7 DEF Event
  <2>2. /\ Asked(s)' <=> Asked(s)
        /\ OnlyLeave(s)' <=> OnlyLeave(s)
        /\ \A m, k : (Comes(s, m, k)' <=> Comes(s, m, k))
    BY <2>1 DEF Asked, OnlyLeave, Comes
  <2>3. LineOK(s)' /\ TurnOK(s)' /\ AnswerOK(s)'
    BY <1>1, <1>4, <2>1, <2>2 DEF LocalInv, LineOK, TurnOK, AnswerOK
  <2>4. FramesOK(s)'
    BY <1>1, <2>1 DEF LocalInv, FramesOK
  <2>5. NumbersOK(s)' /\ ResumedOK(s)'
    BY <1>1, <1>4, <1>6, <2>1 DEF LocalInv, NumbersOK, ResumedOK
  <2>6. EventsOK(s)'
    BY <1>1, <1>4, <1>7, <2>1, <2>2 DEF LocalInv, EventsOK
  <2> QED
    BY <1>5, <2>3, <2>4, <2>5, <2>6 DEF LocalInv
<1>8. CASE attached[s]
  <2> DEFINE x == Frame("event", session[s], latest[s] + 1)
  <2>1. /\ x \in AnyFrame /\ x.op = "event" /\ x.session = session[s] /\ x.seq = latest[s] + 1
    BY <1>1, <1>2 DEF AnyFrame, Frame, Ops
  <2>2. Send(s, <<x>>)
    BY <1>8 DEF Event
  <2> HIDE DEF x
  <2>3. PICK n \in Nat :
           /\ DOMAIN wire[s] \subseteq Nat /\ DOMAIN wire'[s] \subseteq Nat
           /\ n \in DOMAIN wire'[s] /\ wire'[s][n] = x
           /\ \A k \in DOMAIN wire[s] :
                 k \in DOMAIN wire'[s] /\ wire'[s][k] = wire[s][k] /\ k < n
           /\ \A k \in DOMAIN wire'[s] : k \in DOMAIN wire[s] \/ k = n
    BY <2>1, <2>2, AppendedOne
  <2>4. Tells(x) /\ Numbered(x) /\ ~ Asks(x)
    BY <2>1 DEF Tells, Numbered, Asks
  <2>5. conn[s] = "connected" /\ ~ Asked(s) /\ ~ Delayed(s) /\ sent[s] = << >>
    BY <1>8 DEF LocalInv, LineOK, TurnOK
  <2>6. ~ Asked(s)' /\ \A m, k : Comes(s, m, k) => Comes(s, m, k)'
    BY <2>3, <2>4, <2>5 DEF Asked, Comes
  <2>7. LineOK(s)' /\ TurnOK(s)' /\ AnswerOK(s)'
    BY <1>1, <1>4, <2>3, <2>5, <2>6 DEF LineOK, TurnOK, AnswerOK, Asked
  <2>8. FramesOK(s)'
    BY <1>1, <1>3, <2>1, <2>3 DEF LocalInv, FramesOK
  <2>9. HeardOf(s) <= latest[s]
    BY <1>8 DEF LocalInv, EventsOK
  <2>10. \A k \in DOMAIN wire'[s] : k # n => k \in DOMAIN wire[s] /\ wire'[s][k] = wire[s][k]
    BY <2>3
  <2>11. NumbersOK(s)'
    <3>1. ASSUME NEW k \in DOMAIN wire'[s], Numbered(wire'[s][k])
          PROVE  /\ HeardOf(s) < wire'[s][k].seq /\ wire'[s][k].seq <= latest[s] + 1
                 /\ k # n => wire'[s][k].seq <= latest[s]
      <4>1. CASE k = n
        BY <1>2, <2>1, <2>3, <2>9, <4>1
      <4>2. CASE k # n
        BY <1>2, <2>10, <3>1, <4>2 DEF LocalInv, NumbersOK
      <4> QED
        BY <4>1, <4>2
    <3>2. ASSUME NEW j \in DOMAIN wire'[s], NEW k \in DOMAIN wire'[s],
                 Numbered(wire'[s][j]), Numbered(wire'[s][k]), j < k
          PROVE  wire'[s][j].seq < wire'[s][k].seq
      <4>1. j # n
        <5>1. k <= n /\ j \in Nat /\ k \in Nat
          BY <2>3
        <5> QED
          BY <3>2, <5>1
      <4>2. CASE k = n
        <5>1. wire'[s][j].seq <= latest[s] /\ wire'[s][j].seq \in Nat
          BY <1>2, <2>10, <3>1, <3>2, <4>1
        <5> QED
          BY <1>2, <2>1, <2>3, <4>2, <5>1
      <4>3. CASE k # n
        BY <2>10, <3>2, <4>1, <4>3 DEF LocalInv, NumbersOK
      <4> QED
        BY <4>2, <4>3
    <3> QED
      BY <1>1, <1>4, <3>1, <3>2 DEF NumbersOK
  <2>12. ASSUME NEW m \in Nat, HeardOf(s) < m, m <= latest[s] + 1
         PROVE  Missed(s, m) \/ Comes(s, m, n)'
    <3>1. CASE m = latest[s] + 1
      BY <2>1, <2>3, <2>4, <3>1 DEF Comes
    <3>2. CASE m # latest[s] + 1
      <4>1. m <= latest[s]
        BY <1>2, <2>12, <3>2
      <4>2. Missed(s, m) \/ \E k \in DOMAIN wire[s] : Comes(s, m, k)
        BY <1>8, <2>12, <4>1 DEF LocalInv, EventsOK
      <4>3. ASSUME NEW k \in DOMAIN wire[s], Comes(s, m, k) PROVE Comes(s, m, n)'
        <5>1. PICK j \in DOMAIN wire[s] : j <= k /\ Numbered(wire[s][j]) /\ wire[s][j].seq = m
          BY <4>3 DEF Comes
        <5>2. j \in DOMAIN wire'[s] /\ wire'[s][j] = wire[s][j] /\ j <= n
          <6>1. j < n /\ j \in Nat
            BY <2>3, <5>1
          <6> QED
            BY <2>3, <5>1, <6>1
        <5> QED
          BY <5>1, <5>2 DEF Comes
      <4> QED
        BY <4>2, <4>3
    <3> QED
      BY <3>1, <3>2
  <2>13. EventsOK(s)'
    <3>1. ASSUME NEW k \in DOMAIN wire'[s], NEW m \in Nat, Tells(wire'[s][k]),
                 HeardOf(s) < m, m <= wire'[s][k].seq
          PROVE  Missed(s, m) \/ Comes(s, m, k)'
      <4>1. CASE k = n
        BY <2>1, <2>3, <2>12, <3>1, <4>1
      <4>2. CASE k # n
        BY <2>6, <2>10, <3>1, <4>2 DEF LocalInv, EventsOK
      <4> QED
        BY <4>1, <4>2
    <3>2. HeardOf(s) <= latest[s] + 1
      BY <1>2, <2>9
    <3> QED
      BY <1>1, <1>4, <2>3, <2>12, <3>1, <3>2 DEF EventsOK
  <2>14. ResumedOK(s)'
    <3> SUFFICES ASSUME NEW k \in DOMAIN wire'[s], wire'[s][k].op = "resumed"
                 PROVE  /\ HeardOf(s) <= wire'[s][k].seq /\ wire'[s][k].seq <= latest[s] + 1
                        /\ wire'[s][k].seq # 0
                        /\ \A j \in DOMAIN wire'[s] :
                              Numbered(wire'[s][j]) /\ j < k => wire'[s][j].seq <= wire'[s][k].seq
      BY <1>1, <1>4 DEF ResumedOK
    <3>1. k # n /\ k \in DOMAIN wire[s] /\ wire'[s][k] = wire[s][k] /\ k < n
      BY <2>1, <2>3
    <3>2. \A j \in DOMAIN wire'[s] : j < k => j # n
      BY <2>3, <3>1
    <3> QED
      BY <1>6, <2>10, <3>1, <3>2 DEF LocalInv, ResumedOK
  <2> QED
    BY <1>5, <2>7, <2>8, <2>11, <2>13, <2>14 DEF LocalInv
<1> QED
  BY <1>7, <1>8

(* The number of the replayed events, and RESUMED, put behind.              *)
LEMMA ReplayFacts ==
    ASSUME NEW S, NEW n \in Nat, NEW ev \in [1 .. n -> S], NEW r \in S
    PROVE  /\ ev \o <<r>> \in Seq(S) /\ DOMAIN (ev \o <<r>>) = 1 .. n + 1
           /\ \A i \in 1 .. n : (ev \o <<r>>)[i] = ev[i]
           /\ (ev \o <<r>>)[n + 1] = r
<1>1. ev \in Seq(S) /\ Len(ev) = n
  OBVIOUS
<1>2. <<r>> \in Seq(S) /\ Len(<<r>>) = 1 /\ DOMAIN <<r>> = {1} /\ <<r>>[1] = r
  OBVIOUS
<1>3. /\ ev \o <<r>> \in Seq(S) /\ Len(ev \o <<r>>) = n + 1
      /\ \A k \in DOMAIN ev : (ev \o <<r>>)[k] = ev[k]
      /\ \A m \in DOMAIN <<r>> : (ev \o <<r>>)[Len(ev) + m] = <<r>>[m]
  BY <1>1, <1>2, ConcatFacts
<1>4. DOMAIN (ev \o <<r>>) = 1 .. n + 1
  BY <1>3
<1> QED
  BY <1>1, <1>2, <1>3, <1>4

(* RESUMED: behind the events that the shard has missed.                    *)
LEMMA ResumedLocal ==
    ASSUME ShapeOK, TypeOK, NEW s \in Shards, LocalInv(s), Resumed(s),
           Head(sent[s]).session = session[s]
    PROVE  LocalInv(s)'
<1> DEFINE n == latest[s] - last_seq[s]
           ev == [i \in 1 .. n |-> Frame("event", session[s], last_seq[s] + i)]
           r  == Frame("resumed", session[s], latest[s])
           L  == Len(wire[s])
<1>1. /\ sent[s] # << >> /\ Head(sent[s]).op = "resume"
      /\ sent' = [sent EXCEPT ![s] = Tail(@)]
      /\ UNCHANGED <<conn, identify, sessionid, last_seq, session, latest, issued, heard,
                     unread, kept>>
  BY DEF Resumed, object, history
<1>2. /\ Head(sent[s]) = Frame("resume", sessionid[s], last_seq[s]) /\ sessionid[s] # 0
      /\ sent[s] = <<Head(sent[s])>>
      /\ ~ Delayed(s) /\ OnlyLeave(s)
  BY <1>1 DEF LocalInv, TurnOK, AnswerOK, Frame
<1>3. conn[s] = "connected" /\ attached'[s] = TRUE
  BY <1>1 DEF LocalInv, LineOK, Resumed, TypeOK
<1>4. sent'[s] = << >>
  BY <1>1, <1>2, AllTaken
<1>5. /\ sessionid[s] \in Nat /\ last_seq[s] \in Nat /\ issued[s] \in Nat /\ session[s] \in Nat
      /\ latest[s] \in Nat /\ heard[s].seq \in Nat /\ HeardOf(s) \in Nat
  BY HeardFacts
<1>6. /\ session[s] = sessionid[s] /\ session[s] = issued[s] /\ session[s] # 0
      /\ Head(sent[s]).seq = last_seq[s]
      /\ last_seq[s] <= latest[s] /\ last_seq[s] # 0 /\ HeardOf(s) <= last_seq[s]
      /\ \A q \in Nat : HeardOf(s) < q /\ q <= last_seq[s] => Missed(s, q)
  BY <1>2, <1>5 DEF LocalInv, SessionOK, Frame, HeardOf
<1>7. n \in Nat /\ r \in AnyFrame /\ ev \in [1 .. n -> AnyFrame]
  BY <1>5, <1>6 DEF AnyFrame, Frame, Ops
<1>8. /\ ev \o <<r>> \in Seq(AnyFrame) /\ DOMAIN (ev \o <<r>>) = 1 .. n + 1
      /\ \A i \in 1 .. n : (ev \o <<r>>)[i] = ev[i]
      /\ (ev \o <<r>>)[n + 1] = r
  <2> HIDE DEF AnyFrame, n, ev, r
  <2> QED
    BY <1>7, ReplayFacts
<1>9. Send(s, ev \o <<r>>)
  BY <1>6 DEF Resumed
<1>10. /\ DOMAIN wire[s] \subseteq Nat /\ DOMAIN wire'[s] \subseteq Nat /\ L \in Nat
       /\ \A k \in DOMAIN wire[s] :
             k \in DOMAIN wire'[s] /\ wire'[s][k] = wire[s][k] /\ k <= L
       /\ \A m \in DOMAIN (ev \o <<r>>) : L + m \in DOMAIN wire'[s]
                                          /\ wire'[s][L + m] = (ev \o <<r>>)[m]
       /\ \A k \in DOMAIN wire'[s] :
             \/ k \in DOMAIN wire[s]
             \/ /\ k - L \in DOMAIN (ev \o <<r>>) /\ k > L
                /\ wire'[s][k] = (ev \o <<r>>)[k - L]
  <2> HIDE DEF AnyFrame, ev, r
  <2> QED
    BY <1>8, <1>9, Appended
<1>11. /\ r.op = "resumed" /\ r.session = session[s] /\ r.seq = latest[s]
       /\ \A i \in 1 .. n : ev[i].op = "event" /\ ev[i].session = session[s]
                            /\ ev[i].seq = last_seq[s] + i
  BY DEF Frame
<1> HIDE DEF ev, r
<1>12. \A k \in DOMAIN wire'[s] :
          \/ wire'[s][k].op = "leave"
          \/ /\ k \in L + 1 .. L + n /\ wire'[s][k].op = "event"
             /\ wire'[s][k].session = session[s] /\ wire'[s][k].seq = last_seq[s] + (k - L)
          \/ /\ k = L + n + 1 /\ wire'[s][k].op = "resumed"
             /\ wire'[s][k].session = session[s] /\ wire'[s][k].seq = latest[s]
  <2> SUFFICES ASSUME NEW k \in DOMAIN wire'[s], wire'[s][k].op # "leave"
               PROVE  \/ /\ k \in L + 1 .. L + n /\ wire'[s][k].op = "event"
                         /\ wire'[s][k].session = session[s]
                         /\ wire'[s][k].seq = last_seq[s] + (k - L)
                      \/ /\ k = L + n + 1 /\ wire'[s][k].op = "resumed"
                         /\ wire'[s][k].session = session[s] /\ wire'[s][k].seq = latest[s]
    OBVIOUS
  <2>1. k \notin DOMAIN wire[s]
    BY <1>2, <1>10 DEF OnlyLeave
  <2>2. k - L \in 1 .. n + 1 /\ wire'[s][k] = (ev \o <<r>>)[k - L] /\ k \in Nat
    BY <1>8, <1>10, <2>1
  <2>3. CASE k - L = n + 1
    <3>1. wire'[s][k] = r
      BY <1>8, <2>2, <2>3
    <3>2. k = L + n + 1
      BY <1>7, <1>10, <2>2, <2>3
    <3> QED
      BY <1>11, <3>1, <3>2
  <2>4. CASE k - L # n + 1
    <3>1. k - L \in 1 .. n /\ k \in L + 1 .. L + n
      BY <1>7, <1>10, <2>2, <2>4
    <3>2. wire'[s][k] = ev[k - L]
      BY <1>8, <2>2, <3>1
    <3> QED
      BY <1>11, <3>1, <3>2
  <2> QED
    BY <2>3, <2>4
<1>13. ASSUME NEW q \in Nat, last_seq[s] < q, q <= latest[s]
       PROVE  \E j \in DOMAIN wire'[s] : /\ j = L + (q - last_seq[s])
                                         /\ Numbered(wire'[s][j]) /\ wire'[s][j].seq = q
  <2> DEFINE m == q - last_seq[s]
  <2>1. m \in 1 .. n /\ m \in 1 .. n + 1 /\ last_seq[s] + m = q
    BY <1>5, <1>13
  <2>2. L + m \in DOMAIN wire'[s] /\ wire'[s][L + m] = ev[m]
    BY <1>8, <1>10, <2>1
  <2>3. Numbered(wire'[s][L + m]) /\ wire'[s][L + m].seq = q
    BY <1>11, <2>1, <2>2 DEF Numbered
  <2> QED
    BY <2>2, <2>3
<1>14. /\ ~ Asked(s)' /\ ~ Delayed(s)' /\ HeardOf(s)' = HeardOf(s)
       /\ \A q : (Missed(s, q)' <=> Missed(s, q))
  <2>1. ~ Asked(s)'
    BY <1>12 DEF Asked, Asks
  <2> QED
    BY <1>1, <1>2, <2>1 DEF Delayed, HeardOf, Missed
<1>15. LineOK(s)' /\ TurnOK(s)' /\ AnswerOK(s)'
  BY <1>1, <1>3, <1>4, <1>14 DEF LineOK, TurnOK, AnswerOK, Asked
<1>16. SessionOK(s)' /\ KnownOK(s)'
  BY <1>1, <1>14 DEF LocalInv, SessionOK, KnownOK
<1>17. FramesOK(s)'
  <2>1. \A k \in DOMAIN wire'[s] : Tells(wire'[s][k]) => wire'[s][k].session = issued[s]
    BY <1>6, <1>12 DEF Tells
  <2> QED
    BY <1>1, <1>3, <1>6, <2>1 DEF FramesOK
<1>18. \A k \in DOMAIN wire'[s] : Numbered(wire'[s][k]) =>
          /\ k \in Nat /\ k \in L + 1 .. L + n /\ wire'[s][k].seq = last_seq[s] + (k - L)
          /\ last_seq[s] < wire'[s][k].seq /\ wire'[s][k].seq <= latest[s]
  <2> SUFFICES ASSUME NEW k \in DOMAIN wire'[s], Numbered(wire'[s][k])
               PROVE  /\ k \in Nat /\ k \in L + 1 .. L + n
                      /\ wire'[s][k].seq = last_seq[s] + (k - L)
                      /\ last_seq[s] < wire'[s][k].seq /\ wire'[s][k].seq <= latest[s]
    OBVIOUS
  <2>1. k \in L + 1 .. L + n /\ wire'[s][k].seq = last_seq[s] + (k - L)
    BY <1>12 DEF Numbered
  <2>2. k \in Nat /\ k - L \in 1 .. n
    BY <1>7, <1>10, <2>1
  <2>3. last_seq[s] < last_seq[s] + (k - L) /\ last_seq[s] + (k - L) <= latest[s]
    BY <1>5, <2>2
  <2> QED
    BY <2>1, <2>2, <2>3
<1>19. NumbersOK(s)'
  <2>1. \A j, k \in DOMAIN wire'[s] :
           Numbered(wire'[s][j]) /\ Numbered(wire'[s][k]) /\ j < k
              => wire'[s][j].seq < wire'[s][k].seq
    BY <1>5, <1>10, <1>18
  <2>2. \A k \in DOMAIN wire'[s] : Numbered(wire'[s][k]) => HeardOf(s) < wire'[s][k].seq
    <3> SUFFICES ASSUME NEW k \in DOMAIN wire'[s], Numbered(wire'[s][k])
                 PROVE  HeardOf(s) < wire'[s][k].seq
      OBVIOUS
    <3>1. last_seq[s] < last_seq[s] + (k - L) /\ k - L \in Int
             /\ wire'[s][k].seq = last_seq[s] + (k - L)
      BY <1>10, <1>18
    <3> QED
      BY <1>5, <1>6, <3>1
  <2> QED
    BY <1>1, <1>14, <1>18, <2>1, <2>2 DEF NumbersOK
<1>20. EventsOK(s)'
  <2>1. ASSUME NEW k \in DOMAIN wire'[s], NEW q \in Nat, Tells(wire'[s][k]),
               HeardOf(s) < q, q <= wire'[s][k].seq
        PROVE  Missed(s, q) \/ Comes(s, q, k)'
    <3>1. CASE q <= last_seq[s]
      BY <1>6, <2>1, <3>1
    <3>2. CASE last_seq[s] < q
      <4>1. q <= latest[s] /\ L + (q - last_seq[s]) <= k
        <5>1. CASE Numbered(wire'[s][k])
          <6>1. /\ k \in Nat /\ wire'[s][k].seq = last_seq[s] + (k - L)
                /\ wire'[s][k].seq <= latest[s] /\ k - L \in Int
            BY <1>10, <1>18, <5>1
          <6>2. q <= last_seq[s] + (k - L) /\ last_seq[s] + (k - L) <= latest[s]
            BY <2>1, <6>1
          <6> QED
            BY <1>5, <1>10, <6>1, <6>2
        <5>2. CASE ~ Numbered(wire'[s][k])
          <6>1. wire'[s][k].op = "resumed"
            BY <2>1, <5>2 DEF Tells, Numbered
          <6>2. k = L + n + 1 /\ wire'[s][k].seq = latest[s]
            BY <1>12, <6>1
          <6> QED
            BY <1>5, <1>10, <2>1, <6>2
        <5> QED
          BY <5>1, <5>2
      <4>2. PICK j \in DOMAIN wire'[s] : /\ j = L + (q - last_seq[s])
                                         /\ Numbered(wire'[s][j]) /\ wire'[s][j].seq = q
        BY <1>13, <3>2, <4>1
      <4>3. j <= k
        BY <4>1, <4>2
      <4> QED
        BY <4>2, <4>3 DEF Comes
    <3> QED
      BY <1>5, <3>1, <3>2
  <2>2. HeardOf(s) <= latest[s]
    BY <1>5, <1>6
  <2>3. ASSUME NEW q \in Nat, HeardOf(s) < q, q <= latest[s]
        PROVE  Missed(s, q) \/ \E k \in DOMAIN wire'[s] : Comes(s, q, k)'
    <3>1. CASE q <= last_seq[s]
      BY <1>6, <2>3, <3>1
    <3>2. CASE last_seq[s] < q
      <4>1. PICK j \in DOMAIN wire'[s] : Numbered(wire'[s][j]) /\ wire'[s][j].seq = q
        BY <1>13, <2>3, <3>2
      <4>2. j <= j
        BY <1>10
      <4> QED
        BY <4>1, <4>2 DEF Comes
    <3> QED
      BY <1>5, <3>1, <3>2
  <2> QED
    BY <1>1, <1>14, <2>1, <2>2, <2>3 DEF EventsOK
<1>21. ResumedOK(s)'
  <2> SUFFICES ASSUME NEW k \in DOMAIN wire'[s], wire'[s][k].op = "resumed"
               PROVE  /\ HeardOf(s) <= wire'[s][k].seq /\ wire'[s][k].seq <= latest[s]
                      /\ wire'[s][k].seq # 0
                      /\ \A j \in DOMAIN wire'[s] :
                            Numbered(wire'[s][j]) /\ j < k => wire'[s][j].seq <= wire'[s][k].seq
    BY <1>1, <1>14 DEF ResumedOK
  <2>1. wire'[s][k].seq = latest[s]
    BY <1>12
  <2> QED
    BY <1>5, <1>6, <1>18, <2>1
<1> QED
  BY <1>15, <1>16, <1>17, <1>19, <1>20, <1>21 DEF LocalInv

LEMMA DropLocal ==
    ASSUME ShapeOK, TypeOK, NEW s \in Shards, LocalInv(s), DropSession(s)
    PROVE  LocalInv(s)'
<1>1. /\ attached'[s] = FALSE /\ session'[s] \in {0, session[s]}
      /\ ~ attached[s] => session'[s] = 0
      /\ UNCHANGED <<conn, identify, sessionid, last_seq, sent, latest, issued, heard, unread,
                     kept>>
  BY DEF DropSession, ShapeOK, TypeOK, object, history
<1>2. CASE attached[s]
  <2>1. Frame("invalid", 0, 0) \in AnyFrame /\ Frame("invalid", 0, 0).op = "invalid"
    BY DEF AnyFrame, Frame, Ops
  <2>2. Send(s, <<Frame("invalid", 0, 0)>>)
    BY <1>2 DEF DropSession
  <2>3. conn[s] = "connected" /\ ~ Asked(s) /\ ~ Delayed(s) /\ sent[s] = << >>
    BY <1>2 DEF LocalInv, LineOK, TurnOK
  <2> QED
    BY <1>1, <2>1, <2>2, <2>3, InvalidLocal
<1>3. CASE ~ attached[s]
  <2>1. wire' = wire
    BY <1>3 DEF DropSession
  <2>2. /\ Asked(s)' <=> Asked(s)
        /\ OnlyLeave(s)' <=> OnlyLeave(s)
        /\ Delayed(s)' <=> Delayed(s)
        /\ HeardOf(s)' = HeardOf(s)
        /\ \A m : (Missed(s, m)' <=> Missed(s, m))
        /\ \A m, k : (Comes(s, m, k)' <=> Comes(s, m, k))
    BY <1>1, <2>1 DEF Asked, OnlyLeave, Delayed, HeardOf, Missed, Comes
  <2>3. LineOK(s)' /\ TurnOK(s)' /\ AnswerOK(s)'
    BY <1>1, <1>3, <2>1, <2>2 DEF LocalInv, LineOK, TurnOK, AnswerOK
  <2>4. SessionOK(s)' /\ KnownOK(s)' /\ FramesOK(s)'
    BY <1>1, <1>3, <2>1, <2>2 DEF LocalInv, SessionOK, KnownOK, FramesOK
  <2>5. NumbersOK(s)' /\ EventsOK(s)' /\ ResumedOK(s)'
    BY <1>1, <2>1, <2>2 DEF LocalInv, NumbersOK, EventsOK, ResumedOK
  <2> QED
    BY <2>3, <2>4, <2>5 DEF LocalInv
<1> QED
  BY <1>2, <1>3

(* A shard that asks for what Discord does not grant.                       *)
LEMMA RefusedLocal ==
    ASSUME ShapeOK, TypeOK, NEW s \in Shards, LocalInv(s), sent[s] # << >>,
           Send(s, <<Frame("invalid", 0, 0)>>), sent' = [sent EXCEPT ![s] = Tail(@)],
           UNCHANGED <<object, discord, history>>
    PROVE  LocalInv(s)'
<1>1. Frame("invalid", 0, 0) \in AnyFrame /\ Frame("invalid", 0, 0).op = "invalid"
  BY DEF AnyFrame, Frame, Ops
<1>2. conn[s] = "connected"
  BY DEF LocalInv, LineOK
<1>3. ~ attached[s] /\ OnlyLeave(s) /\ ~ Delayed(s) /\ sent[s] = <<Head(sent[s])>>
  BY DEF LocalInv, TurnOK
<1>4. sent'[s] = << >>
  BY <1>3, AllTaken
<1>5. ~ Asked(s)
  BY <1>3 DEF OnlyLeave, Asked, Asks
<1>6. /\ UNCHANGED <<conn, identify>> /\ attached'[s] = FALSE
      /\ UNCHANGED <<sessionid[s], last_seq[s], latest[s], issued[s], heard[s], unread[s], kept[s]>>
      /\ session'[s] \in {0, session[s]}
  <2>1. attached[s] \in BOOLEAN
    BY DEF TypeOK
  <2> QED
    BY <1>3, <2>1 DEF object, discord, history
<1> QED
  BY <1>1, <1>2, <1>3, <1>4, <1>5, <1>6, InvalidLocal

LEMMA DiscordLocal ==
    ASSUME ShapeOK, TypeOK, NEW s \in Shards, LocalInv(s), Discord(s)
    PROVE  LocalInv(s)'
<1>1. CASE Identified(s)
  <2>1. /\ sent[s] # << >> /\ Head(sent[s]).op = "identify"
        /\ sent' = [sent EXCEPT ![s] = Tail(@)]
        /\ UNCHANGED <<object, cluster, history>>
    BY <1>1 DEF Identified
  <2>2. CASE /\ issued'   = [issued EXCEPT ![s] = @ + 1]
             /\ session'  = [session EXCEPT ![s] = issued[s] + 1]
             /\ latest'   = [latest EXCEPT ![s] = 1]
             /\ attached' = [attached EXCEPT ![s] = TRUE]
             /\ Send(s, <<Frame("ready", issued[s] + 1, 1)>>)
    <3> DEFINE x == Frame("ready", issued[s] + 1, 1)
    <3>1. x \in AnyFrame /\ x.op = "ready" /\ x.session = issued[s] + 1 /\ x.seq = 1
      BY DEF AnyFrame, Frame, Ops, ShapeOK
    <3>2. conn[s] = "connected" /\ sent[s] = <<Head(sent[s])>> /\ sessionid[s] = 0
      BY <2>1 DEF LocalInv, LineOK, TurnOK, AnswerOK, Frame
    <3>3. sent'[s] = << >>
      BY <2>1, <3>2, AllTaken
    <3>4. /\ attached'[s] = TRUE /\ issued'[s] = issued[s] + 1 /\ session'[s] = issued[s] + 1
          /\ latest'[s] = 1
      BY <2>2 DEF TypeOK, ShapeOK
    <3>5. UNCHANGED <<conn, identify, sessionid[s], last_seq[s], heard[s], unread[s], kept[s]>>
      BY <2>1 DEF object, history
    <3>6. Send(s, <<x>>)
      BY <2>2
    <3> HIDE DEF x
    <3> QED
      BY <2>1, <3>1, <3>2, <3>3, <3>4, <3>5, <3>6, ReadyLocal
  <2>3. CASE Send(s, <<Frame("invalid", 0, 0)>>) /\ UNCHANGED discord
    BY <2>1, <2>3, RefusedLocal
  <2> QED
    BY <1>1, <2>2, <2>3 DEF Identified
<1>2. CASE Resumed(s)
  <2>1. CASE Head(sent[s]).session = session[s]
    BY <1>2, <2>1, ResumedLocal
  <2>2. CASE Head(sent[s]).session # session[s]
    BY <1>2, <2>2, RefusedLocal DEF Resumed, discord
  <2> QED
    BY <2>1, <2>2
<1>3. CASE Event(s)
  BY <1>3, EventLocal
<1>4. CASE Acknowledge(s)
  <2>1. Frame("ack", 0, 0) \in AnyFrame /\ Frame("ack", 0, 0).op = "ack"
    BY DEF AnyFrame, Frame, Ops
  <2> QED
    BY <1>4, <2>1, PlainLocal DEF Acknowledge, object, discord, history, Talk
<1>5. CASE DropSession(s)
  BY <1>5, DropLocal
<1>6. CASE AskToLeave(s)
  <2>1. Frame("leave", 0, 0) \in AnyFrame /\ Frame("leave", 0, 0).op = "leave"
    BY DEF AnyFrame, Frame, Ops
  <2> QED
    BY <1>6, <2>1, PlainLocal DEF AskToLeave, object, discord, history, Talk
<1> QED
  BY <1>1, <1>2, <1>3, <1>4, <1>5, <1>6 DEF Discord

-----------------------------------------------------------------------------
(* Shards do not touch each other.                                          *)
LEMMA OthersOpen ==
    ASSUME ShapeOK, TypeOK, NEW s \in Shards, NEW t \in Shards, t # s, Close({s})
    PROVE  UNCHANGED Line(t)
<1>1. /\ DOMAIN wire = Shards /\ DOMAIN sent = Shards
      /\ DOMAIN attached = Shards /\ DOMAIN conn = Shards
  BY DEF ShapeOK, TypeOK
<1>2. wire'[t] = wire[t] /\ sent'[t] = sent[t] /\ conn'[t] = conn[t]
  BY <1>1 DEF Close, With
<1>3. attached'[t] = attached[t]
  BY <1>1 DEF Close, With
<1> QED
  BY <1>2, <1>3 DEF Line

LEMMA OthersKept ==
    ASSUME ShapeOK, TypeOK, NEW s \in Shards, NEW t \in Shards, t # s,
           \/ Connected(s) \/ Break(s) \/ CloseNotify(s) \/ Handle(s) \/ Discord(s)
           \/ IdentifyTimer(s)
    PROVE  UNCHANGED Talk(t) /\ UNCHANGED Line(t) /\ identify'[t] = identify[t]
<1>1. CASE Connected(s)
  BY <1>1 DEF Connected, Talk, Line, cluster, discord, history
<1>2. CASE Break(s)
  <2>1. UNCHANGED Talk(t) /\ identify'[t] = identify[t]
    BY <1>2 DEF Break, Talk, history
  <2>2. UNCHANGED Line(t)
    BY <1>2, OthersOpen DEF Break
  <2> QED
    BY <2>1, <2>2
<1>3. CASE Hello(s)
  BY <1>3 DEF Hello, Handling, StaysOpen, Talk, Line, ShapeOK, TypeOK
<1>4. CASE Dispatch(s)
  <2>1. UNCHANGED Talk(t) /\ identify'[t] = identify[t]
    BY <1>4 DEF Dispatch, Handler, Returns, Throws, Noted, Handling, Talk, ShapeOK
  <2>2. UNCHANGED Line(t)
    BY <1>4, OthersOpen DEF Dispatch, Returns, Throws, StaysOpen, Line, ShapeOK
  <2> QED
    BY <2>1, <2>2
<1>5. CASE HeartbeatAck(s)
  BY <1>5 DEF HeartbeatAck, Handling, StaysOpen, Talk, Line, ShapeOK, TypeOK, history
<1>6. CASE Disconnect(s)
  <2>1. UNCHANGED Talk(t) /\ identify'[t] = identify[t]
    BY <1>6 DEF Disconnect, Handling, Talk, history
  <2>2. UNCHANGED Line(t)
    BY <1>6, OthersOpen DEF Disconnect
  <2> QED
    BY <2>1, <2>2
<1>7. CASE Discord(s)
  <2>1. UNCHANGED <<conn, sessionid, last_seq, identify, heard, unread, kept>>
    BY <1>7 DEF Discord, Identified, Resumed, Event, Acknowledge, DropSession, AskToLeave, object,
                history
  <2>2. wire'[t] = wire[t]
    BY <1>7 DEF Discord, Identified, Resumed, Event, Acknowledge, DropSession, AskToLeave, Send,
                ShapeOK
  <2>3. sent'[t] = sent[t]
    BY <1>7 DEF Discord, Identified, Resumed, Event, Acknowledge, DropSession, AskToLeave, ShapeOK
  <2>4. session'[t] = session[t] /\ latest'[t] = latest[t] /\ issued'[t] = issued[t]
    BY <1>7 DEF Discord, Identified, Resumed, Event, Acknowledge, DropSession, AskToLeave,
                ShapeOK, discord
  <2>5. attached'[t] = attached[t]
    BY <1>7 DEF Discord, Identified, Resumed, Event, Acknowledge, DropSession, AskToLeave, TypeOK,
                discord
  <2> QED
    BY <2>1, <2>2, <2>3, <2>4, <2>5 DEF Talk, Line
<1>8. CASE IdentifyTimer(s)
  BY <1>8 DEF IdentifyTimer, Talk, Line, discord, history
<1>9. CASE CloseNotify(s)
  BY <1>9 DEF CloseNotify, Talk, Line, ShapeOK, TypeOK, history
<1>10. CASE Unparsed(s)
  BY <1>10 DEF Unparsed, Handling, StaysOpen, Talk, Line, ShapeOK
<1> QED
  BY <1>1, <1>2, <1>3, <1>4, <1>5, <1>6, <1>7, <1>8, <1>9, <1>10 DEF Handle

LEMMA StepLocal ==
    ASSUME ShapeOK, TypeOK, NEW s \in Shards, LocalInv(s),
           \/ Connected(s) \/ Break(s) \/ CloseNotify(s) \/ Handle(s) \/ Discord(s)
           \/ IdentifyTimer(s)
    PROVE  LocalInv(s)'
BY ConnectedLocal, BreakLocal, CloseNotifyLocal, HelloLocal, DispatchLocal, AckLocal,
   UnparsedLocal, DiscordLocal, IdentifyLocal
   DEF Handle

(* The monitor: it has a list of shards whose connections were closed.      *)
LEMMA MonitorLocal ==
    ASSUME ShapeOK, TypeOK, WaitsIffClosed, NEW t \in Shards, LocalInv(t), Monitor
    PROVE  LocalInv(t)'
<1>1. UNCHANGED <<wire, sent, discord, history>> /\ ~ crashed
  BY DEF Monitor
<1>2. CASE UNCHANGED object
  BY <1>1, <1>2, LocalKept DEF Talk, Line, object, discord, history
<1>3. ASSUME NEW s \in Due, conn[s] # "none", Renew(s) \/ RenewFails(s),
             identify' = [identify EXCEPT ![s] = None]
      PROVE  LocalInv(t)'
  <2>1. s \in Shards /\ conn[s] = "closed"
    BY <1>1, <1>3 DEF Due, WaitsIffClosed
  <2>2. CASE t = s
    BY <1>1, <1>3, <2>1, <2>2, RenewLocal
  <2>3. CASE t # s
    <3>1. UNCHANGED Talk(t) /\ UNCHANGED Line(t) /\ identify'[t] = identify[t]
      BY <1>1, <1>3, <2>3 DEF Renew, RenewFails, Talk, Line, discord, history, ShapeOK, TypeOK
    <3> QED
      BY <3>1, LocalKept
  <2> QED
    BY <2>2, <2>3
<1> QED
  BY <1>2, <1>3 DEF Monitor

LEMMA NextLocal ==
    ASSUME Inv, [Next]_vars, NEW t \in Shards
    PROVE  LocalInv(t)'
<1> USE DEF Inv
<1>1. ASSUME NEW s \in Shards,
             \/ Connected(s) \/ Break(s) \/ CloseNotify(s) \/ Handle(s) \/ Discord(s)
             \/ IdentifyTimer(s)
      PROVE  LocalInv(t)'
  <2>1. CASE t = s
    BY <1>1, <2>1, StepLocal
  <2>2. CASE t # s
    <3>1. UNCHANGED Talk(t) /\ UNCHANGED Line(t) /\ identify'[t] = identify[t]
      BY <1>1, <2>2, OthersKept
    <3> QED
      BY <3>1, LocalKept
  <2> QED
    BY <2>1, <2>2
<1>2. CASE Monitor
  BY <1>2, MonitorLocal
<1>3. CASE Second
  BY <1>3, SecondLocal
<1>4. CASE StrayTimer \/ UNCHANGED vars
  <2>1. UNCHANGED <<object, wire, sent, discord, history>>
    BY <1>4 DEF StrayTimer, vars
  <2> QED
    BY <2>1, LocalKept DEF Talk, Line, object, discord, history
<1> QED
  BY <1>1, <1>2, <1>3, <1>4 DEF Next, Timers

-----------------------------------------------------------------------------
(* Types.                                                                   *)
LEMMA WithFacts ==
    ASSUME NEW S, NEW T, NEW f \in [S -> T], NEW R, NEW v \in T,
           NEW g, g = With(f, R, v)
    PROVE  g \in [S -> T]
BY DEF With

LEMMA SendShape ==
    ASSUME ShapeOK, NEW s \in Shards, NEW v \in Seq(AnyFrame), Send(s, v)
    PROVE  wire' \in [Shards -> Seq(AnyFrame)]
<1>1. wire[s] \o v \in Seq(AnyFrame)
  BY ConcatFacts DEF ShapeOK
<1> QED
  BY <1>1 DEF ShapeOK, Send

LEMMA TailShape ==
    ASSUME NEW q \in [Shards -> Seq(AnyFrame)], NEW s \in Shards, q[s] # << >>
    PROVE  /\ [q EXCEPT ![s] = Tail(@)] \in [Shards -> Seq(AnyFrame)]
           /\ Head(q[s]) \in AnyFrame
<1> HIDE DEF AnyFrame
<1>1. Tail(q[s]) \in Seq(AnyFrame) /\ Head(q[s]) \in AnyFrame
  OBVIOUS
<1> QED
  BY <1>1

LEMMA CloseShape ==
    ASSUME ShapeOK, NEW S, Close(S)
    PROVE  {wire', sent'} \subseteq [Shards -> Seq(AnyFrame)]
<1>1. << >> \in Seq(AnyFrame)
  OBVIOUS
<1>2. wire \in [Shards -> Seq(AnyFrame)] /\ sent \in [Shards -> Seq(AnyFrame)]
  BY DEF ShapeOK
<1>3. wire' = With(wire, S, << >>) /\ sent' = With(sent, S, << >>)
  BY DEF Close
<1> DEFINE T == Seq(AnyFrame)
<1> HIDE DEF T
<1>4. wire \in [Shards -> T] /\ sent \in [Shards -> T] /\ << >> \in T
  BY <1>1, <1>2 DEF T
<1>5. wire' \in [Shards -> T] /\ sent' \in [Shards -> T]
  BY <1>3, <1>4, WithFacts
<1> QED
  BY <1>5 DEF T

LEMMA HandleShape ==
    ASSUME ShapeOK, NEW s \in Shards, Handle(s)
    PROVE  ShapeOK'
<1>1. /\ wire[s] # << >> /\ UNCHANGED <<session, latest, issued>>
      /\ wire \in [Shards -> Seq(AnyFrame)] /\ sent \in [Shards -> Seq(AnyFrame)]
      /\ sessionid \in [Shards -> Nat] /\ last_seq \in [Shards -> Nat]
      /\ session \in [Shards -> Nat] /\ latest \in [Shards -> Nat] /\ issued \in [Shards -> Nat]
      /\ heard \in [Shards -> AnyFrame] /\ kept \in [Shards -> Nat]
      /\ unread \in [Shards -> SUBSET (Nat \X Nat)]
  BY DEF Handle, Hello, Dispatch, Handler, HeartbeatAck, Disconnect, Unparsed, Handling, ShapeOK
<1>2. /\ [wire EXCEPT ![s] = Tail(@)] \in [Shards -> Seq(AnyFrame)]
      /\ Head(wire[s]) \in AnyFrame
  BY <1>1, TailShape
<1>3. Head(wire[s]).session \in Nat /\ Head(wire[s]).seq \in Nat
  BY <1>2 DEF AnyFrame
<1>4. CASE Hello(s)
  <2>1. /\ sessionid' \in [Shards -> Nat] /\ last_seq' \in [Shards -> Nat]
        /\ kept' \in [Shards -> Nat]
    BY <1>1, <1>4 DEF Hello
  <2>5. unread' \in [Shards -> SUBSET (Nat \X Nat)]
    <3>1. {u \in unread[s] : u[2] <= last_seq'[s]} \in SUBSET (Nat \X Nat)
      BY <1>1
    <3>2. \/ unread' = unread
          \/ unread' = [unread EXCEPT ![s] = {u \in @ : u[2] <= last_seq'[s]}]
      BY <1>4 DEF Hello
    <3> QED
      BY <1>1, <3>1, <3>2
  <2>2. \A x \in AnyFrame : [sent EXCEPT ![s] = Append(@, x)] \in [Shards -> Seq(AnyFrame)]
    <3> HIDE DEF AnyFrame
    <3> QED
      BY <1>1
  <2>3. Frame("identify", 0, 0) \in AnyFrame
        /\ Frame("resume", sessionid'[s], last_seq'[s]) \in AnyFrame
    BY <2>1 DEF Frame, AnyFrame
  <2>4. sent' \in [Shards -> Seq(AnyFrame)]
    <3>1. \/ sent' = sent
          \/ sent' = [sent EXCEPT ![s] = Append(@, Frame("resume", sessionid'[s], last_seq'[s]))]
          \/ sent' = [sent EXCEPT ![s] = Append(@, Frame("identify", 0, 0))]
      BY <1>4 DEF Hello
    <3> HIDE DEF AnyFrame
    <3> QED
      BY <1>1, <2>2, <2>3, <3>1
  <2> QED
    BY <1>1, <1>2, <1>4, <2>1, <2>4, <2>5 DEF Hello, ShapeOK
<1>5. CASE Dispatch(s)
  <2>1. /\ sessionid' \in [Shards -> Nat] /\ last_seq' \in [Shards -> Nat]
        /\ kept' \in [Shards -> Nat] /\ unread' = unread
    BY <1>1, <1>3, <1>5 DEF Dispatch, Handler, Returns, Throws, Noted
  <2>2. heard' \in [Shards -> AnyFrame]
    <3> HIDE DEF AnyFrame
    <3> QED
      BY <1>1, <1>2, <1>5 DEF Dispatch, Handler
  <2>3. {wire', sent'} \subseteq [Shards -> Seq(AnyFrame)]
    BY <1>1, <1>2, <1>5, CloseShape DEF Dispatch, Returns, Throws
  <2> QED
    BY <1>1, <2>1, <2>2, <2>3 DEF ShapeOK
<1>6. CASE HeartbeatAck(s)
  BY <1>1, <1>2, <1>6 DEF HeartbeatAck, ShapeOK, history
<1>7. CASE Disconnect(s)
  <2>1. {wire', sent'} \subseteq [Shards -> Seq(AnyFrame)]
    BY <1>7, CloseShape DEF Disconnect
  <2> QED
    BY <1>1, <1>7, <2>1 DEF Disconnect, ShapeOK, history
<1>8. CASE Unparsed(s)
  <2>1. unread' \in [Shards -> SUBSET (Nat \X Nat)]
    <3>1. unread[s] \union {<<Head(wire[s]).session, Head(wire[s]).seq>>} \in SUBSET (Nat \X Nat)
      BY <1>1, <1>3
    <3>2. \/ unread' = unread
          \/ unread' = [unread EXCEPT ![s] =
                           @ \union {<<Head(wire[s]).session, Head(wire[s]).seq>>}]
      BY <1>8 DEF Unparsed
    <3> QED
      BY <1>1, <3>1, <3>2
  <2>2. /\ wire' = [wire EXCEPT ![s] = Tail(@)]
        /\ UNCHANGED <<sessionid, last_seq, sent, heard, kept>>
    BY <1>8 DEF Unparsed
  <2> QED
    BY <1>1, <1>2, <2>1, <2>2 DEF ShapeOK
<1> QED
  BY <1>4, <1>5, <1>6, <1>7, <1>8 DEF Handle

LEMMA DiscordShape ==
    ASSUME ShapeOK, NEW s \in Shards, Discord(s)
    PROVE  ShapeOK'
<1>1. /\ wire \in [Shards -> Seq(AnyFrame)] /\ sent \in [Shards -> Seq(AnyFrame)]
      /\ session \in [Shards -> Nat] /\ latest \in [Shards -> Nat] /\ issued \in [Shards -> Nat]
      /\ UNCHANGED <<sessionid, last_seq, heard, unread, kept>>
      /\ sessionid \in [Shards -> Nat] /\ last_seq \in [Shards -> Nat]
      /\ heard \in [Shards -> AnyFrame] /\ kept \in [Shards -> Nat]
      /\ unread \in [Shards -> SUBSET (Nat \X Nat)]
  BY DEF Discord, Identified, Resumed, Event, Acknowledge, DropSession, AskToLeave, object,
         ShapeOK, history
<1>2. sent[s] # << >> =>
         /\ [sent EXCEPT ![s] = Tail(@)] \in [Shards -> Seq(AnyFrame)]
         /\ Head(sent[s]).session \in Nat /\ Head(sent[s]).seq \in Nat
  <2>1. sent[s] # << >> => /\ [sent EXCEPT ![s] = Tail(@)] \in [Shards -> Seq(AnyFrame)]
                           /\ Head(sent[s]) \in AnyFrame
    BY <1>1, TailShape
  <2> QED
    BY <2>1 DEF AnyFrame
<1>3. \A op \in Ops, n \in Nat, q \in Nat : <<Frame(op, n, q)>> \in Seq(AnyFrame)
  <2>1. \A op \in Ops, n \in Nat, q \in Nat : Frame(op, n, q) \in AnyFrame
    BY DEF Frame, AnyFrame
  <2> HIDE DEF AnyFrame
  <2> QED
    BY <2>1, SingleFacts
<1>4. {"ready", "invalid", "resumed", "event", "ack", "leave"} \subseteq Ops
  BY DEF Ops
<1>5. CASE Identified(s)
  <2>1. sent' \in [Shards -> Seq(AnyFrame)]
    BY <1>2, <1>5 DEF Identified
  <2>2. /\ session' \in [Shards -> Nat] /\ latest' \in [Shards -> Nat]
        /\ issued' \in [Shards -> Nat]
    <3>1. issued[s] + 1 \in Nat /\ 1 \in Nat
      BY <1>1
    <3>2. CASE UNCHANGED discord
      BY <1>1, <3>2 DEF discord
    <3>3. CASE ~ UNCHANGED discord
      <4>1. /\ issued'  = [issued EXCEPT ![s] = issued[s] + 1]
            /\ session' = [session EXCEPT ![s] = issued[s] + 1]
            /\ latest'  = [latest EXCEPT ![s] = 1]
        BY <1>5, <3>3 DEF Identified
      <4> QED
        BY <1>1, <3>1, <4>1
    <3> QED
      BY <3>2, <3>3
  <2>3. wire' \in [Shards -> Seq(AnyFrame)]
    <3>1. /\ <<Frame("ready", issued[s] + 1, 1)>> \in Seq(AnyFrame)
          /\ <<Frame("invalid", 0, 0)>> \in Seq(AnyFrame)
      BY <1>1, <1>3, <1>4
    <3> QED
      BY <1>5, <3>1, SendShape DEF Identified
  <2> QED
    BY <1>1, <2>1, <2>2, <2>3 DEF ShapeOK
<1>6. CASE Resumed(s)
  <2> DEFINE n == latest[s] - Head(sent[s]).seq
             ev == [i \in 1 .. n |-> Frame("event", session[s], Head(sent[s]).seq + i)]
             r == <<Frame("resumed", session[s], latest[s])>>
  <2>1. sent' \in [Shards -> Seq(AnyFrame)] /\ Head(sent[s]).seq \in Nat
    BY <1>2, <1>6 DEF Resumed
  <2>2. ev \o r \in Seq(AnyFrame) /\ <<Frame("invalid", 0, 0)>> \in Seq(AnyFrame)
    <3>1. r \in Seq(AnyFrame) /\ <<Frame("invalid", 0, 0)>> \in Seq(AnyFrame)
      BY <1>1, <1>3, <1>4
    <3>2. n \in Int /\ \A i \in 1 .. n : ev[i] \in AnyFrame
      <4>1. n \in Int /\ session[s] \in Nat
        BY <1>1, <2>1
      <4>2. \A i \in 1 .. n : Head(sent[s]).seq + i \in Nat
        BY <2>1, <4>1
      <4>3. \A q \in Nat : Frame("event", session[s], q) \in AnyFrame
        BY <4>1 DEF AnyFrame, Frame, Ops
      <4> HIDE DEF AnyFrame
      <4> QED
        BY <4>1, <4>2, <4>3
    <3>3. ev \in Seq(AnyFrame)
      <4> HIDE DEF AnyFrame
      <4>1. CASE n \in Nat
        BY <3>2, <4>1
      <4>2. CASE n < 0
        BY <3>2, <4>2
      <4> QED
        BY <3>2, <4>1, <4>2
    <3> HIDE DEF ev, r
    <3> QED
      BY <3>1, <3>3, ConcatFacts
  <2>3. Send(s, ev \o r) \/ Send(s, <<Frame("invalid", 0, 0)>>)
    BY <1>6 DEF Resumed
  <2>4. wire' \in [Shards -> Seq(AnyFrame)]
    <3> HIDE DEF ev, r
    <3> QED
      BY <2>2, <2>3, SendShape
  <2> QED
    BY <1>1, <1>6, <2>1, <2>4 DEF Resumed, ShapeOK
<1>7. CASE Event(s)
  <2>1. wire' \in [Shards -> Seq(AnyFrame)]
    <3>1. <<Frame("event", session[s], latest[s] + 1)>> \in Seq(AnyFrame)
      BY <1>1, <1>3, <1>4
    <3> QED
      BY <1>1, <1>7, <3>1, SendShape DEF Event
  <2>2. latest' \in [Shards -> Nat] /\ UNCHANGED <<sent, session, issued>>
    BY <1>1, <1>7 DEF Event
  <2> QED
    BY <1>1, <2>1, <2>2 DEF ShapeOK
<1>8. CASE Acknowledge(s) \/ AskToLeave(s)
  <2>1. wire' \in [Shards -> Seq(AnyFrame)]
    BY <1>3, <1>4, <1>8, SendShape DEF Acknowledge, AskToLeave
  <2> QED
    BY <1>1, <1>8, <2>1 DEF Acknowledge, AskToLeave, discord, ShapeOK
<1>9. CASE DropSession(s)
  <2>1. wire' \in [Shards -> Seq(AnyFrame)]
    BY <1>1, <1>3, <1>4, <1>9, SendShape DEF DropSession
  <2>2. session' \in [Shards -> Nat] /\ UNCHANGED <<sent, latest, issued>>
    <3>1. session' = [session EXCEPT ![s] = 0] \/ session' = session
      BY <1>9 DEF DropSession
    <3>2. UNCHANGED <<sent, latest, issued>>
      BY <1>9 DEF DropSession
    <3>3. session \in [Shards -> Nat] /\ 0 \in Nat
      BY <1>1
    <3>4. session' \in [Shards -> Nat]
      BY <3>1, <3>3
    <3> QED
      BY <3>2, <3>4
  <2> QED
    BY <1>1, <2>1, <2>2 DEF ShapeOK
<1> QED
  BY <1>5, <1>6, <1>7, <1>8, <1>9 DEF Discord

LEMMA NextShape == ShapeOK /\ [Next]_vars => ShapeOK'
<1> SUFFICES ASSUME ShapeOK, [Next]_vars PROVE ShapeOK'
  OBVIOUS
<1>1. ASSUME NEW s \in Shards, Connected(s) PROVE ShapeOK'
  <2>1. <<Frame("hello", 0, 0)>> \in Seq(AnyFrame)
    BY DEF Frame, AnyFrame, Ops
  <2> QED
    BY <1>1, <2>1 DEF Connected, discord, ShapeOK, history
<1>2. ASSUME NEW s \in Shards, Break(s) PROVE ShapeOK'
  BY <1>2, CloseShape DEF Break, ShapeOK, history
<1>7. ASSUME NEW s \in Shards, CloseNotify(s) PROVE ShapeOK'
  <2>1. << >> \in Seq(AnyFrame)
    OBVIOUS
  <2>2. sent' \in [Shards -> Seq(AnyFrame)]
    <3> HIDE DEF AnyFrame
    <3> QED
      BY <1>7, <2>1 DEF CloseNotify, ShapeOK
  <2>3. UNCHANGED <<sessionid, last_seq, wire, session, latest, issued, heard, unread, kept>>
    BY <1>7 DEF CloseNotify, history
  <2> QED
    BY <2>2, <2>3 DEF ShapeOK
<1>3. ASSUME NEW s \in Shards, IdentifyTimer(s) PROVE ShapeOK'
  <2>1. Frame("identify", 0, 0) \in AnyFrame
    BY DEF Frame, AnyFrame
  <2>2. [sent EXCEPT ![s] = Append(@, Frame("identify", 0, 0))] \in [Shards -> Seq(AnyFrame)]
    <3> HIDE DEF AnyFrame
    <3> QED
      BY <2>1 DEF ShapeOK
  <2> QED
    BY <1>3, <2>2 DEF IdentifyTimer, discord, ShapeOK, history
<1>4. CASE Monitor
  <2>1. sessionid' \in [Shards -> Nat] /\ last_seq' \in [Shards -> Nat]
    <3>1. sessionid \in [Shards -> Nat] /\ last_seq \in [Shards -> Nat]
      BY DEF ShapeOK
    <3>2. \/ UNCHANGED <<sessionid, last_seq>>
          \/ \E s \in Due : /\ sessionid' = [sessionid EXCEPT ![s] = 0]
                            /\ last_seq' = [last_seq EXCEPT ![s] = 0]
      BY <1>4 DEF Monitor, Renew, RenewFails, object
    <3> QED
      BY <3>1, <3>2
  <2>2. UNCHANGED <<session, latest, issued, heard, unread, kept, wire, sent>>
    BY <1>4 DEF Monitor, discord, history
  <2> QED
    BY <2>1, <2>2 DEF ShapeOK
<1>5. CASE Second
  <2>1. << >> \in Seq(AnyFrame)
    OBVIOUS
  <2>2. wire \in [Shards -> Seq(AnyFrame)] /\ sent \in [Shards -> Seq(AnyFrame)]
    BY DEF ShapeOK
  <2>3. PICK S : wire' = With(wire, S, << >>) /\ sent' = With(sent, S, << >>)
    BY <1>5 DEF Second
  <2>4. wire' \in [Shards -> Seq(AnyFrame)] /\ sent' \in [Shards -> Seq(AnyFrame)]
    <3> DEFINE T == Seq(AnyFrame)
    <3> HIDE DEF T
    <3>1. wire \in [Shards -> T] /\ sent \in [Shards -> T] /\ << >> \in T
      BY <2>1, <2>2 DEF T
    <3>2. wire' \in [Shards -> T] /\ sent' \in [Shards -> T]
      BY <2>3, <3>1, WithFacts
    <3> QED
      BY <3>2 DEF T
  <2>5. UNCHANGED <<sessionid, last_seq, session, latest, issued, heard, unread, kept>>
    BY <1>5 DEF Second, history
  <2> QED
    BY <2>4, <2>5 DEF ShapeOK
<1>6. CASE StrayTimer \/ UNCHANGED vars
  BY <1>6 DEF StrayTimer, vars, object, discord, ShapeOK, history
<1> QED
  BY <1>1, <1>2, <1>3, <1>4, <1>5, <1>6, <1>7, HandleShape, DiscordShape DEF Next, Timers

(* What TypeOK says of one shard, and the rest of it.                       *)
ShardOK(s) ==
    /\ {sessionid[s], session[s], issued[s], kept[s]} \subseteq 0 .. MaxSessions[s]
    /\ {last_seq[s], latest[s]} \subseteq 0 .. MaxEvents[s]
    /\ wire[s] \in Seq(Frames(s)) /\ Len(wire[s]) <= MaxWire[s]
    /\ Len(sent[s]) <= 1
    /\ heard[s] \in Frames(s)
    /\ unread[s] \subseteq (0 .. MaxSessions[s]) \X (0 .. MaxEvents[s])

Connections == {"none", "connecting", "connected", "closed", "stranded", "ended", "dead"}

ObjectOK ==
    /\ conn \in [Shards -> Connections]
    /\ age \in [Shards -> 0 .. ConnectTimeout]
    /\ ready \in [Shards -> BOOLEAN] /\ attached \in [Shards -> BOOLEAN]
    /\ ack \in [Shards -> 0 .. AckLimit + 1]
    /\ identify \in [Shards -> None .. RECONNECT_INTERVAL]

ClusterOK ==
    /\ stray \subseteq 0 .. RECONNECT_INTERVAL
    /\ DOMAIN reconnections \subseteq Shards
    /\ \A s \in DOMAIN reconnections : reconnections[s] \in 0 .. RECONNECT_INTERVAL
    /\ monitor \in 0 .. MonitorPeriod
    /\ since \in 0 .. RECONNECT_INTERVAL
    /\ crashed \in BOOLEAN

LEMMA TypeParts == TypeOK <=> ObjectOK /\ ClusterOK /\ \A s \in Shards : ShardOK(s)
BY DEF TypeOK, ObjectOK, ClusterOK, ShardOK, Connections

LEMMA Bounds ==
    ASSUME NEW s \in Shards
    PROVE  /\ MaxSessions[s] \in Nat /\ MaxEvents[s] \in Nat /\ MaxWire[s] \in Nat \ {0}
           /\ MaxSessions[s] # 0 => MaxEvents[s] # 0
BY ShardAssumption DEF Shards

LEMMA Periods ==
    /\ {RECONNECT_INTERVAL, MonitorPeriod, ConnectTimeout, AckLimit} \subseteq Nat
    /\ RECONNECT_INTERVAL # 0 /\ MonitorPeriod # 0 /\ ConnectTimeout # 0
    /\ ConnectRetry \in Nat /\ ConnectRetry < ConnectTimeout
<1>1. /\ RECONNECT_INTERVAL \in Nat \ {0} /\ MonitorPeriod \in Nat \ {0}
      /\ ConnectTimeout \in Nat \ {0}
      /\ ConnectRetry \in Nat /\ ConnectRetry < ConnectTimeout
  BY ShardAssumption
<1>2. HeartbeatSeconds \in Nat /\ MsPerSecond \in Nat
  BY ShardAssumption
<1>3. HeartbeatSeconds * MsPerSecond \in Nat
  BY <1>2
<1> QED
  BY <1>1, <1>2, <1>3 DEF AckLimit

LEMMA ShardKept ==
    ASSUME NEW t \in Shards, ShardOK(t), UNCHANGED Talk(t), UNCHANGED Line(t)
    PROVE  ShardOK(t)'
BY DEF ShardOK, Talk, Line, Frames

(* Frames sent by Discord are within the bounds, and their number is.       *)
LEMMA SendOK ==
    ASSUME ShapeOK, NEW s \in Shards, ShardOK(s), NEW v \in Seq(Frames(s)), Send(s, v)
    PROVE  wire'[s] \in Seq(Frames(s)) /\ Len(wire'[s]) <= MaxWire[s]
<1>1. wire[s] \in Seq(Frames(s)) /\ wire'[s] = wire[s] \o v /\ Len(wire[s]) + Len(v) <= MaxWire[s]
  BY DEF ShardOK, Send, ShapeOK
<1> HIDE DEF Frames
<1>2. wire[s] \o v \in Seq(Frames(s)) /\ Len(wire[s] \o v) = Len(wire[s]) + Len(v)
  BY <1>1, ConcatFacts
<1> QED
  BY <1>1, <1>2

LEMMA FramesFacts ==
    ASSUME NEW s \in Shards, NEW op \in Ops, NEW n \in 0 .. MaxSessions[s],
           NEW q \in 0 .. MaxEvents[s]
    PROVE  Frame(op, n, q) \in Frames(s) /\ <<Frame(op, n, q)>> \in Seq(Frames(s))
<1>1. Frame(op, n, q) \in Frames(s)
  BY DEF Frame, Frames
<1> HIDE DEF Frames, Frame
<1> QED
  BY <1>1, SingleFacts

LEMMA HandleShard ==
    ASSUME ShapeOK, TypeOK, NEW s \in Shards, LocalInv(s), ShardOK(s), Handle(s)
    PROVE  ShardOK(s)'
<1>1. /\ wire[s] # << >> /\ UNCHANGED <<session, latest, issued>>
      /\ wire[s] \in Seq(Frames(s)) /\ Len(wire[s]) <= MaxWire[s] /\ Len(sent[s]) <= 1
      /\ heard[s] \in Frames(s) /\ sessionid[s] \in 0 .. MaxSessions[s]
      /\ last_seq[s] \in 0 .. MaxEvents[s]
      /\ {session[s], issued[s]} \subseteq 0 .. MaxSessions[s] /\ latest[s] \in 0 .. MaxEvents[s]
      /\ kept[s] \in 0 .. MaxSessions[s]
      /\ unread[s] \subseteq (0 .. MaxSessions[s]) \X (0 .. MaxEvents[s])
  BY DEF Handle, Hello, Dispatch, Handler, HeartbeatAck, Disconnect, Unparsed, Handling, ShardOK
<1>2. /\ MaxSessions[s] \in Nat /\ MaxEvents[s] \in Nat /\ MaxWire[s] \in Nat
  BY Bounds
<1>3. Tail(wire[s]) \in Seq(Frames(s)) /\ Len(Tail(wire[s])) <= MaxWire[s]
      /\ Head(wire[s]) \in Frames(s)
  <2> HIDE DEF Frames
  <2> QED
    BY <1>1, <1>2
<1>4. Head(wire[s]).session \in 0 .. MaxSessions[s] /\ Head(wire[s]).seq \in 0 .. MaxEvents[s]
  BY <1>3 DEF Frames
<1>5. ASSUME Close({s})
      PROVE  wire'[s] \in Seq(Frames(s)) /\ Len(wire'[s]) <= MaxWire[s] /\ Len(sent'[s]) <= 1
  <2>1. wire'[s] = << >> /\ sent'[s] = << >>
    BY <1>5, CutFacts
  <2> HIDE DEF Frames
  <2> QED
    BY <1>2, <2>1
<1>6. CASE Hello(s)
  <2>1. /\ wire'[s] = Tail(wire[s]) /\ heard' = heard
        /\ sessionid'[s] \in 0 .. MaxSessions[s] /\ last_seq'[s] \in 0 .. MaxEvents[s]
        /\ kept'[s] \in 0 .. MaxSessions[s]
    BY <1>1, <1>2, <1>6 DEF Hello, ShapeOK
  <2>3. unread'[s] \subseteq (0 .. MaxSessions[s]) \X (0 .. MaxEvents[s])
    <3>1. unread'[s] \subseteq unread[s]
      BY <1>6 DEF Hello, ShapeOK
    <3> QED
      BY <1>1, <3>1
  <2>2. Len(sent'[s]) <= 1
    <3>1. Asked(s)
      <4>1. Head(wire[s]) = wire[s][1] /\ 1 \in DOMAIN wire[s]
        BY <1>1, <1>6, Popped DEF Hello
      <4> QED
        BY <1>6, <4>1 DEF Hello, Asked, Asks
    <3>2. sent[s] = << >>
      BY <3>1 DEF LocalInv, TurnOK
    <3>3. ASSUME NEW x PROVE Len(Append(<< >>, x)) <= 1
      OBVIOUS
    <3>4. \/ sent' = sent
          \/ \E x : sent' = [sent EXCEPT ![s] = Append(@, x)]
      BY <1>6 DEF Hello
    <3>5. sent'[s] = << >> \/ \E x : sent'[s] = Append(<< >>, x)
      BY <3>2, <3>4 DEF ShapeOK
    <3>6. Len(<< >>) <= 1
      OBVIOUS
    <3> QED
      BY <3>3, <3>5, <3>6
  <2> QED
    BY <1>1, <1>3, <2>1, <2>2, <2>3 DEF ShardOK, Frames
<1>7. CASE Dispatch(s)
  <2>1. /\ sessionid'[s] \in 0 .. MaxSessions[s] /\ last_seq'[s] \in 0 .. MaxEvents[s]
        /\ kept'[s] \in 0 .. MaxSessions[s] /\ unread' = unread
    BY <1>1, <1>4, <1>7 DEF Dispatch, Handler, Returns, Throws, Noted, ShapeOK
  <2>2. heard'[s] \in Frames(s)
    <3> HIDE DEF Frames
    <3> QED
      BY <1>1, <1>3, <1>7 DEF Dispatch, Handler, ShapeOK
  <2>3. wire'[s] \in Seq(Frames(s)) /\ Len(wire'[s]) <= MaxWire[s] /\ Len(sent'[s]) <= 1
    BY <1>1, <1>3, <1>5, <1>7 DEF Dispatch, Returns, Throws, ShapeOK
  <2> QED
    BY <1>1, <2>1, <2>2, <2>3 DEF ShardOK, Frames
<1>8. CASE HeartbeatAck(s)
  <2>1. wire'[s] = Tail(wire[s]) /\ UNCHANGED <<sent, heard, unread, kept, sessionid, last_seq>>
    BY <1>8 DEF HeartbeatAck, ShapeOK, history
  <2> QED
    BY <1>1, <1>3, <2>1 DEF ShardOK, Frames
<1>9. CASE Disconnect(s)
  <2>1. UNCHANGED <<heard, unread, kept, sessionid, last_seq>> /\ Close({s})
    BY <1>9 DEF Disconnect, history
  <2> QED
    BY <1>1, <1>5, <2>1 DEF ShardOK, Frames
<1>10. CASE Unparsed(s)
  <2>1. wire'[s] = Tail(wire[s]) /\ UNCHANGED <<sent, heard, kept, sessionid, last_seq>>
    BY <1>10 DEF Unparsed, ShapeOK
  <2>2. unread'[s] \subseteq (0 .. MaxSessions[s]) \X (0 .. MaxEvents[s])
    <3>1. unread'[s] \subseteq unread[s] \union {<<Head(wire[s]).session, Head(wire[s]).seq>>}
      BY <1>10 DEF Unparsed, ShapeOK
    <3> QED
      BY <1>1, <1>4, <3>1
  <2> QED
    BY <1>1, <1>3, <2>1, <2>2 DEF ShardOK, Frames
<1> QED
  BY <1>6, <1>7, <1>8, <1>9, <1>10 DEF Handle

LEMMA DiscordShard ==
    ASSUME ShapeOK, NEW s \in Shards, LocalInv(s), ShardOK(s), Discord(s)
    PROVE  ShardOK(s)'
<1>1. /\ UNCHANGED <<sessionid, last_seq, heard, unread, kept>>
      /\ kept[s] \in 0 .. MaxSessions[s]
      /\ unread[s] \subseteq (0 .. MaxSessions[s]) \X (0 .. MaxEvents[s])
      /\ heard[s] \in Frames(s) /\ sessionid[s] \in 0 .. MaxSessions[s]
      /\ last_seq[s] \in 0 .. MaxEvents[s]
      /\ session[s] \in 0 .. MaxSessions[s] /\ issued[s] \in 0 .. MaxSessions[s]
      /\ latest[s] \in 0 .. MaxEvents[s] /\ Len(sent[s]) <= 1
      /\ wire[s] \in Seq(Frames(s)) /\ Len(wire[s]) <= MaxWire[s]
  BY DEF Discord, Identified, Resumed, Event, Acknowledge, DropSession, AskToLeave, object,
         ShardOK, history
<1>2. /\ MaxSessions[s] \in Nat /\ MaxEvents[s] \in Nat /\ MaxWire[s] \in Nat
      /\ MaxSessions[s] # 0 => MaxEvents[s] # 0
  BY Bounds
<1>3. sent[s] # << >> /\ sent' = [sent EXCEPT ![s] = Tail(@)] => sent'[s] = << >>
  BY AllTaken DEF LocalInv, TurnOK
<1>4. Len(<< >>) <= 1
  OBVIOUS
<1>5. {"ready", "invalid", "resumed", "event", "ack", "leave"} \subseteq Ops
  BY DEF Ops
<1>6. \A op \in {"invalid", "ack", "leave"} : <<Frame(op, 0, 0)>> \in Seq(Frames(s))
  BY <1>2, <1>5, FramesFacts
<1>7. ASSUME \E op \in {"invalid", "ack", "leave"} : Send(s, <<Frame(op, 0, 0)>>)
      PROVE  wire'[s] \in Seq(Frames(s)) /\ Len(wire'[s]) <= MaxWire[s]
  BY <1>6, <1>7, SendOK
<1>8. CASE Identified(s)
  <2>1. Len(sent'[s]) <= 1
    BY <1>3, <1>4, <1>8 DEF Identified
  <2>2. CASE /\ issued[s] < MaxSessions[s]
             /\ issued'   = [issued EXCEPT ![s] = @ + 1]
             /\ session'  = [session EXCEPT ![s] = issued[s] + 1]
             /\ latest'   = [latest EXCEPT ![s] = 1]
             /\ Send(s, <<Frame("ready", issued[s] + 1, 1)>>)
    <3>1. issued[s] + 1 \in 0 .. MaxSessions[s] /\ 1 \in 0 .. MaxEvents[s]
      BY <1>1, <1>2, <2>2
    <3>2. /\ issued'[s] \in 0 .. MaxSessions[s] /\ session'[s] \in 0 .. MaxSessions[s]
          /\ latest'[s] \in 0 .. MaxEvents[s]
      BY <2>2, <3>1 DEF ShapeOK
    <3>3. wire'[s] \in Seq(Frames(s)) /\ Len(wire'[s]) <= MaxWire[s]
      <4>1. <<Frame("ready", issued[s] + 1, 1)>> \in Seq(Frames(s))
        BY <1>5, <3>1, FramesFacts
      <4> QED
        BY <2>2, <4>1, SendOK
    <3> QED
      BY <1>1, <2>1, <3>2, <3>3 DEF ShardOK, Frames
  <2>3. CASE Send(s, <<Frame("invalid", 0, 0)>>) /\ UNCHANGED discord
    BY <1>1, <1>7, <2>1, <2>3 DEF ShardOK, Frames, discord
  <2> QED
    BY <1>8, <2>2, <2>3 DEF Identified
<1>9. CASE Resumed(s)
  <2> DEFINE n == latest[s] - last_seq[s]
             ev == [i \in 1 .. n |-> Frame("event", session[s], last_seq[s] + i)]
             r  == Frame("resumed", session[s], latest[s])
  <2>1. Len(sent'[s]) <= 1 /\ UNCHANGED <<session, latest, issued>>
    BY <1>3, <1>4, <1>9 DEF Resumed
  <2>2. CASE Head(sent[s]).session = session[s]
    <3>1. /\ Head(sent[s]).seq = last_seq[s] /\ sessionid[s] # 0 /\ session[s] = sessionid[s]
      BY <1>9, <2>2 DEF LocalInv, AnswerOK, Resumed, Frame
    <3>2. last_seq[s] <= latest[s]
      BY <3>1 DEF LocalInv, SessionOK
    <3>3. n \in Nat /\ \A i \in 1 .. n : last_seq[s] + i \in 0 .. MaxEvents[s]
      BY <1>1, <1>2, <3>2
    <3>4. /\ r \in Frames(s)
          /\ \A i \in 1 .. n : Frame("event", session[s], last_seq[s] + i) \in Frames(s)
      BY <1>1, <1>5, <3>3, FramesFacts
    <3>5. ev \in [1 .. n -> Frames(s)]
      BY <3>4
    <3>6. Send(s, ev \o <<r>>)
      BY <1>9, <2>2, <3>1 DEF Resumed
    <3> HIDE DEF ev, r, n, Frames
    <3>7. ev \o <<r>> \in Seq(Frames(s))
      BY <3>3, <3>4, <3>5, ReplayFacts
    <3>8. wire'[s] \in Seq(Frames(s)) /\ Len(wire'[s]) <= MaxWire[s]
      BY <3>6, <3>7, SendOK
    <3> QED
      BY <1>1, <2>1, <3>8 DEF ShardOK, Frames
  <2>3. CASE Head(sent[s]).session # session[s]
    <3>1. Send(s, <<Frame("invalid", 0, 0)>>)
      BY <1>9, <2>3 DEF Resumed
    <3> QED
      BY <1>1, <1>7, <2>1, <3>1 DEF ShardOK, Frames
  <2> QED
    BY <2>2, <2>3
<1>10. CASE Event(s)
  <2>1. /\ latest[s] + 1 \in 0 .. MaxEvents[s] /\ latest'[s] = latest[s] + 1
        /\ UNCHANGED <<sent, session, issued>>
    BY <1>1, <1>2, <1>10 DEF Event, ShapeOK
  <2>2. wire'[s] \in Seq(Frames(s)) /\ Len(wire'[s]) <= MaxWire[s]
    <3>1. <<Frame("event", session[s], latest[s] + 1)>> \in Seq(Frames(s))
      BY <1>1, <1>5, <2>1, FramesFacts
    <3>2. wire' = wire \/ Send(s, <<Frame("event", session[s], latest[s] + 1)>>)
      BY <1>10 DEF Event
    <3> QED
      BY <1>1, <3>1, <3>2, SendOK
  <2> QED
    BY <1>1, <2>1, <2>2 DEF ShardOK, Frames
<1>11. CASE Acknowledge(s) \/ AskToLeave(s)
  BY <1>1, <1>7, <1>11 DEF Acknowledge, AskToLeave, discord, ShardOK, Frames
<1>12. CASE DropSession(s)
  <2>1. session'[s] \in 0 .. MaxSessions[s] /\ UNCHANGED <<sent, latest, issued>>
    BY <1>1, <1>2, <1>12 DEF DropSession, ShapeOK
  <2>2. wire'[s] \in Seq(Frames(s)) /\ Len(wire'[s]) <= MaxWire[s]
    <3>1. wire' = wire \/ Send(s, <<Frame("invalid", 0, 0)>>)
      BY <1>12 DEF DropSession
    <3> QED
      BY <1>1, <1>7, <3>1
  <2> QED
    BY <1>1, <2>1, <2>2 DEF ShardOK, Frames
<1> QED
  BY <1>8, <1>9, <1>10, <1>11, <1>12 DEF Discord

(* Time, and what the network and the monitor do, brings nothing new.       *)
LEMMA ShardCut ==
    ASSUME NEW t \in Shards, ShardOK(t), UNCHANGED Talk(t),
           wire'[t] = << >> \/ wire'[t] = wire[t], sent'[t] = << >> \/ sent'[t] = sent[t]
    PROVE  ShardOK(t)'
<1>1. wire'[t] \in Seq(Frames(t)) /\ Len(wire'[t]) <= MaxWire[t] /\ Len(sent'[t]) <= 1
  <2>1. wire[t] \in Seq(Frames(t)) /\ Len(wire[t]) <= MaxWire[t] /\ Len(sent[t]) <= 1
    BY DEF ShardOK
  <2>2. MaxWire[t] \in Nat
    BY Bounds
  <2>3. << >> \in Seq(Frames(t)) /\ Len(<< >>) = 0
    BY EmptyFacts
  <2>4. wire'[t] \in Seq(Frames(t))
    BY <2>1, <2>3
  <2>5. Len(wire'[t]) <= MaxWire[t]
    BY <2>1, <2>2, <2>3
  <2>6. Len(sent'[t]) <= 1
    BY <2>1, <2>3
  <2> QED
    BY <2>4, <2>5, <2>6
<1> QED
  BY <1>1 DEF ShardOK, Talk, Frames

LEMMA NextShard ==
    ASSUME Inv, [Next]_vars, NEW t \in Shards
    PROVE  ShardOK(t)'
<1>1. ShapeOK /\ TypeOK /\ LocalInv(t) /\ ShardOK(t)
  BY TypeParts DEF Inv
<1>2. ASSUME NEW s \in Shards,
             \/ Connected(s) \/ Break(s) \/ CloseNotify(s) \/ Handle(s) \/ Discord(s)
             \/ IdentifyTimer(s),
             t # s
      PROVE  ShardOK(t)'
  BY <1>1, <1>2, OthersKept, ShardKept
<1>3. CASE Handle(t)
  BY <1>1, <1>3, HandleShard
<1>4. CASE Discord(t)
  BY <1>1, <1>4, DiscordShard
<1>5. CASE Break(t)
  <2>1. wire'[t] = << >> /\ sent'[t] = << >>
    BY <1>1, <1>5, CutFacts DEF Break
  <2>2. UNCHANGED Talk(t)
    BY <1>5 DEF Break, Talk, history
  <2> QED
    BY <1>1, <2>1, <2>2, ShardCut
<1>6. CASE Connected(t)
  <2>1. wire'[t] = <<Frame("hello", 0, 0)>> /\ sent' = sent /\ UNCHANGED Talk(t)
    BY <1>1, <1>6 DEF Connected, discord, Talk, ShapeOK, history
  <2>2. <<Frame("hello", 0, 0)>> \in Seq(Frames(t)) /\ 1 <= MaxWire[t]
    BY Bounds, FramesFacts DEF Ops
  <2>3. Len(wire'[t]) = 1
    BY <2>1
  <2> QED
    BY <1>1, <2>1, <2>2, <2>3 DEF ShardOK, Talk, Frames
<1>7. CASE IdentifyTimer(t)
  <2>1. UNCHANGED <<wire, heard, unread, kept, sessionid, last_seq, session, latest, issued>>
    BY <1>7 DEF IdentifyTimer, discord, history
  <2>2. Len(sent'[t]) <= 1
    <3>1. CASE conn[t] = "connected"
      <4>1. Delayed(t)
        BY <1>7, <3>1 DEF Delayed, IdentifyTimer, None
      <4>2. sent[t] = << >>
        BY <1>1, <4>1 DEF LocalInv, TurnOK
      <4>3. sent'[t] = Append(<< >>, Frame("identify", 0, 0))
        BY <1>1, <1>7, <3>1, <4>2 DEF IdentifyTimer, ShapeOK
      <4> QED
        BY <4>3
    <3>2. CASE conn[t] # "connected"
      BY <1>1, <1>7, <3>2 DEF IdentifyTimer, ShardOK
    <3> QED
      BY <3>1, <3>2
  <2> QED
    BY <1>1, <2>1, <2>2 DEF ShardOK, Frames
<1>8. CASE Monitor
  <2>1. UNCHANGED <<wire, sent, heard, unread, kept, session, latest, issued>>
    BY <1>8 DEF Monitor, discord, history
  <2>2. sessionid'[t] \in 0 .. MaxSessions[t] /\ last_seq'[t] \in 0 .. MaxEvents[t]
    <3>1. sessionid[t] \in 0 .. MaxSessions[t] /\ last_seq[t] \in 0 .. MaxEvents[t]
      BY <1>1 DEF ShardOK
    <3>2. 0 \in 0 .. MaxSessions[t] /\ 0 \in 0 .. MaxEvents[t]
      BY Bounds
    <3>3. \/ UNCHANGED <<sessionid, last_seq>>
          \/ \E s \in Due : /\ sessionid' = [sessionid EXCEPT ![s] = 0]
                            /\ last_seq' = [last_seq EXCEPT ![s] = 0]
      BY <1>8 DEF Monitor, Renew, RenewFails, object
    <3> QED
      BY <1>1, <3>1, <3>2, <3>3 DEF ShapeOK
  <2> QED
    BY <1>1, <2>1, <2>2 DEF ShardOK, Frames
<1>9. CASE Second
  <2>1. UNCHANGED Talk(t)
    BY <1>9 DEF Second, Talk, history
  <2>2. PICK S : wire' = With(wire, S, << >>) /\ sent' = With(sent, S, << >>)
    BY <1>9 DEF Second
  <2>3. DOMAIN wire = Shards /\ DOMAIN sent = Shards
    BY <1>1 DEF ShapeOK
  <2>4. /\ wire'[t] = << >> \/ wire'[t] = wire[t]
        /\ sent'[t] = << >> \/ sent'[t] = sent[t]
    BY <2>2, <2>3 DEF With
  <2> QED
    BY <1>1, <2>1, <2>4, ShardCut
<1>10. CASE StrayTimer \/ UNCHANGED vars
  <2>1. UNCHANGED Talk(t) /\ UNCHANGED Line(t)
    BY <1>10 DEF StrayTimer, vars, object, discord, Talk, Line, history
  <2> QED
    BY <1>1, <2>1, ShardKept
<1>12. CASE CloseNotify(t)
  <2>1. wire' = wire /\ sent'[t] = << >> /\ UNCHANGED Talk(t)
    BY <1>1, <1>12 DEF CloseNotify, Talk, ShapeOK, history
  <2> QED
    BY <1>1, <2>1, ShardCut
<1>11. ASSUME NEW s \in Shards,
              \/ Connected(s) \/ Break(s) \/ CloseNotify(s) \/ Handle(s) \/ Discord(s)
              \/ IdentifyTimer(s)
       PROVE  ShardOK(t)'
  BY <1>2, <1>3, <1>4, <1>5, <1>6, <1>7, <1>11, <1>12
<1> QED
  BY <1>8, <1>9, <1>10, <1>11 DEF Next, Timers

LEMMA NextObject == Inv /\ [Next]_vars => ObjectOK'
<1> SUFFICES ASSUME Inv, [Next]_vars PROVE ObjectOK'
  OBVIOUS
<1>1. /\ conn \in [Shards -> Connections]
      /\ age \in [Shards -> 0 .. ConnectTimeout]
      /\ ready \in [Shards -> BOOLEAN] /\ attached \in [Shards -> BOOLEAN]
      /\ ack \in [Shards -> 0 .. AckLimit + 1]
      /\ identify \in [Shards -> None .. RECONNECT_INTERVAL]
      /\ since \in 0 .. RECONNECT_INTERVAL
  BY TypeParts DEF Inv, ObjectOK, ClusterOK
<1>2. /\ RECONNECT_INTERVAL \in Nat \ {0} /\ ConnectTimeout \in Nat \ {0} /\ AckLimit \in Nat
      /\ None \in Int /\ None = -1
  BY Periods DEF None
<1>3. ASSUME NEW S, Close(S)
      PROVE  /\ conn' \in [Shards -> Connections]
             /\ attached' \in [Shards -> BOOLEAN]
  BY <1>1, <1>3, WithFacts DEF Close, Connections
<1>4. ASSUME NEW s \in Shards, Connected(s) PROVE ObjectOK'
  BY <1>1, <1>4 DEF Connected, discord, ObjectOK, Connections
<1>5. ASSUME NEW s \in Shards, Break(s) PROVE ObjectOK'
  BY <1>1, <1>3, <1>5 DEF Break, ObjectOK
<1>15. ASSUME NEW s \in Shards, CloseNotify(s) PROVE ObjectOK'
  BY <1>1, <1>15 DEF CloseNotify, ObjectOK, Connections
<1>16. ASSUME NEW s \in Shards, Unparsed(s) PROVE ObjectOK'
  BY <1>1, <1>16 DEF Unparsed, Handling, StaysOpen, ObjectOK
<1>6. ASSUME NEW s \in Shards, Hello(s) PROVE ObjectOK'
  <2>1. UNCHANGED <<conn, age, ready, attached>> /\ ack' = [ack EXCEPT ![s] = 0]
    BY <1>6 DEF Hello, Handling, StaysOpen
  <2>2. \/ identify' = identify
        \/ since < RECONNECT_INTERVAL /\ identify' = [identify EXCEPT ![s] = Delay]
    BY <1>6 DEF Hello
  <2>3. since < RECONNECT_INTERVAL => Delay \in None .. RECONNECT_INTERVAL
    BY <1>1, <1>2 DEF Delay
  <2>4. /\ ack' \in [Shards -> 0 .. AckLimit + 1]
        /\ identify' \in [Shards -> None .. RECONNECT_INTERVAL]
    BY <1>1, <1>2, <2>1, <2>2, <2>3
  <2> QED
    BY <1>1, <2>1, <2>4 DEF ObjectOK
<1>7. ASSUME NEW s \in Shards, Dispatch(s) PROVE ObjectOK'
  <2>1. UNCHANGED <<age, ack, identify>>
    BY <1>7 DEF Dispatch, Handler, Handling
  <2>2. /\ conn' \in [Shards -> Connections]
        /\ attached' \in [Shards -> BOOLEAN]
    BY <1>1, <1>3, <1>7 DEF Dispatch, Returns, Throws, StaysOpen
  <2>3. ready' \in [Shards -> BOOLEAN]
    BY <1>1, <1>7 DEF Dispatch, Returns, Throws, GetsReady
  <2> QED
    BY <1>1, <2>1, <2>2, <2>3 DEF ObjectOK
<1>8. ASSUME NEW s \in Shards, HeartbeatAck(s) PROVE ObjectOK'
  <2>1. UNCHANGED <<conn, age, ready, attached, identify>> /\ ack' = [ack EXCEPT ![s] = 0]
    BY <1>8 DEF HeartbeatAck, Handling, StaysOpen
  <2>2. ack' \in [Shards -> 0 .. AckLimit + 1]
    BY <1>1, <1>2, <2>1
  <2> QED
    BY <1>1, <2>1, <2>2 DEF ObjectOK
<1>9. ASSUME NEW s \in Shards, Disconnect(s) PROVE ObjectOK'
  BY <1>1, <1>3, <1>9 DEF Disconnect, Handling, ObjectOK
<1>10. ASSUME NEW s \in Shards, Discord(s) PROVE ObjectOK'
  <2>1. UNCHANGED <<conn, age, ready, ack, identify>>
    BY <1>10 DEF Discord, Identified, Resumed, Event, Acknowledge, DropSession, AskToLeave, object
  <2>2. attached' \in [Shards -> BOOLEAN]
    BY <1>1, <1>10 DEF Discord, Identified, Resumed, Event, Acknowledge, DropSession, AskToLeave,
                       discord
  <2> QED
    BY <1>1, <2>1, <2>2 DEF ObjectOK
<1>11. ASSUME NEW s \in Shards, IdentifyTimer(s) PROVE ObjectOK'
  <2>1. UNCHANGED <<conn, age, ready, ack, attached>> /\ identify' = [identify EXCEPT ![s] = None]
    BY <1>11 DEF IdentifyTimer, discord
  <2>2. identify' \in [Shards -> None .. RECONNECT_INTERVAL]
    BY <1>1, <1>2, <2>1
  <2> QED
    BY <1>1, <2>1, <2>2 DEF ObjectOK
<1>12. CASE Monitor
  <2>1. attached' = attached
    BY <1>12 DEF Monitor, discord
  <2>2. CASE UNCHANGED object
    BY <1>1, <2>1, <2>2 DEF object, ObjectOK
  <2>3. ASSUME NEW s \in Due, Renew(s) \/ RenewFails(s), identify' = [identify EXCEPT ![s] = None]
        PROVE  ObjectOK'
    <3>1. conn' \in [Shards -> Connections]
      BY <1>1, <2>3 DEF Renew, RenewFails, Connections
    <3>2. identify' \in [Shards -> None .. RECONNECT_INTERVAL]
      <4>1. identify' = [identify EXCEPT ![s] = None] /\ None \in None .. RECONNECT_INTERVAL
        BY <1>2, <2>3
      <4> QED
        BY <1>1, <4>1
    <3>3. age' \in [Shards -> 0 .. ConnectTimeout] /\ ack' \in [Shards -> 0 .. AckLimit + 1]
      <4>1. /\ age' = age \/ age' = [age EXCEPT ![s] = 0]
            /\ ack' = ack \/ ack' = [ack EXCEPT ![s] = 0]
        BY <2>3 DEF Renew, RenewFails
      <4> QED
        BY <1>1, <1>2, <4>1
    <3>4. ready' \in [Shards -> BOOLEAN]
      BY <1>1, <2>3 DEF Renew, RenewFails
    <3> QED
      BY <1>1, <2>1, <3>1, <3>2, <3>3, <3>4 DEF ObjectOK
  <2> QED
    BY <1>12, <2>2, <2>3 DEF Monitor
<1>13. CASE Second
  <2>1. ready' = ready
    BY <1>13 DEF Second
  <2>2. PICK S, M, B, L : /\ conn' = With(With(With(conn, S, "closed"), M, "dead"), B, "stranded")
                          /\ attached' = With(attached, L, FALSE)
    BY <1>13 DEF Second
  <2>3. conn' \in [Shards -> Connections]
    <3> DEFINE c == With(conn, S, "closed")
               d == With(c, M, "dead")
    <3>1. "closed" \in Connections /\ "dead" \in Connections /\ "stranded" \in Connections
      BY DEF Connections
    <3>2. c \in [Shards -> Connections]
      BY <1>1, <3>1, WithFacts
    <3>3. d \in [Shards -> Connections]
      <4> HIDE DEF c
      <4> QED
        BY <3>1, <3>2, WithFacts
    <3>4. conn' = With(d, B, "stranded")
      BY <2>2
    <3> HIDE DEF c, d
    <3> QED
      BY <3>1, <3>3, <3>4, WithFacts
  <2>4. attached' \in [Shards -> BOOLEAN]
    BY <1>1, <2>2, WithFacts
  <2>5. /\ identify' = [s \in Shards |-> Sooner(identify[s])]
        /\ age' = [s \in Shards |-> Older(age[s], ConnectTimeout)]
        /\ ack' = [s \in Shards |-> Older(ack[s], AckLimit + 1)]
    BY <1>13 DEF Second
  <2>6. identify' \in [Shards -> None .. RECONNECT_INTERVAL]
    BY <1>1, <1>2, <2>5 DEF Sooner
  <2>7. age' \in [Shards -> 0 .. ConnectTimeout]
    BY <1>1, <1>2, <2>5 DEF Older
  <2>8. ack' \in [Shards -> 0 .. AckLimit + 1]
    BY <1>1, <1>2, <2>5 DEF Older
  <2> QED
    BY <2>1, <1>1, <2>3, <2>4, <2>6, <2>7, <2>8 DEF ObjectOK
<1>14. CASE StrayTimer \/ UNCHANGED vars
  BY <1>1, <1>14 DEF StrayTimer, vars, object, discord, ObjectOK
<1> QED
  BY <1>4, <1>5, <1>6, <1>7, <1>8, <1>9, <1>10, <1>11, <1>12, <1>13, <1>14,
     <1>15, <1>16
     DEF Next, Timers, Handle

(* Lists of reconnections.                                                  *)
ListOK(list) == /\ DOMAIN list \subseteq Shards
                /\ \A s \in DOMAIN list : list[s] \in 0 .. RECONNECT_INTERVAL

LEMMA ListedFacts ==
    ASSUME NEW list, NEW S \in SUBSET Shards
    PROVE  /\ DOMAIN Listed(list, S) = DOMAIN list \union S
           /\ ListOK(list) => ListOK(Listed(list, S))
<1>1. DOMAIN Listed(list, S) = DOMAIN list \union S
  BY DEF Listed
<1>2. RECONNECT_INTERVAL \in 0 .. RECONNECT_INTERVAL
  BY Periods
<1>3. \A s \in DOMAIN Listed(list, S) :
         Listed(list, S)[s] = IF s \in S THEN RECONNECT_INTERVAL ELSE list[s]
  BY DEF Listed
<1> QED
  BY <1>1, <1>2, <1>3 DEF ListOK

LEMMA TakenFacts ==
    ASSUME NEW s
    PROVE  /\ DOMAIN Taken(s) = DOMAIN reconnections \ {s}
           /\ ListOK(reconnections) => ListOK(Taken(s))
<1>1. /\ DOMAIN Taken(s) = DOMAIN reconnections \ {s}
      /\ \A t \in DOMAIN Taken(s) : Taken(s)[t] = reconnections[t]
  BY DEF Taken, Restrict
<1> QED
  BY <1>1 DEF ListOK

LEMMA NextList == Inv /\ [Next]_vars => ListOK(reconnections)'
<1> SUFFICES ASSUME Inv, [Next]_vars PROVE ListOK(reconnections')
  BY DEF ListOK
<1>1. ListOK(reconnections)
  BY TypeParts DEF Inv, ClusterOK, ListOK
<1>2. ASSUME NEW s \in Shards, Close({s}) PROVE ListOK(reconnections')
  BY <1>1, <1>2, ListedFacts DEF Close
<1>3. ASSUME NEW s \in Shards,
             Connected(s) \/ Break(s) \/ CloseNotify(s) \/ Handle(s) \/ IdentifyTimer(s)
      PROVE  ListOK(reconnections')
  BY <1>1, <1>2, <1>3 DEF Connected, Break, CloseNotify, Handle, Hello, Dispatch, Returns, Throws,
                          HeartbeatAck, Disconnect, Unparsed, StaysOpen, IdentifyTimer, cluster
<1>4. ASSUME NEW s \in Shards, Discord(s) PROVE ListOK(reconnections')
  BY <1>1, <1>4 DEF Discord, Identified, Resumed, Event, Acknowledge, DropSession, AskToLeave,
                    cluster
<1>5. CASE Monitor
  <2>1. ASSUME NEW s \in Due, Renew(s) \/ RenewFails(s) PROVE ListOK(reconnections')
    <3>1. {s} \in SUBSET Shards
      BY <1>1 DEF Due, ListOK
    <3>2. ListOK(Taken(s)) /\ ListOK(Listed(Taken(s), {s}))
      BY <1>1, <3>1, TakenFacts, ListedFacts
    <3> QED
      BY <2>1, <3>2 DEF Renew, RenewFails
  <2> QED
    BY <1>1, <1>5, <2>1 DEF Monitor
<1>6. CASE Second
  <2> DEFINE aged == [s \in DOMAIN reconnections |-> Sooner(reconnections[s])]
  <2>1. \E S \in SUBSET Shards : reconnections' = Listed(aged, S)
    BY <1>6 DEF Second
  <2>2. ListOK(aged)
    BY <1>1, Periods DEF ListOK, Sooner
  <2> HIDE DEF aged
  <2> QED
    BY <2>1, <2>2, ListedFacts
<1>7. CASE StrayTimer \/ UNCHANGED vars
  BY <1>1, <1>7 DEF StrayTimer, vars, cluster
<1> QED
  BY <1>3, <1>4, <1>5, <1>6, <1>7 DEF Next, Timers

LEMMA NextCluster == Inv /\ [Next]_vars => ClusterOK'
<1> SUFFICES ASSUME Inv, [Next]_vars PROVE ClusterOK'
  OBVIOUS
<1>1. /\ stray \subseteq 0 .. RECONNECT_INTERVAL
      /\ monitor \in 0 .. MonitorPeriod
      /\ since \in 0 .. RECONNECT_INTERVAL
      /\ crashed \in BOOLEAN
      /\ DOMAIN reconnections \subseteq Shards
  BY TypeParts DEF Inv, ClusterOK
<1>2. /\ RECONNECT_INTERVAL \in Nat /\ MonitorPeriod \in Nat
  BY Periods
<1>3. ListOK(reconnections)'
  BY NextList
<1>4. ASSUME UNCHANGED <<stray, monitor, crashed>>, since' = since \/ since' = 0
      PROVE  ClusterOK'
  BY <1>1, <1>2, <1>3, <1>4 DEF ClusterOK, ListOK
<1>5. ASSUME NEW s \in Shards,
             \/ Connected(s) \/ Break(s) \/ CloseNotify(s) \/ Handle(s) \/ Discord(s)
             \/ IdentifyTimer(s)
      PROVE  ClusterOK'
  <2>1. UNCHANGED <<stray, monitor, crashed>>
    BY <1>5 DEF Connected, Break, CloseNotify, Handle, Hello, Dispatch, Handler, HeartbeatAck,
                Disconnect, Unparsed, Handling, Discord, Identified, Resumed, Event, Acknowledge,
                DropSession, AskToLeave, IdentifyTimer, cluster
  <2>2. since' = since \/ since' = 0
    BY <1>5 DEF Connected, Break, CloseNotify, Handle, Hello, Dispatch, Handler, HeartbeatAck,
                Disconnect, Unparsed, Handling, Discord, Identified, Resumed, Event, Acknowledge,
                DropSession, AskToLeave, IdentifyTimer, cluster
  <2> QED
    BY <1>4, <2>1, <2>2
<1>6. CASE Monitor
  <2>1. since' = since /\ monitor' = MonitorPeriod
    BY <1>6 DEF Monitor
  <2>2. stray' \subseteq 0 .. RECONNECT_INTERVAL
    <3>1. ASSUME NEW s \in Due, stray' = stray \union ({identify[s]} \ {None})
          PROVE  stray' \subseteq 0 .. RECONNECT_INTERVAL
      <4>1. identify[s] \in None .. RECONNECT_INTERVAL
        BY <1>1 DEF Inv, TypeOK, Due
      <4>2. identify[s] # None => identify[s] \in 0 .. RECONNECT_INTERVAL
        BY <1>2, <4>1 DEF None
      <4> QED
        BY <1>1, <3>1, <4>2
    <3> QED
      BY <1>1, <1>6, <3>1 DEF Monitor
  <2>3. crashed' \in BOOLEAN
    BY <1>1, <1>6 DEF Monitor, Renew, RenewFails
  <2>4. monitor' \in 0 .. MonitorPeriod
    BY <1>2, <2>1
  <2> QED
    BY <1>1, <1>3, <2>1, <2>2, <2>3, <2>4 DEF ClusterOK, ListOK
<1>7. CASE Second
  <2>1. /\ monitor # 0 /\ 0 \notin stray /\ monitor' = monitor - 1
        /\ stray' = {n - 1 : n \in stray} /\ since' = Older(since, RECONNECT_INTERVAL)
        /\ crashed' = crashed
    BY <1>7 DEF Second
  <2>2. monitor' \in 0 .. MonitorPeriod /\ since' \in 0 .. RECONNECT_INTERVAL
    BY <1>1, <1>2, <2>1 DEF Older
  <2>3. stray' \subseteq 0 .. RECONNECT_INTERVAL
    <3>1. \A n \in stray : n - 1 \in 0 .. RECONNECT_INTERVAL
      BY <1>1, <1>2, <2>1
    <3> QED
      BY <2>1, <3>1
  <2> QED
    BY <1>1, <1>3, <2>1, <2>2, <2>3 DEF ClusterOK, ListOK
<1>8. CASE StrayTimer
  BY <1>1, <1>3, <1>8 DEF StrayTimer, ClusterOK, ListOK
<1>9. CASE UNCHANGED vars
  BY <1>4, <1>9 DEF vars, cluster
<1> QED
  BY <1>5, <1>6, <1>7, <1>8, <1>9 DEF Next, Timers

(* A connection is put on the list when it is closed, and taken off it when *)
(* a new one takes its place.                                               *)
LEMMA NextWaits == Inv /\ [Next]_vars => WaitsIffClosed'
<1> SUFFICES ASSUME Inv, [Next]_vars, ~ crashed'
             PROVE  DOMAIN reconnections' = {s \in Shards : conn'[s] \in {"closed", "none"}}
  BY DEF WaitsIffClosed
<1>1. /\ DOMAIN reconnections \subseteq Shards
      /\ conn \in [Shards -> Connections]
      /\ crashed \in BOOLEAN
  BY TypeParts DEF Inv, ClusterOK, ObjectOK
<1>2. ~ crashed =>
         DOMAIN reconnections = {s \in Shards : conn[s] \in {"closed", "none"}}
  BY DEF Inv, WaitsIffClosed
<1>3. ASSUME NEW s \in Shards, ~ crashed, Close({s})
      PROVE  DOMAIN reconnections' = {t \in Shards : conn'[t] \in {"closed", "none"}}
  <2>1. DOMAIN reconnections' = DOMAIN reconnections \union {s}
    BY <1>3, ListedFacts DEF Close
  <2>2. \A t \in Shards : conn'[t] = IF t = s THEN "closed" ELSE conn[t]
    BY <1>1, <1>3 DEF Close, With
  <2> QED
    BY <1>2, <1>3, <2>1, <2>2
<1>4. ASSUME ~ crashed, UNCHANGED <<conn, reconnections>>
      PROVE  DOMAIN reconnections' = {t \in Shards : conn'[t] \in {"closed", "none"}}
  BY <1>2, <1>4
<1>5. ASSUME NEW s \in Shards, Break(s) \/ Handle(s)
      PROVE  DOMAIN reconnections' = {t \in Shards : conn'[t] \in {"closed", "none"}}
  BY <1>3, <1>4, <1>5 DEF Break, Handle, Hello, Dispatch, Handler, Returns, Throws, HeartbeatAck,
                          Disconnect, Unparsed, Handling, StaysOpen
<1>6. ASSUME NEW s \in Shards, IdentifyTimer(s) \/ Discord(s)
      PROVE  DOMAIN reconnections' = {t \in Shards : conn'[t] \in {"closed", "none"}}
  BY <1>4, <1>6 DEF IdentifyTimer, Discord, Identified, Resumed, Event, Acknowledge, DropSession,
                    AskToLeave, object, cluster
<1>7. ASSUME NEW s \in Shards, Connected(s)
      PROVE  DOMAIN reconnections' = {t \in Shards : conn'[t] \in {"closed", "none"}}
  <2>1. /\ ~ crashed /\ reconnections' = reconnections /\ conn[s] = "connecting"
        /\ \A t \in Shards : conn'[t] = IF t = s THEN "connected" ELSE conn[t]
    BY <1>1, <1>7 DEF Connected, cluster
  <2> QED
    BY <1>2, <2>1
<1>12. ASSUME NEW s \in Shards, CloseNotify(s)
       PROVE  DOMAIN reconnections' = {t \in Shards : conn'[t] \in {"closed", "none"}}
  <2>1. /\ ~ crashed /\ reconnections' = reconnections /\ conn[s] = "connected"
        /\ \A t \in Shards : conn'[t] = IF t = s THEN "ended" ELSE conn[t]
    BY <1>1, <1>12 DEF CloseNotify, cluster
  <2> QED
    BY <1>2, <2>1
<1>8. CASE Monitor
  <2>1. ~ crashed
    BY <1>8 DEF Monitor
  <2>2. CASE UNCHANGED <<conn, reconnections>>
    BY <1>4, <2>1, <2>2
  <2>3. ASSUME NEW s \in Due, Renew(s) \/ RenewFails(s)
        PROVE  DOMAIN reconnections' = {t \in Shards : conn'[t] \in {"closed", "none"}}
    <3>1. s \in Shards /\ s \in DOMAIN reconnections
      BY <1>1 DEF Due
    <3>2. CASE Renew(s)
      <4>1. DOMAIN reconnections' = DOMAIN reconnections \ {s}
        BY <3>2, TakenFacts DEF Renew
      <4>2. \A t \in Shards : conn'[t] = IF t = s THEN "connecting" ELSE conn[t]
        BY <1>1, <3>2 DEF Renew
      <4> QED
        BY <1>2, <2>1, <3>1, <4>1, <4>2
    <3>3. CASE RenewFails(s)
      <4>1. DOMAIN reconnections' = (DOMAIN reconnections \ {s}) \union {s}
        <5>1. {s} \in SUBSET Shards /\ reconnections' = Listed(Taken(s), {s})
          BY <3>1, <3>3 DEF RenewFails
        <5>2. DOMAIN Listed(Taken(s), {s}) = DOMAIN Taken(s) \union {s}
          BY <5>1, ListedFacts
        <5> QED
          BY <5>1, <5>2, TakenFacts
      <4>2. \A t \in Shards : conn'[t] = IF t = s THEN "none" ELSE conn[t]
        BY <1>1, <3>3 DEF RenewFails
      <4> QED
        BY <1>2, <2>1, <3>1, <4>1, <4>2
    <3> QED
      BY <2>3, <3>2, <3>3
  <2> QED
    BY <1>8, <2>2, <2>3 DEF Monitor, object
<1>9. CASE Second
  <2> DEFINE late == {t \in Shards : conn[t] = "connecting" /\ age'[t] >= ConnectTimeout}
             slow == {t \in Shards : conn[t] = "connecting" /\ age'[t] = ConnectRetry}
             mute == {t \in Shards : /\ conn[t] \in {"connected", "ended"}
                                     /\ ready[t] /\ ack'[t] > AckLimit}
             aged == [s \in DOMAIN reconnections |-> Sooner(reconnections[s])]
  <2>1. /\ \E bare \in SUBSET slow :
              conn' = With(With(With(conn, late, "closed"), mute, "dead"), bare, "stranded")
        /\ reconnections' = Listed(aged, late) /\ ~ crashed
    BY <1>9 DEF Second
  <2>2. DOMAIN reconnections' = DOMAIN reconnections \union late
    <3>1. late \in SUBSET Shards /\ DOMAIN aged = DOMAIN reconnections
      OBVIOUS
    <3> HIDE DEF late, aged
    <3> QED
      BY <2>1, <3>1, ListedFacts
  <2>3. PICK bare \in SUBSET slow :
           \A t \in Shards : conn'[t] = IF t \in bare THEN "stranded" ELSE
                                        IF t \in mute THEN "dead" ELSE
                                        IF t \in late THEN "closed" ELSE conn[t]
    <3> HIDE DEF late, slow, mute
    <3> QED
      BY <1>1, <2>1 DEF With
  <2>4. \A t \in Shards : /\ t \in late => conn[t] = "connecting"
                          /\ t \in mute => conn[t] \in {"connected", "ended"}
                          /\ t \in bare => conn[t] = "connecting" /\ t \notin late
    BY Periods
  <2>5. late \subseteq Shards
    OBVIOUS
  <2> HIDE DEF late, slow, mute
  <2> QED
    BY <1>2, <2>1, <2>2, <2>3, <2>4, <2>5
<1>10. CASE UNCHANGED vars
  BY <1>4, <1>10 DEF vars, object, cluster
<1>11. ~ StrayTimer
  BY DEF StrayTimer
<1> QED
  BY <1>5, <1>6, <1>7, <1>8, <1>9, <1>10, <1>11, <1>12 DEF Next, Timers

-----------------------------------------------------------------------------
LEMMA InvNext == Inv /\ [Next]_vars => Inv'
<1> SUFFICES ASSUME Inv, [Next]_vars PROVE Inv'
  OBVIOUS
<1>1. ShapeOK'
  BY NextShape DEF Inv
<1>2. TypeOK'
  <2>1. ObjectOK' /\ ClusterOK'
    BY NextObject, NextCluster
  <2>2. \A t \in Shards : ShardOK(t)'
    BY NextShard
  <2> QED
    BY <2>1, <2>2 DEF TypeOK, ObjectOK, ClusterOK, ShardOK, Connections
<1>3. WaitsIffClosed'
  BY NextWaits
<1>4. \A t \in Shards : LocalInv(t)'
  BY NextLocal
<1> QED
  BY <1>1, <1>2, <1>3, <1>4 DEF Inv

(* The invariant holds, whatever Discord and the network do.                *)
THEOREM InvHolds == Spec => []Inv
BY InvInit, InvNext, PTL DEF Spec

(* TypeOK: what the variables can hold, for any number of shards; at most   *)
(* one request of a shard is on its way to Discord.                         *)
THEOREM TypeCorrect == Spec => []TypeOK
<1>1. Inv => TypeOK
  BY DEF Inv
<1> QED
  BY <1>1, InvHolds, PTL

(* WaitsIffClosed: a shard is on the list of reconnections exactly while    *)
(* close() has ended its connection or it has no object (on_disconnect, the *)
(* reconnect monitor).  It says nothing of connections that are lost        *)
(* without close(): those are never on the list.                            *)
THEOREM ClosedOnesWait == Spec => []WaitsIffClosed
<1>1. Inv => WaitsIffClosed
  BY DEF Inv
<1> QED
  BY <1>1, InvHolds, PTL

(* EventsInOrder: the handlers get the events of a session once and in      *)
(* order, across lost connections and resumed sessions, and miss none but   *)
(* those that were dropped unparsed (handle_event, the copied sequence      *)
(* number of the new object).                                               *)
LEMMA OrderStep ==
    ASSUME Inv, NEW s \in Shards, Dispatch(s), Head(wire[s]).op # "resumed"
    PROVE  LET frame == Head(wire[s])
               last  == IF frame.session = heard[s].session THEN heard[s].seq ELSE 0
           IN  /\ last < frame.seq
               /\ \A n \in last + 1 .. frame.seq - 1 : <<frame.session, n>> \in unread[s]
<1> DEFINE f == Head(wire[s])
<1>1. ShapeOK /\ LocalInv(s) /\ Handling(s) /\ Tells(f) /\ Numbered(f)
  BY DEF Inv, Dispatch, Handler, Tells, Numbered
<1>2. /\ f.session = issued[s] /\ f.seq \in Nat /\ HeardOf(s) < f.seq
      /\ \A n \in Nat : HeardOf(s) < n /\ n <= f.seq =>
            Missed(s, n) \/ (Numbered(f) /\ n = f.seq)
  BY <1>1, DispatchNext
<1>3. HeardOf(s) \in Nat /\ HeardOf(s) = IF f.session = heard[s].session THEN heard[s].seq ELSE 0
  BY <1>1, <1>2, HeardFacts DEF HeardOf
<1>4. ASSUME NEW n \in HeardOf(s) + 1 .. f.seq - 1 PROVE <<f.session, n>> \in unread[s]
  <2>1. n \in Nat /\ HeardOf(s) < n /\ n <= f.seq /\ n # f.seq
    BY <1>2, <1>3, <1>4
  <2> QED
    BY <1>2, <2>1 DEF Missed
<1> QED
  BY <1>2, <1>3, <1>4

THEOREM OnceAndInOrder == Spec => EventsInOrder
<1>1. Inv => \A s \in Shards :
                Dispatch(s) /\ Head(wire[s]).op # "resumed" =>
                   LET frame == Head(wire[s])
                       last  == IF frame.session = heard[s].session THEN heard[s].seq ELSE 0
                   IN  /\ last < frame.seq
                       /\ \A n \in last + 1 .. frame.seq - 1 : <<frame.session, n>> \in unread[s]
  BY OrderStep
<1> QED
  BY <1>1, InvHolds, PTL DEF EventsInOrder

(* SessionKept: while Discord holds a session that a READY gave the shard,  *)
(* and has not told it to forget, no identify of the shard can be on the    *)
(* way: the session can only be resumed.                                    *)
LEMMA KeptStep ==
    ASSUME Inv, [Next]_vars, NEW s \in Shards, session[s] # 0, session'[s] > session[s]
    PROVE  kept[s] # session[s]
<1>1. /\ ShapeOK /\ TypeOK /\ LocalInv(s) /\ session[s] \in Nat
  BY DEF Inv, ShapeOK
<1>2. ~ UNCHANGED session
  BY <1>1
<1>3. PICK t \in Shards : Discord(t)
  BY <1>2 DEF Next, Timers, StrayTimer, Monitor, Second, IdentifyTimer, Connected, Break,
              CloseNotify, Handle, Hello, Dispatch, Handler, HeartbeatAck, Disconnect, Unparsed,
              Handling, discord, vars
<1>4. t = s
  <2>1. t # s => UNCHANGED Talk(s)
    BY <1>1, <1>3, OthersKept
  <2> QED
    BY <1>1, <2>1 DEF Talk
<1>5. Identified(s)
  <2>1. ~ DropSession(s)
    BY <1>1 DEF DropSession, ShapeOK
  <2> QED
    BY <1>2, <1>3, <1>4, <2>1 DEF Discord, Resumed, Event, Acknowledge, AskToLeave, discord
<1>6. sent[s] # << >> /\ Head(sent[s]).op = "identify"
  BY <1>5 DEF Identified
<1>7. conn[s] = "connected" /\ sessionid[s] = 0
  BY <1>1, <1>6 DEF LocalInv, LineOK, AnswerOK, Frame
<1> QED
  BY <1>1, <1>7 DEF LocalInv, KnownOK

THEOREM SessionsKept == Spec => SessionKept
<1>1. Inv /\ [Next]_vars =>
         \A s \in Shards : session[s] # 0 /\ session'[s] > session[s] =>
            kept[s] # session[s]
  BY KeptStep
<1> QED
  BY <1>1, InvHolds, PTL DEF Spec, SessionKept
=============================================================================
