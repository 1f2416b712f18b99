------------------------- MODULE HttpsClientProofs -------------------------
(***************************************************************************)
(* Proofs about HttpsClient for any responses and any timeout, whatever     *)
(* pieces, errors and seconds come in which order: how a request ends, that *)
(* every variable has its type, and, for responses that say how long they   *)
(* are (ResponseAssumption), that the body is what was sent.                *)
(***************************************************************************)
EXTENDS HttpsClient, SequenceTheorems, FiniteSetTheorems, WellFoundedInduction, TLAPS

-----------------------------------------------------------------------------
(* The invariant.                                                           *)

(* The variables of the control.                                            *)
ControlOK ==
    /\ conn \in {"connecting", "handshake", "up", "closed"}
    /\ state \in States
    /\ now \in Nat /\ timeout \in Nat /\ calls \in Nat /\ connects \in Nat

(* Whoever has been told is told once, and then the connection is closed    *)
(* for good: no socket on which anything could happen.                      *)
ToldOK ==
    /\ completed => calls = 0
    /\ ~ completed => calls = 1
    /\ state = "DONE" => ~ completed /\ ~ socket /\ ~ parsing
    /\ state # "DONE" => completed /\ conn # "closed"

(* The request is written when the handshake is over.                       *)
WrittenOK ==
    /\ conn \in {"connecting", "handshake"} => connects = 0
    /\ connects <= 1

(* Only the end of the headers moves the timeout, and only once.            *)
TimeOK ==
    state # "DONE" =>
        /\ timeout = IF state = "HEADERS" THEN RequestTimeout ELSE RequestTimeout + BodyTime
        /\ now < timeout \/ now = 0

Inv == ControlOK /\ ToldOK /\ WrittenOK /\ TimeOK

-----------------------------------------------------------------------------
(* Closing, from wherever, ends the request.                                *)
LEMMA CloseStep ==
    ASSUME ToldOK, NEW why, NEW late, NEW answered, Close(why, late, answered)
    PROVE  /\ state' = "DONE" /\ conn' = "closed" /\ calls' = 1
           /\ completed' = FALSE /\ socket' = FALSE /\ parsing' = FALSE
<1>1. /\ state' = "DONE" /\ conn' = "closed"
      /\ socket' = FALSE /\ parsing' = FALSE
  BY DEF Close
<1>2. CASE state = "DONE"
  BY <1>1, <1>2 DEF Close, ToldOK, done
<1>3. CASE state # "DONE"
  <2>1. completed /\ calls = 0
    BY <1>3 DEF ToldOK
  <2>2. Complete(why, late, answered)
    BY <1>3 DEF Close
  <2> QED
    BY <1>1, <2>1, <2>2 DEF Complete
<1> QED
  BY <1>2, <1>3

(* A step of the parser: it closes, or it goes on in a state of its own.    *)
LEMMA ParseStep ==
    ASSUME Inv, Parse
    PROVE  /\ now' = now /\ connects' = connects
           /\ \/ /\ state' = "DONE" /\ conn' = "closed" /\ calls' = 1
                 /\ completed' = FALSE /\ socket' = FALSE /\ parsing' = FALSE
                 /\ timeout' \in Nat
              \/ /\ state # "DONE" /\ state' \in States \ {"DONE"}
                 /\ UNCHANGED <<conn, socket, completed, calls>>
                 /\ \/ timeout' = timeout /\ (state = "HEADERS" <=> state' = "HEADERS")
                    \/ timeout' = timeout + BodyTime /\ state = "HEADERS" /\ state' # "HEADERS"
<1> USE DEF Parsing, ReturnTrue, Again, line, done, clock
<1>1. ToldOK /\ timeout \in Nat
  BY DEF Inv, ControlOK
<1>2. CASE HeadersMissing
  BY <1>2 DEF HeadersMissing, States
<1>3. CASE HeadersOnly
  <2>1. PICK answered : Close("parser", timed_out, answered)
    BY <1>3, Zenon DEF HeadersOnly
  <2>2. timeout' = timeout + BodyTime /\ now' = now /\ connects' = connects
    BY <1>3 DEF HeadersOnly
  <2> QED
    <3>1. /\ state' = "DONE" /\ conn' = "closed" /\ calls' = 1
          /\ completed' = FALSE /\ socket' = FALSE /\ parsing' = FALSE
      BY <1>1, <2>1, CloseStep
    <3>2. timeout' \in Nat
      BY <1>1, <2>2 DEF BodyTime
    <3> QED
      BY <2>2, <3>1, <3>2
<1>4. CASE Headers
  BY <1>4 DEF Headers, States
<1>5. CASE Content
  <2>1. timeout' = timeout /\ now' = now /\ connects' = connects /\ state = "CONTENT"
    BY <1>5 DEF Content
  <2>2. CASE Close("parser", timed_out, status)
    BY <1>1, <2>1, <2>2, CloseStep
  <2>3. CASE ReturnTrue /\ UNCHANGED state
    BY <2>1, <2>3 DEF States
  <2> QED
    BY <1>5, <2>2, <2>3 DEF Content
<1>6. CASE ChunkLength
  <2>1. timeout' = timeout /\ now' = now /\ connects' = connects /\ state = "CHUNK_LEN"
    BY <1>6 DEF ChunkLength
  <2>2. CASE Close("parser", timed_out, status)
    BY <1>1, <2>1, <2>2, CloseStep
  <2>3. CASE ReturnTrue /\ UNCHANGED state
    BY <2>1, <2>3 DEF States
  <2>4. CASE Again /\ state' \in {"CHUNK_LAST", "CHUNK_CONTENT"}
    BY <2>1, <2>4 DEF States
  <2> QED
    BY <1>6, <2>2, <2>3, <2>4 DEF ChunkLength
<1>7. CASE ChunkContent
  <2>1. timeout' = timeout /\ now' = now /\ connects' = connects /\ state = "CHUNK_CONTENT"
    BY <1>7 DEF ChunkContent
  <2>2. CASE state' = "CHUNK_TRAILER" /\ Again
    BY <2>1, <2>2 DEF States
  <2>3. CASE ReturnTrue /\ UNCHANGED state
    BY <2>1, <2>3 DEF States
  <2> QED
    BY <1>7, <2>2, <2>3 DEF ChunkContent
<1>8. ASSUME NEW s \in {"CHUNK_TRAILER", "CHUNK_LAST"}, ChunkEnd(s)
      PROVE  /\ now' = now /\ connects' = connects
             /\ \/ /\ state' = "DONE" /\ conn' = "closed" /\ calls' = 1
                   /\ completed' = FALSE /\ socket' = FALSE /\ parsing' = FALSE
                   /\ timeout' \in Nat
                \/ /\ state # "DONE" /\ state' \in States \ {"DONE"}
                   /\ UNCHANGED <<conn, socket, completed, calls>>
                   /\ timeout' = timeout /\ (state = "HEADERS" <=> state' = "HEADERS")
  <2>1. timeout' = timeout /\ now' = now /\ connects' = connects /\ state = s
    BY <1>8 DEF ChunkEnd
  <2>2. CASE Close("parser", timed_out, status)
    BY <1>1, <2>1, <2>2, CloseStep
  <2>3. CASE ReturnTrue /\ UNCHANGED state
    BY <2>1, <2>3 DEF States
  <2>4. CASE state' = "CHUNK_LEN" /\ Again
    BY <2>1, <2>4 DEF States
  <2> QED
    BY <1>8, <2>2, <2>3, <2>4 DEF ChunkEnd
<1> QED
  BY <1>2, <1>3, <1>4, <1>5, <1>6, <1>7, <1>8 DEF Parse

LEMMA InvInit == Init => Inv
BY ClientAssumption DEF Init, Inv, ControlOK, ToldOK, WrittenOK, TimeOK, States

(* A closed request: nothing of it moves any more but the time.             *)
LEMMA ClosedOK ==
    ASSUME Inv,
           state' = "DONE", conn' = "closed", calls' = 1, completed' = FALSE,
           socket' = FALSE, parsing' = FALSE,
           now' \in Nat, timeout' \in Nat, connects' = connects
    PROVE  Inv'
<1>1. ControlOK' /\ WrittenOK' /\ TimeOK'
  BY DEF Inv, ControlOK, WrittenOK, TimeOK, States
<1>2. ToldOK'
  BY DEF ToldOK
<1> QED
  BY <1>1, <1>2 DEF Inv

LEMMA InvStep ==
    ASSUME Inv, [Next]_vars
    PROVE  Inv'
<1> USE DEF line, parser, clock, done
<1>1. ControlOK /\ ToldOK /\ WrittenOK /\ TimeOK
  BY DEF Inv
<1>2. CASE Connected
  <2>1. state # "DONE"
    BY <1>1, <1>2 DEF Connected, Idle, ToldOK
  <2>2. ToldOK'
    BY <1>1, <1>2, <2>1 DEF Connected, ToldOK
  <2>3. ControlOK' /\ WrittenOK' /\ TimeOK'
    BY <1>1, <1>2 DEF Connected, ControlOK, WrittenOK, TimeOK
  <2> QED
    BY <2>2, <2>3 DEF Inv
<1>3. CASE HandshakeDone
  <2>1. state # "DONE"
    BY <1>1, <1>3 DEF HandshakeDone, Idle, ToldOK
  <2>2. ToldOK'
    BY <1>1, <1>3, <2>1 DEF HandshakeDone, ToldOK
  <2>3. ControlOK' /\ WrittenOK' /\ TimeOK'
    BY <1>1, <1>3 DEF HandshakeDone, ControlOK, WrittenOK, TimeOK
  <2> QED
    BY <2>2, <2>3 DEF Inv
<1>4. CASE Receive
  <2>1. state # "DONE"
    BY <1>1, <1>4 DEF Receive, Idle, ToldOK
  <2>2. ToldOK'
    BY <1>1, <1>4, <2>1 DEF Receive, ToldOK
  <2>3. ControlOK' /\ WrittenOK' /\ TimeOK'
    BY <1>1, <1>4 DEF Receive, ControlOK, WrittenOK, TimeOK
  <2> QED
    BY <2>2, <2>3 DEF Inv
<1>5. ASSUME UNCHANGED <<conn, socket, state, parsing, now, timeout, completed, calls, connects>>
      PROVE  Inv'
  <2>1. ToldOK'
    BY <1>1, <1>5 DEF ToldOK
  <2>2. ControlOK' /\ WrittenOK' /\ TimeOK'
    BY <1>1, <1>5 DEF ControlOK, WrittenOK, TimeOK
  <2> QED
    BY <2>1, <2>2 DEF Inv
<1>6. CASE Silence
  BY <1>5, <1>6 DEF Silence
<1>7. CASE Break
  <2>1. Close("connection", timed_out, status) /\ UNCHANGED <<now, timeout, connects>>
    BY <1>7 DEF Break
  <2> QED
    BY <1>1, <2>1, CloseStep, ClosedOK DEF ControlOK
<1>8. CASE Parse
  <2>1. CASE /\ state' = "DONE" /\ conn' = "closed" /\ calls' = 1
             /\ completed' = FALSE /\ socket' = FALSE /\ parsing' = FALSE
             /\ timeout' \in Nat
    BY <1>1, <1>8, <2>1, ParseStep, ClosedOK DEF ControlOK
  <2>2. CASE /\ state # "DONE" /\ state' \in States \ {"DONE"}
             /\ UNCHANGED <<conn, socket, completed, calls>>
             /\ \/ timeout' = timeout /\ (state = "HEADERS" <=> state' = "HEADERS")
                \/ timeout' = timeout + BodyTime /\ state = "HEADERS" /\ state' # "HEADERS"
    <3>1. now' = now /\ connects' = connects
      BY <1>8, ParseStep
    <3>2. ToldOK'
      BY <1>1, <2>2 DEF ToldOK
    <3>3. ControlOK' /\ WrittenOK'
      BY <1>1, <2>2, <3>1 DEF ControlOK, WrittenOK, BodyTime
    <3>4. TimeOK'
      BY <1>1, <2>2, <3>1, ClientAssumption DEF ControlOK, TimeOK, BodyTime
    <3> QED
      BY <3>2, <3>3, <3>4 DEF Inv
  <2> QED
    BY <1>8, <2>1, <2>2, ParseStep
<1>9. CASE Second
  <2>1. state # "DONE" /\ now' = now + 1 /\ UNCHANGED <<timeout, connects>>
    BY <1>9 DEF Second
  <2>2. CASE now + 1 >= timeout
    <3>1. PICK late : Close("time", late, status)
      <4>1. Expired
        BY <1>9, <2>2, Zenon DEF Second
      <4> QED
        BY <4>1, Zenon DEF Expired
    <3>2. /\ state' = "DONE" /\ conn' = "closed" /\ calls' = 1
          /\ completed' = FALSE /\ socket' = FALSE /\ parsing' = FALSE
      BY <1>1, <3>1, CloseStep
    <3>3. now' \in Nat /\ timeout' \in Nat /\ connects' = connects
      BY <1>1, <2>1 DEF ControlOK
    <3> QED
      BY <3>2, <3>3, ClosedOK
  <2>3. CASE ~ (now + 1 >= timeout)
    <3>1. UNCHANGED <<conn, state, parsing, completed, calls>>
      BY <1>9, <2>3 DEF Second, Retry, RetryDue
    <3>2. ToldOK'
      BY <1>1, <2>1, <3>1 DEF ToldOK
    <3>3. ControlOK' /\ WrittenOK' /\ TimeOK'
      BY <1>1, <2>1, <2>3, <3>1 DEF ControlOK, WrittenOK, TimeOK
    <3> QED
      BY <3>2, <3>3 DEF Inv
  <2> QED
    BY <2>2, <2>3
<1>10. CASE UNCHANGED vars
  BY <1>5, <1>10 DEF vars
<1> QED
  BY <1>2, <1>3, <1>4, <1>6, <1>7, <1>8, <1>9, <1>10 DEF Next

THEOREM InvHolds == Spec => []Inv
BY InvInit, InvStep, PTL DEF Spec

(* The completion handler is called once and no more, wherever parser,      *)
(* connection and timer meet (httpsclient.cpp:256-266, 295-306, 347-356).   *)
THEOREM CompletedOnce == Spec => []OneCompletion
<1>1. Inv => OneCompletion
  BY DEF Inv, ToldOK, OneCompletion
<1> QED
  BY <1>1, InvHolds, PTL

(* The request is written once, however often connect() is tried            *)
(* (sslconnection.cpp:621-645).                                             *)
THEOREM WrittenOnce == Spec => []SentOnce
<1>1. Inv => SentOnce
  BY DEF Inv, WrittenOK, SentOnce
<1> QED
  BY <1>1, InvHolds, PTL

(* A request is over after its timeout and ten seconds, for any timeout     *)
(* (httpsclient.cpp:166-169, 334-345).                                      *)
THEOREM OverInTime == Spec => []DoneInTime
<1>1. Inv => DoneInTime
  BY ClientAssumption DEF Inv, ControlOK, TimeOK, DoneInTime, BodyTime
<1> QED
  BY <1>1, InvHolds, PTL

-----------------------------------------------------------------------------
(* Pieces of sequences.                                                     *)

(* Cutting a sequence in two.                                               *)
LEMMA Cut ==
    ASSUME NEW S, NEW s \in Seq(S), NEW n \in 0 .. Len(s)
    PROVE  /\ Prefix(s, n) \in Seq(S) /\ Len(Prefix(s, n)) = n
           /\ \A i \in 1 .. n : Prefix(s, n)[i] = s[i]
           /\ Rest(s, n) \in Seq(S) /\ Len(Rest(s, n)) = Len(s) - n
           /\ \A i \in 1 .. Len(s) - n : Rest(s, n)[i] = s[n + i]
<1>1. /\ Len(s) \in Nat /\ \A i \in 1 .. Len(s) : s[i] \in S
  BY LenProperties, ElementOfSeq
<1>2. /\ Prefix(s, n) \in Seq(S) /\ Len(Prefix(s, n)) = n
      /\ \A i \in 1 .. n : Prefix(s, n)[i] = s[i]
  <2>1. \A i \in 1 .. n : s[i] \in S
    BY <1>1
  <2>2. /\ SubSeq(s, 1, n) \in Seq(S)
        /\ Len(SubSeq(s, 1, n)) = IF 1 <= n THEN n - 1 + 1 ELSE 0
        /\ \A i \in 1 .. n - 1 + 1 : SubSeq(s, 1, n)[i] = s[1 + i - 1]
    BY <1>1, <2>1, SubSeqProperties
  <2> QED
    BY <1>1, <2>2 DEF Prefix
<1>3. /\ Rest(s, n) \in Seq(S) /\ Len(Rest(s, n)) = Len(s) - n
      /\ \A i \in 1 .. Len(s) - n : Rest(s, n)[i] = s[n + i]
  <2>1. \A i \in n + 1 .. Len(s) : s[i] \in S
    BY <1>1
  <2>2. /\ SubSeq(s, n + 1, Len(s)) \in Seq(S)
        /\ Len(SubSeq(s, n + 1, Len(s)))
              = IF n + 1 <= Len(s) THEN Len(s) - (n + 1) + 1 ELSE 0
        /\ \A i \in 1 .. Len(s) - (n + 1) + 1 :
              SubSeq(s, n + 1, Len(s))[i] = s[n + 1 + i - 1]
    BY <1>1, <2>1, SubSeqProperties
  <2> QED
    BY <1>1, <2>2 DEF Rest
<1> QED
  BY <1>2, <1>3

(* What comes after the first of some tokens.                               *)
LEMMA AfterFirst ==
    ASSUME NEW S, NEW s \in Seq(S), NEW x, NEW k \in 1 .. Len(s),
           s[k] = x, \A j \in 1 .. k - 1 : s[j] # x
    PROVE  After(s, x) = Rest(s, k)
<1> DEFINE First(i) == s[i] = x /\ \A j \in 1 .. i - 1 : s[j] # x
<1>1. Len(s) \in Nat /\ DOMAIN s = 1 .. Len(s)
  BY LenProperties
<1>2. First(k) /\ k \in DOMAIN s
  BY <1>1
<1>3. \A i \in DOMAIN s : First(i) => i = k
  BY <1>1
<1>4. (CHOOSE i \in DOMAIN s : First(i)) = k
  BY <1>2, <1>3
<1> QED
  BY <1>4 DEF After, Rest

(* A token that is there is there for a first time.                         *)
LEMMA AfterIsRest ==
    ASSUME NEW S, NEW s \in Seq(S), NEW x, x \in Elements(s)
    PROVE  \E k \in 1 .. Len(s) :
              /\ After(s, x) = Rest(s, k) /\ s[k] = x
              /\ \A j \in 1 .. k - 1 : s[j] # x
<1>1. Len(s) \in Nat /\ DOMAIN s = 1 .. Len(s)
  BY LenProperties
<1> DEFINE P == {i \in 1 .. Len(s) : s[i] = x}
<1>2. PICK i \in P : TRUE
  BY <1>1 DEF Elements
<1>3. PICK k \in P : \A j \in P : k <= j
  <2>1. P \subseteq Nat /\ P # {}
    BY <1>1, <1>2
  <2>2. PICK k \in P : \A j \in P : <<j, k>> \notin OpToRel(<, Nat)
    BY <2>1, NatLessThanWellFounded, WFMin, Zenon
  <2>3. \A j \in P : ~ (j < k)
    BY <2>1, <2>2 DEF OpToRel
  <2> QED
    BY <2>1, <2>3
<1> QED
  BY <1>1, <1>3, AfterFirst

-----------------------------------------------------------------------------
(* Types.                                                                   *)

(* The variables the control does not need.                                 *)
DataOK ==
    /\ response \in Responses
    /\ coming \in Seq(Tokens) /\ buffer \in Seq(Tokens) /\ body \in Seq(Tokens)
    /\ length \in Nat /\ chunk \in Nat /\ start \in Nat /\ retries \in Nat
    /\ socket \in BOOLEAN /\ parsing \in BOOLEAN /\ status \in BOOLEAN
    /\ timed_out \in BOOLEAN /\ completed \in BOOLEAN
    /\ outcome \in {"none", "success", "error"}
    /\ cause \in {"none", "parser", "connection", "time"}

LEMMA CloseTypes ==
    ASSUME DataOK, NEW why \in {"parser", "connection", "time"}, NEW late, NEW answered,
           Close(why, late, answered)
    PROVE  /\ buffer' \in Seq(Tokens) /\ socket' \in BOOLEAN /\ parsing' \in BOOLEAN
           /\ completed' \in BOOLEAN /\ outcome' \in {"none", "success", "error"}
           /\ cause' \in {"none", "parser", "connection", "time"}
<1>1. buffer' = << >> /\ socket' = FALSE /\ parsing' = FALSE
  BY DEF Close
<1>2. Complete(why, late, answered) \/ UNCHANGED done
  BY DEF Close
<1>3. \/ UNCHANGED <<completed, outcome, cause>>
      \/ completed' = FALSE /\ outcome' \in {"error", "success"} /\ cause' = why
  BY <1>2 DEF Complete, done
<1> QED
  BY <1>1, <1>3, EmptySeq DEF DataOK

LEMMA DataInit == Init => DataOK
<1> SUFFICES ASSUME Init PROVE DataOK
  OBVIOUS
<1>1. response \in Responses /\ response.text \in Seq(Tokens)
  BY ClientAssumption DEF Init
<1> QED
  BY <1>1, EmptySeq DEF Init, DataOK

(* The parser: what it takes out of the buffer and into the body.           *)
LEMMA ParseTypes ==
    ASSUME DataOK, Parse
    PROVE  DataOK'
<1> USE DEF Parsing, ReturnTrue, Again, line, done, clock
<1>0. /\ UNCHANGED <<response, coming, start, retries, timed_out>>
      /\ response \in Responses /\ buffer \in Seq(Tokens) /\ body \in Seq(Tokens)
      /\ chunk \in Nat /\ length \in Nat
  <2>1. \E s \in States : Parsing(s)
    BY Zenon DEF Parse, HeadersMissing, HeadersOnly, Headers, Content, ChunkLength,
                 ChunkContent, ChunkEnd, States
  <2> QED
    BY <2>1 DEF DataOK
<1>1. Len(buffer) \in Nat /\ response.length \in Nat
  BY <1>0, LenProperties, ClientAssumption
<1>2. CASE HeadersMissing
  BY <1>0, <1>2 DEF HeadersMissing, DataOK
<1>3. CASE HeadersOnly
  <2>1. PICK answered \in BOOLEAN : Close("parser", timed_out, answered) /\ status' = answered
    BY <1>3, Zenon DEF HeadersOnly
  <2>2. UNCHANGED <<length, chunk, body>>
    BY <1>3 DEF HeadersOnly
  <2> QED
    BY <1>0, <2>1, <2>2, CloseTypes DEF DataOK
<1>4. CASE Headers
  <2>1. /\ status' = TRUE /\ length' = response.length /\ UNCHANGED <<chunk, body>>
        /\ buffer' = After(buffer, "end") /\ "end" \in Elements(buffer)
        /\ parsing' \in {FALSE, parsing}
        /\ UNCHANGED <<socket, completed, outcome, cause>>
    BY <1>4 DEF Headers
  <2>2. buffer' \in Seq(Tokens)
    BY <1>0, <1>1, <2>1, AfterIsRest, Cut
  <2>3. length' \in Nat
    BY <1>1, <2>1
  <2> QED
    BY <1>0, <2>1, <2>2, <2>3 DEF DataOK
<1>5. CASE Content
  <2>1. body' \in Seq(Tokens) /\ UNCHANGED <<status, length, chunk>>
    BY <1>0, <1>5, ConcatProperties DEF Content
  <2>2. CASE Close("parser", timed_out, status)
    BY <1>0, <2>1, <2>2, CloseTypes DEF DataOK
  <2>3. CASE buffer' = << >> /\ ReturnTrue
    BY <1>0, <2>1, <2>3, EmptySeq DEF DataOK
  <2> QED
    BY <1>5, <2>2, <2>3 DEF Content
<1>6. CASE ChunkLength
  <2>1. UNCHANGED <<status, length, body>>
    BY <1>6 DEF ChunkLength
  <2>2. CASE ReturnTrue /\ UNCHANGED <<buffer, state, chunk>>
    BY <1>0, <2>1, <2>2 DEF DataOK
  <2>3. CASE Close("parser", timed_out, status) /\ UNCHANGED chunk
    BY <1>0, <2>1, <2>3, CloseTypes DEF DataOK
  <2>4. CASE /\ "lf" \in Elements(buffer) /\ buffer[1] \in DOMAIN Sizes /\ Again
             /\ chunk' = Sizes[buffer[1]] /\ buffer' = LineEnd(buffer)
    <3>1. buffer' \in Seq(Tokens)
      BY <1>0, <1>1, <2>4, AfterIsRest, Cut DEF LineEnd
    <3>2. chunk' \in Nat
      BY <2>4 DEF Sizes
    <3> QED
      BY <1>0, <2>1, <2>4, <3>1, <3>2 DEF DataOK
  <2> QED
    BY <1>6, <2>2, <2>3, <2>4 DEF ChunkLength
<1>7. CASE ChunkContent
  <2> DEFINE taken == Lesser(Len(buffer), chunk)
  <2>1. /\ body' = body \o Prefix(buffer, taken) /\ chunk' = chunk - taken
        /\ buffer' = Rest(buffer, taken) /\ UNCHANGED <<status, length>>
        /\ parsing' \in {FALSE, parsing}
        /\ UNCHANGED <<socket, completed, outcome, cause>>
    BY <1>7 DEF ChunkContent
  <2>2. taken \in 0 .. Len(buffer) /\ chunk - taken \in Nat
    BY <1>0, <1>1 DEF Lesser
  <2> HIDE DEF taken
  <2>3. body' \in Seq(Tokens) /\ buffer' \in Seq(Tokens)
    BY <1>0, <2>1, <2>2, Cut, ConcatProperties
  <2> QED
    BY <1>0, <2>1, <2>2, <2>3 DEF DataOK
<1>8. ASSUME NEW s \in {"CHUNK_TRAILER", "CHUNK_LAST"}, ChunkEnd(s)
      PROVE  DataOK'
  <2>1. UNCHANGED <<status, length, chunk, body>>
    BY <1>8 DEF ChunkEnd
  <2>2. CASE ReturnTrue /\ UNCHANGED <<buffer, state>>
    BY <1>0, <2>1, <2>2 DEF DataOK
  <2>3. CASE Close("parser", timed_out, status)
    BY <1>0, <2>1, <2>3, CloseTypes DEF DataOK
  <2>4. CASE ~ (Len(buffer) < 2) /\ buffer' = Rest(buffer, 2) /\ Again
    <3>1. buffer' \in Seq(Tokens)
      BY <1>0, <1>1, <2>4, Cut
    <3> QED
      BY <1>0, <2>1, <2>4, <3>1 DEF DataOK
  <2> QED
    BY <1>8, <2>2, <2>3, <2>4 DEF ChunkEnd
<1> QED
  BY <1>2, <1>3, <1>4, <1>5, <1>6, <1>7, <1>8 DEF Parse

LEMMA DataStep ==
    ASSUME Inv, DataOK, [Next]_vars
    PROVE  DataOK'
<1> USE DEF line, parser, clock, done
<1>1. CASE Connected
  BY <1>1 DEF Connected, DataOK
<1>2. CASE HandshakeDone
  BY <1>2 DEF HandshakeDone, DataOK
<1>3. CASE Receive
  <2>1. PICK n \in 1 .. Len(coming) : /\ buffer' = buffer \o Prefix(coming, n)
                                      /\ coming' = Rest(coming, n)
    BY <1>3 DEF Receive
  <2>2. coming \in Seq(Tokens) /\ buffer \in Seq(Tokens) /\ n \in 0 .. Len(coming)
    BY <2>1, LenProperties DEF DataOK
  <2>3. buffer' \in Seq(Tokens) /\ coming' \in Seq(Tokens)
    BY <2>1, <2>2, Cut, ConcatProperties
  <2> QED
    BY <1>3, <2>3 DEF Receive, DataOK
<1>4. CASE Silence
  BY <1>4, EmptySeq DEF Silence, DataOK
<1>5. CASE Break
  BY <1>5, CloseTypes DEF Break, DataOK
<1>6. CASE Parse
  BY <1>6, ParseTypes
<1>7. CASE Second
  <2>1. now \in Nat /\ UNCHANGED <<response, coming>>
    BY <1>7 DEF Second, Inv, ControlOK
  <2>2. CASE now + 1 >= timeout
    <3>1. Expired /\ UNCHANGED <<status, length, chunk, body>>
      BY <1>7, <2>2, Zenon DEF Second
    <3>2. PICK late : Close("time", late, status)
      BY <3>1, Zenon DEF Expired
    <3>3. timed_out' = TRUE /\ UNCHANGED <<start, retries>>
      BY <3>1 DEF Expired
    <3> QED
      BY <2>1, <3>1, <3>2, <3>3, CloseTypes DEF DataOK
  <2>3. CASE ~ (now + 1 >= timeout) /\ RetryDue
    <3>1. Retry
      BY <1>7, <2>3, Zenon DEF Second
    <3> QED
      BY <2>1, <3>1 DEF Retry, DataOK
  <2>4. CASE ~ (now + 1 >= timeout) /\ ~ RetryDue
    <3>1. UNCHANGED <<line, parser, start, retries, timed_out, done>>
      BY <1>7, <2>4, Zenon DEF Second
    <3> QED
      BY <2>1, <3>1 DEF DataOK
  <2> QED
    BY <2>2, <2>3, <2>4
<1>8. CASE UNCHANGED vars
  BY <1>8 DEF vars, DataOK
<1> QED
  BY <1>1, <1>2, <1>3, <1>4, <1>5, <1>6, <1>7, <1>8 DEF Next

THEOREM DataHolds == Spec => [](Inv /\ DataOK)
BY InvInit, InvStep, DataInit, DataStep, PTL DEF Spec

(* Every variable has its type, whatever is received in whatever pieces.    *)
THEOREM TypeCorrect == Spec => []TypeOK
<1>1. Inv /\ DataOK => TypeOK
  BY DEF Inv, ControlOK, DataOK, TypeOK
<1> QED
  BY <1>1, DataHolds, PTL

-----------------------------------------------------------------------------
(* The body.                                                                *)

text == response.text

(* The parser has dealt with n tokens of the response; those in the buffer  *)
(* are the next, and what is coming, if the server goes on, follows them.   *)
Arrived(n) ==
    /\ n + Len(buffer) <= Len(text)
    /\ \A i \in 1 .. Len(buffer) : buffer[i] = text[n + i]
    /\ \/ coming = << >>
       \/ /\ Len(coming) = Len(text) - n - Len(buffer)
          /\ \A i \in 1 .. Len(coming) : coming[i] = text[n + Len(buffer) + i]

(* Where in a response each state of the parser is.                         *)
InChunk(n) ==
    \E p \in 3 .. n :
        /\ text[p] \in DOMAIN Sizes
        /\ chunk \in 1 .. Sizes[text[p]]
        /\ n = p + 2 + Sizes[text[p]] - chunk

PlaceOK(n) ==
    /\ state = "HEADERS" => n = 0
    /\ state # "HEADERS" =>
          /\ n > 1 /\ length = response.length
          /\ state = "CONTENT" <=> ~ response.chunked
    /\ state = "CHUNK_LEN" =>
          \/ n = 2
          \/ n > 4 /\ text[n - 2] \in BodyParts /\ text[n - 1] = "cr" /\ text[n] = "lf"
    /\ state = "CHUNK_CONTENT" => InChunk(n)
    /\ state = "CHUNK_TRAILER" => n > 2 /\ text[n] \in BodyParts
    /\ state = "CHUNK_LAST" => n > 4 /\ text[n - 2] = "0"

(* The body is what the parser has seen of it, and nothing else.            *)
At(n) == Arrived(n) /\ PlaceOK(n) /\ Len(body) = Cardinality(BodyPlaces(text, n))

TextOK ==
    /\ state # "DONE" => outcome = "none" /\ \E n \in 0 .. Len(text) : At(n)
    /\ BodyIsPrefix
    /\ WholeWhenParsed

(* Tokens that are all parts of the body, or none of them.                  *)
LEMMA PlacesCount ==
    ASSUME NEW t, NEW n \in Nat, NEW m \in Nat, n <= m
    PROVE  /\ Cardinality(BodyPlaces(t, n)) \in Nat
           /\ Cardinality(BodyPlaces(t, n)) <= Cardinality(BodyPlaces(t, m))
           /\ (\A i \in n + 1 .. m : t[i] \in BodyParts) =>
                 Cardinality(BodyPlaces(t, m)) = Cardinality(BodyPlaces(t, n)) + (m - n)
           /\ (\A i \in n + 1 .. m : t[i] \notin BodyParts) => BodyPlaces(t, m) = BodyPlaces(t, n)
<1>1. /\ IsFiniteSet(BodyPlaces(t, n)) /\ IsFiniteSet(BodyPlaces(t, m))
      /\ Cardinality(BodyPlaces(t, n)) \in Nat
  <2>1. BodyPlaces(t, n) \in SUBSET (1 .. n) /\ BodyPlaces(t, m) \in SUBSET (1 .. m)
    BY DEF BodyPlaces
  <2>2. IsFiniteSet(1 .. n) /\ IsFiniteSet(1 .. m)
    BY FS_Interval
  <2>3. IsFiniteSet(BodyPlaces(t, n)) /\ IsFiniteSet(BodyPlaces(t, m))
    BY <2>1, <2>2, FS_Subset
  <2> QED
    BY <2>3, FS_CardinalityType
<1>2. Cardinality(BodyPlaces(t, n)) <= Cardinality(BodyPlaces(t, m))
  <2>1. BodyPlaces(t, n) \in SUBSET BodyPlaces(t, m)
    BY DEF BodyPlaces
  <2> QED
    BY <1>1, <2>1, FS_Subset
<1>3. ASSUME \A i \in n + 1 .. m : t[i] \in BodyParts
      PROVE  Cardinality(BodyPlaces(t, m)) = Cardinality(BodyPlaces(t, n)) + (m - n)
  <2>1. BodyPlaces(t, m) = BodyPlaces(t, n) \cup (n + 1 .. m)
    BY <1>3 DEF BodyPlaces
  <2>2. BodyPlaces(t, n) \cap (n + 1 .. m) = {}
    BY DEF BodyPlaces
  <2>3. IsFiniteSet(n + 1 .. m) /\ Cardinality(n + 1 .. m) = m - n
    <3>1. n + 1 \in Int /\ m \in Int
      OBVIOUS
    <3>2. /\ IsFiniteSet(n + 1 .. m)
          /\ Cardinality(n + 1 .. m) = IF n + 1 > m THEN 0 ELSE m - (n + 1) + 1
      BY <3>1, FS_Interval
    <3> QED
      BY <3>2
  <2>4. Cardinality(BodyPlaces(t, m)) = Cardinality(BodyPlaces(t, n)) + Cardinality(n + 1 .. m)
                                     - Cardinality(BodyPlaces(t, n) \cap (n + 1 .. m))
    BY <1>1, <2>1, <2>3, FS_Union
  <2>5. Cardinality(BodyPlaces(t, n) \cap (n + 1 .. m)) = 0
    BY <2>2, FS_EmptySet
  <2> QED
    BY <1>1, <2>3, <2>4, <2>5
<1>4. (\A i \in n + 1 .. m : t[i] \notin BodyParts) => BodyPlaces(t, m) = BodyPlaces(t, n)
  BY DEF BodyPlaces
<1> QED
  BY <1>1, <1>2, <1>3, <1>4

(* What is known of a response.                                             *)
LEMMA TextFacts ==
    ASSUME DataOK
    PROVE  /\ WellFormed(response) /\ response.chunked \in BOOLEAN
           /\ text \in Seq(Tokens) /\ Len(text) \in Nat
           /\ response.body = Cardinality(BodyPlaces(text, Len(text)))
           /\ \A i \in BodyPlaces(text, Len(text)) :
                 text[i] = Parts[Cardinality(BodyPlaces(text, i))]
           /\ \A x \in Framing : x \notin BodyParts
           /\ Len(buffer) \in Nat /\ Len(coming) \in Nat /\ Len(body) \in Nat
<1>1. response \in Responses
  BY DEF DataOK
<1>2. WellFormed(response) /\ response.chunked \in BOOLEAN
  BY <1>1, ClientAssumption, ResponseAssumption
<1>3. text \in Seq(Tokens)
  BY <1>1, ClientAssumption DEF text
<1>4. Len(text) \in Nat /\ DOMAIN text = 1 .. Len(text)
  BY <1>3, LenProperties
<1>5. /\ response.body = Cardinality(BodyPlaces(text, Len(text)))
      /\ \A i \in BodyPlaces(text, Len(text)) :
            text[i] = Parts[Cardinality(BodyPlaces(text, i))]
  BY <1>2 DEF WellFormed, text
<1>6. Len(buffer) \in Nat /\ Len(coming) \in Nat /\ Len(body) \in Nat
  BY LenProperties DEF DataOK
<1> QED
  BY <1>2, <1>3, <1>4, <1>5, <1>6, ClientAssumption

(* The parser has dealt with k more tokens.                                 *)
LEMMA Advance ==
    ASSUME DataOK, NEW n \in 0 .. Len(text), Arrived(n), NEW k \in 0 .. Len(buffer),
           buffer' = Rest(buffer, k), UNCHANGED <<response, coming>>
    PROVE  n + k \in 0 .. Len(text) /\ Arrived(n + k)' /\ text' = text
<1>1. Len(text) \in Nat /\ Len(buffer) \in Nat /\ buffer \in Seq(Tokens)
  BY TextFacts DEF DataOK
<1>2. /\ Len(buffer') = Len(buffer) - k
      /\ \A i \in 1 .. Len(buffer) - k : buffer'[i] = buffer[k + i]
  BY <1>1, Cut
<1>3. text' = text
  BY DEF text
<1>4. \A i \in 1 .. Len(buffer) : buffer[i] = text[n + i]
  BY DEF Arrived
<1>5. \A i \in 1 .. Len(buffer') : buffer'[i] = text[n + k + i]
  BY <1>1, <1>2, <1>4
<1>6. n + k + Len(buffer') = n + Len(buffer) /\ n + Len(buffer) <= Len(text)
  BY <1>1, <1>2 DEF Arrived
<1>7. \/ coming' = << >>
      \/ /\ Len(coming') = Len(text) - (n + k) - Len(buffer')
         /\ \A i \in 1 .. Len(coming') : coming'[i] = text[n + k + Len(buffer') + i]
  <2>1. Len(text) - (n + k) - Len(buffer') = Len(text) - n - Len(buffer)
    BY <1>1, <1>2
  <2> QED
    BY <1>6, <2>1 DEF Arrived
<1>8. n + k + Len(buffer') <= Len(text)
  BY <1>6
<1>9. Arrived(n + k)'
  BY <1>3, <1>5, <1>7, <1>8 DEF Arrived
<1> QED
  BY <1>1, <1>3, <1>8, <1>9

(* Nothing moves in the text.                                               *)
LEMMA SameText ==
    ASSUME TextOK, UNCHANGED <<response, coming, buffer, state, length, chunk, body,
                               outcome, cause>>
    PROVE  TextOK'
<1>1. text' = text
  BY DEF text
<1>2. BodyIsPrefix' /\ WholeWhenParsed'
  BY DEF TextOK, BodyIsPrefix, WholeWhenParsed
<1>3. ASSUME NEW n, At(n) PROVE At(n)'
  BY <1>1, <1>3 DEF At, Arrived, PlaceOK, InChunk
<1> QED
  BY <1>1, <1>2, <1>3 DEF TextOK

(* The request ends, and not because of the parser.                         *)
LEMMA BrokenOff ==
    ASSUME TextOK, NEW why, why # "parser", NEW late, NEW answered,
           Close(why, late, answered), UNCHANGED <<response, body>>
    PROVE  TextOK'
<1>1. state' = "DONE"
  BY DEF Close
<1>2. BodyIsPrefix'
  BY DEF TextOK, BodyIsPrefix
<1>3. cause' = why \/ UNCHANGED <<outcome, cause>>
  <2>1. Complete(why, late, answered) \/ UNCHANGED done
    BY DEF Close
  <2> QED
    BY <2>1 DEF Complete, done
<1>4. WholeWhenParsed'
  BY <1>3 DEF TextOK, WholeWhenParsed
<1> QED
  BY <1>1, <1>2, <1>4 DEF TextOK

(* The parser ends the request.                                             *)
LEMMA Parsed ==
    ASSUME ToldOK, state # "DONE", NEW late, NEW answered \in BOOLEAN,
           Close("parser", late, answered), response' = response, BodyIsPrefix',
           answered /\ (response.chunked \/ response.length # ULLONG_MAX)
                    /\ "x" \notin Elements(response.text)
               => Len(body') = response.body
    PROVE  TextOK'
<1>1. state' = "DONE"
  BY DEF Close
<1>2. Complete("parser", late, answered) /\ completed
  BY DEF Close, ToldOK
<1>3. outcome' = "success" => answered
  BY <1>2 DEF Complete
<1>4. WholeWhenParsed'
  BY <1>3 DEF WholeWhenParsed
<1> QED
  BY <1>1, <1>4 DEF TextOK

(* The next k tokens are parts of the body, and are put at its end.         *)
LEMMA Appended ==
    ASSUME DataOK, DataOK', NEW n \in 0 .. Len(text), Arrived(n),
           Len(body) = Cardinality(BodyPlaces(text, n)), BodyIsPrefix,
           NEW k \in 0 .. Len(buffer), n + k \in 0 .. Len(text), response' = response,
           body' = body \o Prefix(buffer, k),
           \A i \in 1 .. k : text[n + i] \in BodyParts
    PROVE  Len(body') = Cardinality(BodyPlaces(text, n + k)) /\ BodyIsPrefix'
<1>1. /\ Len(text) \in Nat /\ Len(buffer) \in Nat /\ Len(body) \in Nat
      /\ response.body = Cardinality(BodyPlaces(text, Len(text)))
      /\ \A i \in BodyPlaces(text, Len(text)) :
            text[i] = Parts[Cardinality(BodyPlaces(text, i))]
      /\ buffer \in Seq(Tokens) /\ body \in Seq(Tokens)
  BY TextFacts DEF DataOK
<1>2. ASSUME NEW j \in 0 .. k
      PROVE  Cardinality(BodyPlaces(text, n + j)) = Len(body) + j
  <2>1. \A i \in n + 1 .. n + j : text[i] \in BodyParts
    <3> SUFFICES ASSUME NEW i \in n + 1 .. n + j PROVE text[i] \in BodyParts
      OBVIOUS
    <3>1. i - n \in 1 .. k /\ n + (i - n) = i
      BY <1>1
    <3> QED
      BY <3>1
  <2>2. n + j \in Nat /\ n <= n + j /\ n + j - n = j
    BY <1>1
  <2> QED
    BY <2>1, <2>2, PlacesCount
<1>3. ASSUME NEW j \in 1 .. k
      PROVE  text[n + j] = Parts[Len(body) + j]
  <2>1. n + j \in BodyPlaces(text, Len(text))
    <3>1. n + j \in 1 .. Len(text)
      BY <1>1
    <3> QED
      BY <3>1 DEF BodyPlaces
  <2>2. Cardinality(BodyPlaces(text, n + j)) = Len(body) + j
    BY <1>2
  <2>3. text[n + j] = Parts[Cardinality(BodyPlaces(text, n + j))]
    BY <1>1, <2>1, Zenon
  <2> QED
    BY <2>2, <2>3
<1>4. /\ Prefix(buffer, k) \in Seq(Tokens) /\ Len(Prefix(buffer, k)) = k
      /\ \A i \in 1 .. k : Prefix(buffer, k)[i] = text[n + i]
  <2>1. /\ Prefix(buffer, k) \in Seq(Tokens) /\ Len(Prefix(buffer, k)) = k
        /\ \A i \in 1 .. k : Prefix(buffer, k)[i] = buffer[i]
    BY <1>1, Cut
  <2>2. \A i \in 1 .. k : buffer[i] = text[n + i]
    BY <1>1 DEF Arrived
  <2> QED
    BY <2>1, <2>2
<1>5. /\ Len(body') = Len(body) + k
      /\ \A i \in 1 .. Len(body) + k :
            body'[i] = IF i <= Len(body) THEN body[i] ELSE Prefix(buffer, k)[i - Len(body)]
  <2>1. LET p == Prefix(buffer, k)
        IN  /\ Len(body \o p) = Len(body) + Len(p)
            /\ \A i \in 1 .. Len(body) + Len(p) :
                  (body \o p)[i] = IF i <= Len(body) THEN body[i] ELSE p[i - Len(body)]
    BY <1>1, <1>4, ConcatProperties, Zenon
  <2> QED
    BY <1>4, <2>1
<1>6. ASSUME NEW i \in 1 .. Len(body) + k
      PROVE  body'[i] = Parts[i]
  <2>1. CASE i <= Len(body)
    <3>1. i \in DOMAIN body
      BY <1>1, <2>1, LenProperties
    <3> QED
      BY <1>5, <2>1, <3>1 DEF BodyIsPrefix
  <2>2. CASE i > Len(body)
    <3>1. i - Len(body) \in 1 .. k /\ Len(body) + (i - Len(body)) = i
      BY <1>1, <2>2
    <3>2. body'[i] = Prefix(buffer, k)[i - Len(body)]
      BY <1>1, <1>5, <2>2
    <3> QED
      BY <1>3, <1>4, <3>1, <3>2
  <2>3. i <= Len(body) \/ i > Len(body)
    BY <1>1
  <2> QED
    BY <2>1, <2>2, <2>3
<1>7. DOMAIN body' = 1 .. Len(body) + k
  BY <1>5, LenProperties DEF DataOK
<1>8. Len(body') <= response'.body
  <2>1. n + k <= Len(text) /\ n + k \in Nat
    BY <1>1
  <2>2. Cardinality(BodyPlaces(text, n + k)) <= Cardinality(BodyPlaces(text, Len(text)))
    BY <1>1, <2>1, PlacesCount
  <2> QED
    BY <1>1, <1>2, <1>5, <2>2
<1> QED
  BY <1>2, <1>5, <1>6, <1>7, <1>8 DEF BodyIsPrefix

(* The parser goes on, k tokens further, and puts those of them into the    *)
(* body that belong there.                                                  *)
LEMMA GoesOn ==
    ASSUME DataOK, DataOK', NEW n \in 0 .. Len(text), Arrived(n), outcome = "none",
           Len(body) = Cardinality(BodyPlaces(text, n)), BodyIsPrefix,
           NEW k \in 0 .. Len(buffer), buffer' = Rest(buffer, k),
           UNCHANGED <<response, coming, outcome, cause>>,
           \/ body' = body /\ \A i \in 1 .. k : text[n + i] \notin BodyParts
           \/ body' = body \o Prefix(buffer, k) /\ \A i \in 1 .. k : text[n + i] \in BodyParts,
           PlaceOK(n + k)'
    PROVE  TextOK'
<1>1. n + k \in 0 .. Len(text) /\ Arrived(n + k)' /\ text' = text
  BY Advance
<1>2. /\ Len(text) \in Nat /\ Len(buffer) \in Nat /\ Len(body) \in Nat
      /\ response.body = Cardinality(BodyPlaces(text, Len(text)))
      /\ buffer \in Seq(Tokens) /\ body \in Seq(Tokens)
  BY TextFacts DEF DataOK
<1>3. Len(body') = Cardinality(BodyPlaces(text, n + k)) /\ BodyIsPrefix'
  <2>1. CASE body' = body /\ \A i \in 1 .. k : text[n + i] \notin BodyParts
    <3>1. \A i \in n + 1 .. n + k : text[i] \notin BodyParts
      <4> SUFFICES ASSUME NEW i \in n + 1 .. n + k PROVE text[i] \notin BodyParts
        OBVIOUS
      <4>1. i - n \in 1 .. k /\ n + (i - n) = i
        BY <1>2
      <4> QED
        BY <2>1, <4>1
    <3>2. BodyPlaces(text, n + k) = BodyPlaces(text, n)
      BY <1>2, <3>1, PlacesCount
    <3> QED
      BY <2>1, <3>2 DEF BodyIsPrefix
  <2>2. CASE body' = body \o Prefix(buffer, k) /\ \A i \in 1 .. k : text[n + i] \in BodyParts
    BY <1>1, <2>2, Appended
  <2> QED
    BY <2>1, <2>2
<1>4. At(n + k)'
  BY <1>1, <1>3 DEF At
<1> QED
  BY <1>1, <1>3, <1>4 DEF TextOK, WholeWhenParsed

(* The tokens at the front of the buffer.                                   *)
LEMMA Front ==
    ASSUME DataOK, NEW n \in 0 .. Len(text), Arrived(n)
    PROVE  /\ \A i \in 1 .. Len(buffer) : buffer[i] = text[n + i] /\ n + i <= Len(text)
           /\ \A x : x \in Elements(buffer) => Len(buffer) > 0
           /\ \A i \in 1 .. Len(text) : text[i] \in Elements(text)
<1>1. /\ Len(text) \in Nat /\ Len(buffer) \in Nat
      /\ DOMAIN buffer = 1 .. Len(buffer) /\ DOMAIN text = 1 .. Len(text)
  BY TextFacts, LenProperties DEF DataOK
<1>2. \A i \in 1 .. Len(buffer) : buffer[i] = text[n + i] /\ n + i <= Len(text)
  <2>1. n + Len(buffer) <= Len(text) /\ \A i \in 1 .. Len(buffer) : buffer[i] = text[n + i]
    BY DEF Arrived
  <2>2. \A i \in 1 .. Len(buffer) : n + i <= Len(text)
    BY <1>1, <2>1
  <2> QED
    BY <2>1, <2>2
<1>3. \A x : x \in Elements(buffer) => Len(buffer) > 0
  BY <1>1 DEF Elements
<1>4. \A i \in 1 .. Len(text) : text[i] \in Elements(text)
  BY <1>1 DEF Elements
<1> QED
  BY <1>2, <1>3, <1>4

(* The end of the headers is their second token.                            *)
LEMMA HeadersText ==
    ASSUME Inv, DataOK, DataOK', TextOK, Headers
    PROVE  TextOK'
<1> USE DEF Parsing, ReturnTrue, Again, line, done, clock
<1>1. /\ state = "HEADERS" /\ "end" \in Elements(buffer)
      /\ length' = response.length /\ buffer' = After(buffer, "end")
      /\ state' = (IF response.chunked THEN "CHUNK_LEN" ELSE "CONTENT")
      /\ UNCHANGED <<response, coming, chunk, body, outcome, cause>>
  BY DEF Headers
<1>2. Arrived(0) /\ Len(body) = Cardinality(BodyPlaces(text, 0)) /\ outcome = "none" /\ BodyIsPrefix
  BY <1>1 DEF TextOK, At, PlaceOK
<1>3. /\ WellFormed(response) /\ Len(text) \in Nat /\ Len(buffer) \in Nat
      /\ buffer \in Seq(Tokens)
  BY TextFacts DEF DataOK
<1>4. text[1] \in {"head", "junk"} /\ text[2] = "end" /\ Len(text) > 1
  BY <1>3 DEF WellFormed, text
<1>5. \A i \in 1 .. Len(buffer) : buffer[i] = text[0 + i]
  BY <1>2 DEF Arrived
<1>6. 2 \in 0 .. Len(buffer) /\ buffer' = Rest(buffer, 2)
  <2>1. PICK k \in 1 .. Len(buffer) : /\ After(buffer, "end") = Rest(buffer, k)
                                      /\ buffer[k] = "end"
                                      /\ \A j \in 1 .. k - 1 : buffer[j] # "end"
    BY <1>1, <1>3, AfterIsRest
  <2>2. k # 1
    BY <1>3, <1>4, <1>5, <2>1
  <2>3. ~ (k > 2)
    BY <1>3, <1>4, <1>5, <2>1
  <2>4. k = 2
    BY <1>3, <2>1, <2>2, <2>3
  <2> QED
    BY <1>1, <2>1, <2>4
<1>7. \A i \in 1 .. 2 : text[0 + i] \notin BodyParts
  <2>1. \A x \in Framing : x \notin BodyParts
    BY TextFacts
  <2>2. text[1] \in Framing /\ text[2] \in Framing
    BY <1>4 DEF Framing
  <2> QED
    BY <2>1, <2>2
<1>8. PlaceOK(2)'
  <2>1. response.chunked \in BOOLEAN
    BY TextFacts
  <2>2. /\ state' \in {"CHUNK_LEN", "CONTENT"} /\ length' = response'.length
        /\ state' = "CONTENT" <=> ~ response'.chunked
    BY <1>1, <2>1
  <2>3. /\ state' # "HEADERS" /\ state' # "CHUNK_CONTENT"
        /\ state' # "CHUNK_TRAILER" /\ state' # "CHUNK_LAST"
    BY <2>2
  <2> QED
    BY <2>2, <2>3 DEF PlaceOK
<1>9. 0 \in 0 .. Len(text) /\ 0 + 2 = 2
  BY <1>3
<1> QED
  BY <1>1, <1>2, <1>6, <1>7, <1>8, <1>9, GoesOn

(* A length and its end of line are three tokens, and what it announces     *)
(* comes next.                                                              *)
LEMMA ChunkLengthText ==
    ASSUME Inv, DataOK, DataOK', TextOK, ChunkLength
    PROVE  TextOK'
<1> USE DEF Parsing, ReturnTrue, Again, line, done, clock
<1>1. /\ state = "CHUNK_LEN" /\ UNCHANGED <<response, coming, length, body>>
  BY DEF ChunkLength
<1>2. PICK n \in 0 .. Len(text) : At(n)
  BY <1>1 DEF TextOK
<1>3. /\ Arrived(n) /\ Len(body) = Cardinality(BodyPlaces(text, n)) /\ outcome = "none"
      /\ BodyIsPrefix /\ length = response.length /\ n > 1 /\ response.chunked
      /\ \/ n = 2
         \/ n > 4 /\ text[n - 2] \in BodyParts /\ text[n - 1] = "cr" /\ text[n] = "lf"
  <2>1. response.chunked \in BOOLEAN
    BY TextFacts
  <2> QED
    BY <1>1, <1>2, <2>1 DEF TextOK, At, PlaceOK
<1>4. /\ WellFormed(response) /\ Len(text) \in Nat /\ Len(buffer) \in Nat
      /\ buffer \in Seq(Tokens)
  BY TextFacts DEF DataOK
<1>5. Chunks(text)
  BY <1>3, <1>4 DEF WellFormed, text
<1>6. \A i \in 1 .. Len(buffer) : buffer[i] = text[n + i] /\ n + i <= Len(text)
  BY <1>3, Front
<1>7. CASE ReturnTrue /\ UNCHANGED <<buffer, state, chunk>>
  BY <1>1, <1>7, SameText
<1>8. ASSUME "lf" \in Elements(buffer)
      PROVE  /\ 1 \in 1 .. Len(buffer) /\ n + 1 \in 3 .. Len(text)
             /\ buffer[1] = text[n + 1]
             /\ text[n + 1] \in DOMAIN Sizes \cup {"x"}
  <2>1. Len(buffer) > 0
    BY <1>3, <1>8, Front
  <2>2. 1 \in 1 .. Len(buffer) /\ n + 1 \in 3 .. Len(text) /\ buffer[1] = text[n + 1]
    BY <1>3, <1>4, <1>6, <2>1
  <2>3. CASE n = 2
    BY <1>5, <2>2, <2>3 DEF Chunks
  <2>4. CASE n > 4 /\ text[n - 2] \in BodyParts /\ text[n - 1] = "cr" /\ text[n] = "lf"
    <3>1. PICK i \in 3 .. Len(text) - 3 : n = i + 2
      <4>1. n - 2 \in 3 .. Len(text) - 3 /\ n = n - 2 + 2
        BY <1>4, <2>2, <2>4
      <4> QED
        BY <4>1
    <3>2. n - 2 = i /\ n - 1 = i + 1 /\ n + 1 = i + 3
      BY <3>1
    <3>3. text[i] \in BodyParts /\ text[i + 1] = "cr" /\ text[i + 2] = "lf"
      BY <2>4, <3>1, <3>2
    <3>4. text[i + 3] \in DOMAIN Sizes \cup {"x"}
      BY <1>5, <3>3 DEF Chunks
    <3> QED
      BY <2>2, <3>2, <3>4
  <2> QED
    BY <1>3, <2>2, <2>3, <2>4
<1>9. CASE /\ "lf" \in Elements(buffer) /\ buffer[1] \notin DOMAIN Sizes
           /\ Close("parser", timed_out, status)
  <2>1. "x" \in Elements(response.text)
    BY <1>3, <1>4, <1>8, <1>9, Front DEF text
  <2>2. BodyIsPrefix'
    BY <1>1, <1>3 DEF BodyIsPrefix
  <2>3. ToldOK /\ status \in BOOLEAN
    BY DEF Inv, DataOK
  <2> QED
    BY <1>1, <1>9, <2>1, <2>2, <2>3, Parsed
<1>10. CASE /\ "lf" \in Elements(buffer) /\ buffer[1] \in DOMAIN Sizes /\ Again
            /\ chunk' = Sizes[buffer[1]] /\ buffer' = LineEnd(buffer)
            /\ state' = IF Sizes[buffer[1]] = 0 THEN "CHUNK_LAST" ELSE "CHUNK_CONTENT"
  <2> DEFINE size == Sizes[text[n + 1]]
  <2>1. /\ n + 1 \in 3 .. Len(text) /\ buffer[1] = text[n + 1] /\ text[n + 1] \in DOMAIN Sizes
    BY <1>8, <1>10
  <2>2. /\ text[n + 1] \in {"0", "1", "2"} /\ size \in Nat
        /\ size = 0 <=> text[n + 1] = "0"
    BY <2>1 DEF Sizes
  <2>3. /\ Len(text) > n + 1 => text[n + 2] = "cr"
        /\ Len(text) > n + 2 => text[n + 3] = "lf"
    <3>1. /\ Len(text) > n + 1 => text[n + 1 + 1] = "cr"
          /\ Len(text) > n + 1 + 1 => text[n + 1 + 2] = "lf"
      BY <1>5, <2>1 DEF Chunks
    <3> QED
      BY <1>4, <3>1
  <2>4. 3 \in 0 .. Len(buffer) /\ buffer' = Rest(buffer, 3)
    <3>1. PICK k \in 1 .. Len(buffer) : /\ After(buffer, "lf") = Rest(buffer, k)
                                        /\ buffer[k] = "lf"
                                        /\ \A j \in 1 .. k - 1 : buffer[j] # "lf"
      BY <1>4, <1>10, AfterIsRest
    <3>2. k # 1
      BY <2>1, <2>2, <3>1
    <3>3. k # 2
      <4>1. CASE k = 2
        <5>1. n + 2 <= Len(text) /\ buffer[2] = text[n + 2]
          BY <1>6, <3>1, <4>1
        <5> QED
          BY <1>4, <2>3, <3>1, <4>1, <5>1
      <4> QED
        BY <4>1
    <3>4. ~ (k > 3)
      <4>1. CASE k > 3
        <5>1. 3 \in 1 .. Len(buffer) /\ 3 \in 1 .. k - 1
          BY <1>4, <3>1, <4>1
        <5>2. n + 3 <= Len(text) /\ buffer[3] = text[n + 3]
          BY <1>6, <5>1
        <5> QED
          BY <1>4, <2>3, <3>1, <5>1, <5>2
      <4> QED
        BY <4>1
    <3>5. k = 3
      BY <1>4, <3>1, <3>2, <3>3, <3>4
    <3> QED
      BY <1>4, <1>10, <3>1, <3>5 DEF LineEnd
  <2>5. n + 3 <= Len(text)
    BY <1>4, <1>6, <2>4
  <2>6. text[n + 2] = "cr" /\ text[n + 3] = "lf"
    BY <1>4, <2>3, <2>5
  <2>7. \A i \in 1 .. 3 : text[n + i] \notin BodyParts
    <3>1. \A x \in Framing : x \notin BodyParts
      BY TextFacts
    <3>2. /\ text[n + 1] \in Framing /\ text[n + 2] \in Framing
          /\ text[n + 3] \in Framing
      BY <2>2, <2>6 DEF Framing
    <3> QED
      BY <3>1, <3>2
  <2>8. PlaceOK(n + 3)'
    <3>1. text' = text /\ chunk' = size
      BY <1>1, <1>10, <2>1 DEF text
    <3>2. CASE size = 0
      <4>1. state' = "CHUNK_LAST" /\ text[n + 3 - 2] = "0"
        BY <1>4, <1>10, <2>1, <2>2, <3>2
      <4> QED
        BY <1>1, <1>3, <3>1, <4>1 DEF PlaceOK
    <3>3. CASE size # 0
      <4>1. state' = "CHUNK_CONTENT" /\ size \in 1 .. size
        BY <1>10, <2>1, <2>2, <3>3
      <4>2. n + 1 \in 3 .. n + 3 /\ n + 3 = n + 1 + 2 + size - size
        BY <1>3, <2>2
      <4>3. InChunk(n + 3)'
        BY <2>1, <3>1, <4>1, <4>2 DEF InChunk
      <4> QED
        BY <1>1, <1>3, <4>1, <4>3 DEF PlaceOK
    <3> QED
      BY <3>2, <3>3
  <2> QED
    BY <1>1, <1>3, <1>10, <2>4, <2>7, <2>8, GoesOn
<1> QED
  BY <1>7, <1>9, <1>10 DEF ChunkLength

(* Without a body, or without headers.                                      *)
LEMMA HeadersOnlyText ==
    ASSUME Inv, DataOK, TextOK, HeadersOnly
    PROVE  TextOK'
<1>1. PICK answered \in BOOLEAN :
          /\ Close("parser", timed_out, answered)
          /\ answered => response.length = 0
  BY Zenon DEF HeadersOnly
<1>2. state = "HEADERS" /\ UNCHANGED <<response, body>>
  BY DEF HeadersOnly, Parsing
<1>3. BodyIsPrefix' /\ Len(body) = Cardinality(BodyPlaces(text, 0))
  BY <1>2 DEF TextOK, At, PlaceOK, BodyIsPrefix
<1>4. WellFormed(response) /\ ULLONG_MAX # 0
  BY TextFacts, ClientAssumption
<1>5. Len(body) = 0
  <2>1. BodyPlaces(text, 0) = {}
    BY DEF BodyPlaces
  <2> QED
    BY <1>3, <2>1, FS_EmptySet
<1>6. answered => Len(body') = response.body
  BY <1>1, <1>2, <1>4, <1>5 DEF WellFormed
<1>7. ToldOK
  BY DEF Inv
<1> QED
  BY <1>1, <1>2, <1>3, <1>6, <1>7, Parsed

(* All that comes is body; it is over when it is as long as was announced.  *)
LEMMA ContentText ==
    ASSUME Inv, DataOK, DataOK', TextOK, Content
    PROVE  TextOK'
<1> USE DEF Parsing, ReturnTrue, Again, line, done, clock
<1>1. /\ state = "CONTENT" /\ UNCHANGED <<response, coming, length>>
      /\ body' = body \o buffer
  BY DEF Content
<1>2. PICK n \in 0 .. Len(text) : At(n)
  BY <1>1 DEF TextOK
<1>3. /\ Arrived(n) /\ Len(body) = Cardinality(BodyPlaces(text, n)) /\ outcome = "none"
      /\ BodyIsPrefix /\ length = response.length /\ n > 1 /\ ~ response.chunked
  BY <1>1, <1>2 DEF TextOK, At, PlaceOK
<1>4. /\ WellFormed(response) /\ Len(text) \in Nat /\ Len(buffer) \in Nat
      /\ buffer \in Seq(Tokens) /\ Len(body) \in Nat
      /\ response.body = Cardinality(BodyPlaces(text, Len(text)))
  BY TextFacts DEF DataOK
<1>5. \A i \in 1 .. Len(buffer) : buffer[i] = text[n + i] /\ n + i <= Len(text)
  BY <1>3, Front
<1>6. \A i \in 1 .. Len(buffer) : text[n + i] \in BodyParts
  <2>1. \A i \in 3 .. Len(text) : text[i] \in BodyParts
    BY <1>3, <1>4 DEF WellFormed, text
  <2>2. \A i \in 1 .. Len(buffer) : n + i \in 3 .. Len(text)
    BY <1>3, <1>4, <1>5
  <2> QED
    BY <2>1, <2>2
<1>7. Prefix(buffer, Len(buffer)) = buffer /\ Rest(buffer, Len(buffer)) = << >>
  BY <1>4, SubSeqFull, SubSeqEmpty DEF Prefix, Rest
<1>8. CASE /\ length = ULLONG_MAX \/ Len(body') >= length
           /\ Close("parser", timed_out, status)
  <2>1. Len(body') = Len(body) + Len(buffer)
    BY <1>1, <1>4, ConcatProperties DEF DataOK
  <2>2. Len(buffer) \in 0 .. Len(buffer) /\ n + Len(buffer) \in 0 .. Len(text)
    BY <1>3, <1>4 DEF Arrived
  <2>3. body' = body \o Prefix(buffer, Len(buffer))
    BY <1>1, <1>7
  <2>4. BodyIsPrefix'
    BY <1>1, <1>3, <1>6, <2>2, <2>3, Appended
  <2>5. response.length # ULLONG_MAX => Len(body') = response.body
    <3>1. response.length # ULLONG_MAX => response.length = response.body
      BY <1>4 DEF WellFormed
    <3>2. length # ULLONG_MAX => Len(body') >= length
      BY <1>8
    <3>3. Len(body') \in Nat /\ response.body \in Nat
      BY <1>1, <1>4, <2>1, PlacesCount
    <3>4. Len(body') <= response.body
      BY <1>1, <2>4 DEF BodyIsPrefix
    <3> QED
      BY <1>3, <3>1, <3>2, <3>3, <3>4
  <2>6. ToldOK /\ status \in BOOLEAN
    BY DEF Inv, DataOK
  <2> QED
    BY <1>1, <1>3, <1>8, <2>4, <2>5, <2>6, Parsed
<1>9. CASE buffer' = << >> /\ ReturnTrue /\ UNCHANGED state
  <2>1. PICK k : k = Len(buffer)
    OBVIOUS
  <2>2. PlaceOK(n + k)'
    <3>1. n + k > 1
      BY <1>3, <1>4, <2>1
    <3> QED
      BY <1>1, <1>3, <1>9, <3>1 DEF PlaceOK
  <2>3. k \in 0 .. Len(buffer) /\ UNCHANGED <<outcome, cause>>
    BY <1>4, <1>9, <2>1
  <2>4. body' = body \o Prefix(buffer, k) /\ buffer' = Rest(buffer, k)
    BY <1>1, <1>7, <1>9, <2>1
  <2> QED
    BY <1>1, <1>3, <1>6, <2>1, <2>2, <2>3, <2>4, GoesOn
<1> QED
  BY <1>1, <1>8, <1>9 DEF Content

(* No more than is missing of a chunk is taken, and that is body.           *)
LEMMA ChunkContentText ==
    ASSUME Inv, DataOK, DataOK', TextOK, ChunkContent
    PROVE  TextOK'
<1> USE DEF Parsing, ReturnTrue, Again, line, done, clock
<1>0. PICK taken : taken = Lesser(Len(buffer), chunk)
  OBVIOUS
<1>1. /\ state = "CHUNK_CONTENT"
      /\ UNCHANGED <<response, coming, length, outcome, cause>>
      /\ body' = body \o Prefix(buffer, taken) /\ chunk' = chunk - taken
      /\ buffer' = Rest(buffer, taken)
      /\ state' = (IF chunk' = 0 THEN "CHUNK_TRAILER" ELSE "CHUNK_CONTENT")
  BY <1>0 DEF ChunkContent
<1>2. PICK n \in 0 .. Len(text) : At(n)
  BY <1>1 DEF TextOK
<1>3. /\ Arrived(n) /\ Len(body) = Cardinality(BodyPlaces(text, n)) /\ outcome = "none"
      /\ BodyIsPrefix /\ length = response.length /\ n > 1 /\ response.chunked
      /\ InChunk(n)
  <2>1. response.chunked \in BOOLEAN
    BY TextFacts
  <2> QED
    BY <1>1, <1>2, <2>1 DEF TextOK, At, PlaceOK
<1>4. /\ WellFormed(response) /\ Len(text) \in Nat /\ Len(buffer) \in Nat
      /\ buffer \in Seq(Tokens) /\ chunk \in Nat
  BY TextFacts DEF DataOK
<1>5. Chunks(text)
  BY <1>3, <1>4 DEF WellFormed, text
<1>6. \A i \in 1 .. Len(buffer) : buffer[i] = text[n + i] /\ n + i <= Len(text)
  BY <1>3, Front
<1>7. taken \in 0 .. Len(buffer) /\ taken <= chunk
  BY <1>0, <1>4 DEF Lesser
<1>8. PICK p \in 3 .. n : /\ text[p] \in DOMAIN Sizes /\ chunk \in 1 .. Sizes[text[p]]
                          /\ n = p + 2 + Sizes[text[p]] - chunk
  BY <1>3 DEF InChunk
<1>9. PICK size \in Nat : size = Sizes[text[p]]
  BY <1>8 DEF Sizes
<1>10. /\ n \in Nat /\ p \in Nat /\ p <= n /\ chunk \in 1 .. size
       /\ n = p + 2 + size - chunk /\ taken \in Nat /\ taken <= chunk
  <2>1. chunk \in 1 .. size /\ n = p + 2 + size - chunk
    BY <1>8, <1>9
  <2>2. n \in Nat /\ p \in Nat /\ p <= n
    BY <1>2, <1>4, <1>8
  <2> QED
    BY <1>7, <2>1, <2>2
<1>11. \A i \in 1 .. taken : text[n + i] \in BodyParts
  <2>1. \A j \in p + 3 .. p + 2 + size : Len(text) >= j => text[j] \in BodyParts
    <3>1. \A i \in 3 .. Len(text) : text[i] \in DOMAIN Sizes =>
             \A j \in i + 3 .. i + 2 + Sizes[text[i]] : Len(text) >= j => text[j] \in BodyParts
      BY <1>5 DEF Chunks
    <3>2. p \in 3 .. Len(text)
      BY <1>2, <1>4, <1>8
    <3> QED
      BY <1>8, <1>9, <3>1, <3>2
  <2>2. ASSUME NEW i \in 1 .. taken
        PROVE  n + i \in p + 3 .. p + 2 + size /\ Len(text) >= n + i
    <3>1. i \in 1 .. Len(buffer) /\ i <= chunk
      BY <1>4, <1>7
    <3>2. n + i <= Len(text)
      BY <1>6, <3>1
    <3>3. n + i \in p + 3 .. p + 2 + size
      BY <1>10, <3>1
    <3> QED
      BY <1>4, <3>2, <3>3
  <2> QED
    BY <2>1, <2>2
<1>12. PlaceOK(n + taken)'
  <2>1. /\ text' = text /\ length' = response'.length /\ response'.chunked
        /\ chunk' = chunk - taken /\ n + taken > 1
        /\ state' = IF chunk' = 0 THEN "CHUNK_TRAILER" ELSE "CHUNK_CONTENT"
    BY <1>1, <1>3, <1>7 DEF text
  <2>2. CASE chunk' = 0
    <3>1. taken \in 1 .. taken /\ state' = "CHUNK_TRAILER"
      BY <1>10, <2>1, <2>2
    <3>2. text[n + taken] \in BodyParts /\ n + taken > 2
      BY <1>3, <1>11, <3>1
    <3> QED
      BY <2>1, <3>1, <3>2 DEF PlaceOK
  <2>3. CASE chunk' # 0
    <3>1. chunk' \in 1 .. size
      BY <1>10, <2>1, <2>3
    <3>2. p \in 3 .. n + taken
      BY <1>8, <1>10
    <3>3. n + taken = p + 2 + size - chunk'
      <4>1. n + taken = p + 2 + size - (chunk - taken)
        BY <1>10
      <4> QED
        BY <2>1, <4>1
    <3>4. InChunk(n + taken)'
      BY <1>8, <1>9, <2>1, <3>1, <3>2, <3>3 DEF InChunk
    <3> QED
      BY <2>1, <2>3, <3>4 DEF PlaceOK
  <2> QED
    BY <2>2, <2>3
<1> QED
  BY <1>1, <1>3, <1>7, <1>11, <1>12, GoesOn

(* The end of a chunk is two tokens; after the last one no body comes.      *)
LEMMA ChunkEndText ==
    ASSUME Inv, DataOK, DataOK', TextOK,
           NEW s \in {"CHUNK_TRAILER", "CHUNK_LAST"}, ChunkEnd(s)
    PROVE  TextOK'
<1> USE DEF Parsing, ReturnTrue, Again, line, done, clock
<1>1. state = s /\ UNCHANGED <<response, coming, length, chunk, body>>
  BY DEF ChunkEnd
<1>2. PICK n \in 0 .. Len(text) : At(n)
  BY <1>1 DEF TextOK
<1>3. /\ Arrived(n) /\ Len(body) = Cardinality(BodyPlaces(text, n)) /\ outcome = "none"
      /\ BodyIsPrefix /\ length = response.length /\ n > 1 /\ response.chunked
      /\ s = "CHUNK_TRAILER" => n > 2 /\ text[n] \in BodyParts
      /\ s = "CHUNK_LAST" => n > 4 /\ text[n - 2] = "0"
  <2>1. response.chunked \in BOOLEAN
    BY TextFacts
  <2> QED
    BY <1>1, <1>2, <2>1 DEF TextOK, At, PlaceOK
<1>4. /\ WellFormed(response) /\ Len(text) \in Nat /\ Len(buffer) \in Nat
      /\ buffer \in Seq(Tokens) /\ response.body = Cardinality(BodyPlaces(text, Len(text)))
  BY TextFacts DEF DataOK
<1>5. \A i \in 1 .. Len(buffer) : buffer[i] = text[n + i] /\ n + i <= Len(text)
  BY <1>3, Front
<1>6. CASE ReturnTrue /\ UNCHANGED <<buffer, state>>
  BY <1>1, <1>6, SameText
<1>7. CASE s = "CHUNK_LAST" /\ Close("parser", timed_out, status)
  <2>1. PICK p \in 3 .. Len(text) : n = p + 2
    <3>1. n - 2 \in 3 .. Len(text) /\ n = n - 2 + 2
      BY <1>3, <1>4, <1>7
    <3> QED
      BY <3>1
  <2>2. n - 2 = p
    BY <2>1
  <2>3. text[p] = "0" /\ text[p] \in DOMAIN Sizes
    BY <1>3, <1>7, <2>2 DEF Sizes
  <2>4. Chunks(text)
    BY <1>3, <1>4 DEF WellFormed, text
  <2>5. \A j \in p .. Len(text) : text[j] \notin BodyParts
    BY <2>3, <2>4 DEF Chunks
  <2>6. \A j \in n + 1 .. Len(text) : text[j] \notin BodyParts
    BY <1>4, <2>1, <2>5
  <2>7. BodyPlaces(text, Len(text)) = BodyPlaces(text, n)
    BY <1>2, <1>4, <2>6, PlacesCount
  <2>8. Len(body') = response.body
    BY <1>1, <1>3, <1>4, <2>7
  <2>9. BodyIsPrefix' /\ ToldOK /\ status \in BOOLEAN
    BY <1>1, <1>3 DEF BodyIsPrefix, Inv, DataOK
  <2> QED
    BY <1>1, <1>7, <2>8, <2>9, Parsed
<1>8. CASE /\ s = "CHUNK_TRAILER" /\ ~ (Len(buffer) < 2) /\ Prefix(buffer, 2) = <<"cr", "lf">>
           /\ buffer' = Rest(buffer, 2) /\ state' = "CHUNK_LEN" /\ Again
  <2>1. 2 \in 0 .. Len(buffer) /\ 1 \in 1 .. Len(buffer) /\ 2 \in 1 .. Len(buffer)
    BY <1>4, <1>8
  <2>2. text[n + 1] = "cr" /\ text[n + 2] = "lf"
    <3>1. \A i \in 1 .. 2 : Prefix(buffer, 2)[i] = buffer[i]
      BY <1>4, <2>1, Cut
    <3>2. buffer[1] = "cr" /\ buffer[2] = "lf"
      BY <1>8, <3>1
    <3> QED
      BY <1>5, <2>1, <3>2
  <2>3. \A i \in 1 .. 2 : text[n + i] \notin BodyParts
    <3>1. \A x \in Framing : x \notin BodyParts
      BY TextFacts
    <3>2. text[n + 1] \in Framing /\ text[n + 2] \in Framing
      BY <2>2 DEF Framing
    <3> QED
      BY <3>1, <3>2
  <2>4. PlaceOK(n + 2)'
    <3>1. /\ text' = text /\ length' = response'.length /\ response'.chunked
          /\ state' = "CHUNK_LEN"
      BY <1>1, <1>3, <1>8 DEF text
    <3>2. n + 2 > 4 /\ n + 2 - 2 = n /\ n + 2 - 1 = n + 1
      BY <1>3, <1>8
    <3>3. text[n + 2 - 2] \in BodyParts /\ text[n + 2 - 1] = "cr"
      BY <1>3, <1>8, <2>2, <3>2
    <3> QED
      BY <2>2, <3>1, <3>2, <3>3 DEF PlaceOK
  <2> QED
    BY <1>1, <1>3, <1>8, <2>1, <2>3, <2>4, GoesOn
<1> QED
  BY <1>1, <1>6, <1>7, <1>8 DEF ChunkEnd

LEMMA TextInit == Init => TextOK
<1> SUFFICES ASSUME Init PROVE TextOK
  OBVIOUS
<1>1. DataOK
  BY DataInit
<1>2. Len(text) \in Nat /\ response.body \in Nat
  BY <1>1, TextFacts, PlacesCount
<1>3. /\ buffer = << >> /\ body = << >> /\ coming = text /\ state = "HEADERS"
      /\ outcome = "none"
  BY DEF Init, text
<1>4. Len(body) = 0 /\ Len(buffer) = 0 /\ Elements(body) = {}
  BY <1>3, EmptySeq DEF Elements
<1>5. Arrived(0) /\ PlaceOK(0)
  BY <1>2, <1>3, <1>4 DEF Arrived, PlaceOK
<1>6. Cardinality(BodyPlaces(text, 0)) = 0
  <2>1. BodyPlaces(text, 0) = {}
    BY DEF BodyPlaces
  <2> QED
    BY <2>1, FS_EmptySet
<1>7. BodyIsPrefix /\ WholeWhenParsed
  BY <1>2, <1>3, <1>4 DEF BodyIsPrefix, WholeWhenParsed
<1> QED
  BY <1>2, <1>3, <1>4, <1>5, <1>6, <1>7 DEF TextOK, At

LEMMA TextStep ==
    ASSUME Inv, DataOK, DataOK', TextOK, [Next]_vars
    PROVE  TextOK'
<1> USE DEF line, parser, clock, done
<1>1. CASE Connected \/ HandshakeDone
  BY <1>1, SameText DEF Connected, HandshakeDone
<1>2. CASE Receive
  <2>1. PICK m \in 1 .. Len(coming) : /\ buffer' = buffer \o Prefix(coming, m)
                                      /\ coming' = Rest(coming, m)
    BY <1>2 DEF Receive
  <2>2. /\ socket /\ UNCHANGED <<response, state, length, chunk, body, outcome, cause>>
    BY <1>2 DEF Receive, Idle
  <2>3. state # "DONE"
    BY <2>2 DEF Inv, ToldOK
  <2>4. PICK n \in 0 .. Len(text) : At(n)
    BY <2>3 DEF TextOK
  <2>5. /\ Len(buffer) \in Nat /\ Len(coming) \in Nat /\ Len(text) \in Nat
        /\ buffer \in Seq(Tokens) /\ coming \in Seq(Tokens)
    BY TextFacts DEF DataOK
  <2>6. /\ m \in 0 .. Len(coming) /\ coming # << >>
        /\ Prefix(coming, m) \in Seq(Tokens) /\ Len(Prefix(coming, m)) = m
        /\ \A i \in 1 .. m : Prefix(coming, m)[i] = coming[i]
        /\ Len(coming') = Len(coming) - m
        /\ \A i \in 1 .. Len(coming) - m : coming'[i] = coming[m + i]
    <3>1. m \in 0 .. Len(coming) /\ Len(coming) # 0
      BY <2>5
    <3>2. coming # << >>
      BY <3>1, EmptySeq
    <3> QED
      BY <2>1, <2>5, <3>1, <3>2, Cut
  <2>7. /\ Len(buffer') = Len(buffer) + m
        /\ \A i \in 1 .. Len(buffer) + m :
              buffer'[i] = IF i <= Len(buffer) THEN buffer[i]
                           ELSE Prefix(coming, m)[i - Len(buffer)]
    <3>1. LET p == Prefix(coming, m)
          IN  /\ Len(buffer \o p) = Len(buffer) + Len(p)
              /\ \A i \in 1 .. Len(buffer) + Len(p) :
                    (buffer \o p)[i] = IF i <= Len(buffer) THEN buffer[i]
                                       ELSE p[i - Len(buffer)]
      BY <2>5, <2>6, ConcatProperties, Zenon
    <3> QED
      BY <2>1, <2>6, <3>1
  <2>8. /\ Len(coming) = Len(text) - n - Len(buffer) /\ n + Len(buffer) <= Len(text)
        /\ \A i \in 1 .. Len(coming) : coming[i] = text[n + Len(buffer) + i]
        /\ \A i \in 1 .. Len(buffer) : buffer[i] = text[n + i]
    BY <2>4, <2>6 DEF At, Arrived
  <2>9. ASSUME NEW i \in 1 .. Len(buffer') PROVE buffer'[i] = text[n + i]
    <3>1. CASE i <= Len(buffer)
      BY <2>5, <2>6, <2>7, <2>8, <3>1
    <3>2. CASE i > Len(buffer)
      <4>1. PICK j \in 1 .. m : i = Len(buffer) + j
        <5>1. i - Len(buffer) \in 1 .. m /\ i = Len(buffer) + (i - Len(buffer))
          BY <2>5, <2>7, <3>2
        <5> QED
          BY <5>1
      <4>2. i - Len(buffer) = j /\ n + i = n + Len(buffer) + j /\ j \in 1 .. Len(coming)
        <5>1. m <= Len(coming)
          BY <2>5
        <5> QED
          BY <2>5, <4>1, <5>1
      <4>3. buffer'[i] = coming[j]
        <5>1. i \in 1 .. Len(buffer) + m /\ ~ (i <= Len(buffer))
          BY <2>5, <2>7, <3>2
        <5>2. buffer'[i] = Prefix(coming, m)[i - Len(buffer)]
          BY <2>7, <5>1
        <5> QED
          BY <2>6, <4>1, <4>2, <5>2
      <4> QED
        BY <2>8, <4>2, <4>3
    <3> QED
      BY <2>5, <3>1, <3>2
  <2>10. ASSUME NEW i \in 1 .. Len(coming')
         PROVE  coming'[i] = text[n + Len(buffer') + i]
    <3>1. m + i \in 1 .. Len(coming) /\ n + Len(buffer') + i = n + Len(buffer) + (m + i)
      BY <2>4, <2>5, <2>6, <2>7
    <3> QED
      BY <2>5, <2>6, <2>8, <3>1
  <2>11. /\ n + Len(buffer') <= Len(text)
         /\ Len(coming') = Len(text) - n - Len(buffer')
    BY <2>4, <2>5, <2>6, <2>7, <2>8
  <2>12. text' = text
    BY <2>2 DEF text
  <2>13. Arrived(n)'
    BY <2>9, <2>10, <2>11, <2>12 DEF Arrived
  <2>14. PlaceOK(n)' /\ Len(body') = Cardinality(BodyPlaces(text', n))
    BY <2>2, <2>4, <2>12 DEF At, PlaceOK, InChunk
  <2>15. At(n)'
    BY <2>13, <2>14 DEF At
  <2>16. BodyIsPrefix' /\ WholeWhenParsed' /\ outcome' = "none"
    BY <2>2, <2>3 DEF TextOK, BodyIsPrefix, WholeWhenParsed
  <2> QED
    BY <2>4, <2>12, <2>15, <2>16 DEF TextOK
<1>3. CASE Silence
  BY <1>3 DEF Silence, TextOK, At, Arrived, PlaceOK, InChunk, text, BodyIsPrefix,
              WholeWhenParsed
<1>4. CASE Break
  BY <1>4, BrokenOff DEF Break
<1>5. CASE Parse
  <2>1. CASE HeadersMissing
    BY <2>1, SameText DEF HeadersMissing, Parsing, ReturnTrue
  <2> QED
    BY <1>5, <2>1, HeadersOnlyText, HeadersText, ContentText, ChunkLengthText,
       ChunkContentText, ChunkEndText DEF Parse
<1>6. CASE Second
  <2>1. UNCHANGED <<response, coming>>
    BY <1>6 DEF Second
  <2>2. CASE now + 1 >= timeout
    <3>1. Expired /\ UNCHANGED body
      BY <1>6, <2>2, Zenon DEF Second
    <3>2. PICK late : Close("time", late, status)
      BY <3>1, Zenon DEF Expired
    <3> QED
      BY <2>1, <3>1, <3>2, BrokenOff
  <2>3. CASE ~ (now + 1 >= timeout)
    <3>1. UNCHANGED <<parser, done>>
      BY <1>6, <2>3 DEF Second, Retry
    <3> QED
      BY <2>1, <3>1, SameText
  <2> QED
    BY <2>2, <2>3
<1>7. CASE UNCHANGED vars
  BY <1>7, SameText DEF vars
<1> QED
  BY <1>1, <1>2, <1>3, <1>4, <1>5, <1>6, <1>7 DEF Next

THEOREM TextHolds == Spec => [](Inv /\ DataOK /\ TextOK)
<1>1. Init => Inv /\ DataOK /\ TextOK
  BY InvInit, DataInit, TextInit
<1>2. Inv /\ DataOK /\ TextOK /\ [Next]_vars => (Inv /\ DataOK /\ TextOK)'
  BY InvStep, DataStep, TextStep
<1> QED
  BY <1>1, <1>2, PTL DEF Spec

(* The body is a prefix of the one that was sent, part by part and in its   *)
(* order, whatever pieces the response arrives in (httpsclient.cpp:240-307).*)
THEOREM NothingButBody == Spec => []BodyIsPrefix
<1>1. TextOK => BodyIsPrefix
  BY DEF TextOK
<1> QED
  BY <1>1, TextHolds, PTL

(* A response the parser completes as a success is there as a whole, if its *)
(* end can be told from it (httpsclient.cpp:240-307).                       *)
THEOREM SuccessIsWhole == Spec => []WholeWhenParsed
<1>1. TextOK => WholeWhenParsed
  BY DEF TextOK
<1> QED
  BY <1>1, TextHolds, PTL
=============================================================================
