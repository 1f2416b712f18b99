----------------------------- MODULE HttpsClient -----------------------------
(***************************************************************************)
(* One HTTP request on the event loop (dpp/httpsclient.cpp on top of        *)
(* sslconnection.cpp): the connection with its retries, the parser, which   *)
(* sees the response in pieces of any size, and the timeout.  However it    *)
(* ends, the completion handler is what a request of RequestQueue, and with *)
(* it the coroutine behind it, is waiting for.                              *)
(*                                                                          *)
(* A response is a sequence of tokens: a status line with headers "head",   *)
(* or "junk", the empty line "end", the parts of the body, no two of them   *)
(* the same, chunk lengths "0", "1" and "2", and "cr" and "lf".             *)
(***************************************************************************)
EXTENDS Naturals, Sequences, FiniteSets

CONSTANTS
    Parts,           \* the parts of a body, in the order in which a server sends them
    Responses,       \* records: the text of a response, and what its headers say
    ULLONG_MAX,      \* the length of a response without a Content-Length
    RequestTimeout   \* the timeout a client is given, in seconds

Elements(s) == {s[i] : i \in DOMAIN s}

Framing    == {"head", "junk", "end", "0", "1", "2", "x", "cr", "lf"}
BodyParts  == Elements(Parts)
Tokens     == Framing \cup BodyParts
MaxRetries == 4
BodyTime   == 10                \* seconds added when the headers are there

Sizes == [t \in {"0", "1", "2"} |-> IF t = "0" THEN 0 ELSE IF t = "1" THEN 1 ELSE 2]

(* A body in chunks: a length announces as much as follows it, "0" ends the *)
(* body, and after a whole chunk there is another length, or an "x".  More  *)
(* than was announced may follow a length.                                  *)
Chunks(t) ==
    /\ Len(t) > 2 => t[3] \in DOMAIN Sizes \cup {"x"}
    /\ \A i \in 3 .. Len(t) : t[i] \in DOMAIN Sizes =>
          /\ Len(t) > i => t[i + 1] = "cr"
          /\ Len(t) > i + 1 => t[i + 2] = "lf"
          /\ \A j \in i + 3 .. i + 2 + Sizes[t[i]] : Len(t) >= j => t[j] \in BodyParts
          /\ t[i] = "0" => \A j \in i .. Len(t) : t[j] \notin BodyParts
    /\ \A i \in 3 .. Len(t) - 3 :
          t[i] \in BodyParts /\ t[i + 1] = "cr" /\ t[i + 2] = "lf"
              => t[i + 3] \in DOMAIN Sizes \cup {"x"}

(* The places among the first n of a text that hold a part of the body.     *)
BodyPlaces(t, n) == {i \in 1 .. n : t[i] \in BodyParts}

(* Headers, and the body they announce; its parts come in their order.      *)
WellFormed(r) ==
    /\ Len(r.text) > 1 /\ r.text[1] \in {"head", "junk"} /\ r.text[2] = "end"
    /\ IF r.chunked THEN Chunks(r.text) ELSE \A i \in 3 .. Len(r.text) : r.text[i] \in BodyParts
    /\ \A i \in BodyPlaces(r.text, Len(r.text)) :
          r.text[i] = Parts[Cardinality(BodyPlaces(r.text, i))]
    /\ r.body = Cardinality(BodyPlaces(r.text, Len(r.text)))
    /\ r.length # ULLONG_MAX => r.length = r.body

ASSUME ClientAssumption ==
    /\ RequestTimeout \in Nat
    /\ ULLONG_MAX \in Nat \ {0}
    /\ BodyParts \cap Framing = {}
    /\ \A i, j \in DOMAIN Parts : i # j => Parts[i] # Parts[j]
    /\ \A r \in Responses : r.text \in Seq(Tokens) /\ r.length \in Nat
                            /\ r.chunked \in BOOLEAN

(* What is said of the body is said of responses whose headers tell what    *)
(* follows them; the server may still fall silent anywhere.                 *)
ASSUME ResponseAssumption == \A r \in Responses : WellFormed(r)

VARIABLES
    response,   \* what the server is going to answer
    coming,     \* the part of it that has not arrived yet
    conn,       \* connecting, shaking hands, up, or closed
    socket,     \* sfd is a socket
    buffer,     \* received and not parsed
    state,      \* the parser's state
    parsing,    \* handle_buffer is in its loop
    status,     \* whether a status was parsed
    length,     \* content_length
    chunk,      \* what is missing of the current chunk
    body,       \* body received so far
    now, start, retries, timeout,
    timed_out,
    completed,  \* the completion handler is still set
    calls,      \* how often it was called
    \* history
    outcome,    \* what the handler made of it: nothing yet, success, or error
    cause,      \* what ended the request: its parser, its connection, or time
    connects    \* how often the server got this request

line   == <<conn, socket>>
parser == <<buffer, state, parsing, status, length, chunk, body>>
clock  == <<now, start, retries>>
done   == <<completed, calls, outcome, cause>>
vars   == <<response, coming, line, parser, clock, timeout, timed_out, done, connects>>

States == {"HEADERS", "CONTENT", "CHUNK_LEN", "CHUNK_CONTENT", "CHUNK_TRAILER",
           "CHUNK_LAST", "DONE"}

(* The part of s after its first token x.                                   *)
After(s, x) ==
    LET k == CHOOSE i \in DOMAIN s : s[i] = x /\ \A j \in 1 .. i - 1 : s[j] # x
    IN  SubSeq(s, k + 1, Len(s))

(* Bug: a piece is not cut at the end of the chunk.                         *)
BugLesser(a, b) == a

Lesser(a, b) == IF a < b THEN a ELSE b

Prefix(s, n) == SubSeq(s, 1, n)
Rest(s, n)   == SubSeq(s, n + 1, Len(s))

Init ==
    /\ response \in Responses
    /\ coming  = response.text
    /\ conn    = "connecting"
    /\ socket  = TRUE
    /\ buffer  = << >>
    /\ state   = "HEADERS"
    /\ parsing = FALSE
    /\ status  = FALSE
    /\ length  = 0
    /\ chunk   = 0
    /\ body    = << >>
    /\ now = 0 /\ start = 0 /\ retries = 0
    /\ timeout   = RequestTimeout
    /\ timed_out = FALSE
    /\ completed = TRUE
    /\ calls   = 0
    /\ outcome = "none"
    /\ cause   = "none"
    /\ connects = 0

-----------------------------------------------------------------------------
(* The end of a request.                                                    *)

(* completed(this); completed = {}.  The handler takes a request for failed *)
(* when timed_out is set or no status was parsed.                           *)
Complete(why, late, answered) ==
    IF completed
    THEN /\ completed' = FALSE
         /\ calls' = calls + 1
         /\ outcome' = IF late \/ ~ answered THEN "error" ELSE "success"
         /\ cause' = why
    ELSE UNCHANGED done

(* Bug: the connection is closed and nobody is told.                        *)
BugClose(why, late, answered) ==
    /\ UNCHANGED done
    /\ state' = "DONE" /\ conn' = "closed" /\ socket' = FALSE
    /\ buffer' = << >> /\ parsing' = FALSE

(* https_client::close: whoever has not been told is told now.              *)
Close(why, late, answered) ==
    /\ IF state # "DONE" THEN Complete(why, late, answered) ELSE UNCHANGED done
    /\ state' = "DONE"
    /\ conn'  = "closed"
    /\ socket' = FALSE
    /\ buffer' = << >>
    /\ parsing' = FALSE

-----------------------------------------------------------------------------
(* The connection.                                                          *)
Idle == ~ parsing /\ socket

(* The first writable event: connect() has finished.                        *)
Connected ==
    /\ Idle /\ conn = "connecting"
    /\ conn' = "handshake"
    /\ UNCHANGED <<response, coming, socket, parser, clock, timeout, timed_out, done,
                   connects>>

(* The TLS session stands, and the request is written.                      *)
HandshakeDone ==
    /\ Idle /\ conn = "handshake"
    /\ conn' = "up"
    /\ connects' = connects + 1
    /\ UNCHANGED <<response, coming, socket, parser, clock, timeout, timed_out, done>>

(* A part of the response is read; handle_buffer starts.                    *)
Receive ==
    /\ Idle /\ conn = "up"
    /\ \E n \in 1 .. Len(coming) :
          /\ buffer' = buffer \o Prefix(coming, n)
          /\ coming' = Rest(coming, n)
    /\ parsing' = TRUE
    /\ UNCHANGED <<response, line, state, status, length, chunk, body, clock, timeout,
                   timed_out, done, connects>>

(* The server sends no more; whether it closes the connection or only says  *)
(* so within TLS, which leaves the connection open, is another matter.      *)
Silence ==
    /\ coming # << >>
    /\ coming' = << >>
    /\ UNCHANGED <<response, line, parser, clock, timeout, timed_out, done, connects>>

(* An error on the socket, or an exception of a handler: on_error.          *)
Break ==
    /\ Idle
    /\ Close("connection", timed_out, status)
    /\ UNCHANGED <<response, coming, status, length, chunk, body, clock, timeout,
                   timed_out, connects>>

-----------------------------------------------------------------------------
(* handle_buffer: an iteration of its loop is a step.  While parsing is     *)
(* set the event loop does nothing else.                                    *)

(* Leave the loop and wait for more, or close.                              *)
ReturnTrue == parsing' = FALSE /\ UNCHANGED <<line, done>>
Again      == UNCHANGED <<parsing, line, done>>

Parsing(s) ==
    /\ parsing /\ state = s
    /\ UNCHANGED <<response, coming, clock, timed_out, connects>>

(* Bug: the time for the body starts anew with every piece of it.           *)
BugHeadersMissing ==
    /\ Parsing("HEADERS")
    /\ "end" \notin Elements(buffer)
    /\ timeout' = timeout + BodyTime
    /\ ReturnTrue
    /\ UNCHANGED <<buffer, state, status, length, chunk, body>>

HeadersMissing ==
    /\ Parsing("HEADERS")
    /\ "end" \notin Elements(buffer)
    /\ ReturnTrue
    /\ UNCHANGED <<buffer, state, status, length, chunk, body, timeout>>

(* Headers that are not HTTP, or a response without a body: close.          *)
HeadersOnly ==
    /\ Parsing("HEADERS")
    /\ "end" \in Elements(buffer)
    /\ buffer[1] # "head" \/ response.length = 0
    /\ timeout' = timeout + BodyTime
    /\ status' = (buffer[1] = "head")
    /\ Close("parser", timed_out, buffer[1] = "head")
    /\ UNCHANGED <<length, chunk, body>>

Headers ==
    /\ Parsing("HEADERS")
    /\ "end" \in Elements(buffer)
    /\ buffer[1] = "head" /\ response.length # 0
    /\ timeout' = timeout + BodyTime
    /\ status'  = TRUE
    /\ length'  = response.length
    /\ buffer'  = After(buffer, "end")
    /\ state'   = IF response.chunked THEN "CHUNK_LEN" ELSE "CONTENT"
    /\ IF response.chunked /\ buffer' = << >> THEN ReturnTrue ELSE Again
    /\ UNCHANGED <<chunk, body>>

(* Bug: a piece replaces the one before it.                                 *)
BugContentPiece ==
    /\ Parsing("CONTENT")
    /\ body' = buffer
    /\ IF length = ULLONG_MAX \/ Len(body') >= length
       THEN Close("parser", timed_out, status)
       ELSE buffer' = << >> /\ ReturnTrue /\ UNCHANGED state
    /\ UNCHANGED <<status, length, chunk, timeout>>

(* Bug: the length announced is not waited for.                             *)
BugContent ==
    /\ Parsing("CONTENT")
    /\ body' = body \o buffer
    /\ Close("parser", timed_out, status)
    /\ UNCHANGED <<status, length, chunk, timeout>>

(* Without a Content-Length the first piece is taken for the whole body.    *)
Content ==
    /\ Parsing("CONTENT")
    /\ body' = body \o buffer
    /\ IF length = ULLONG_MAX \/ Len(body') >= length
       THEN Close("parser", timed_out, status)
       ELSE buffer' = << >> /\ ReturnTrue /\ UNCHANGED state
    /\ UNCHANGED <<status, length, chunk, timeout>>

(* What follows the first end of line, and whether there is one.            *)
LineEnd(s) == IF "lf" \in Elements(s) THEN After(s, "lf") ELSE << >>

ChunkLength ==
    /\ Parsing("CHUNK_LEN")
    /\ IF "lf" \notin Elements(buffer)
       THEN ReturnTrue /\ UNCHANGED <<buffer, state, chunk>>
       ELSE IF buffer[1] \notin DOMAIN Sizes
       THEN Close("parser", timed_out, status) /\ UNCHANGED chunk
       ELSE /\ chunk'  = Sizes[buffer[1]]
            /\ buffer' = LineEnd(buffer)
            /\ state'  = IF Sizes[buffer[1]] = 0 THEN "CHUNK_LAST" ELSE "CHUNK_CONTENT"
            /\ Again
    /\ UNCHANGED <<status, length, body, timeout>>

ChunkContent ==
    /\ Parsing("CHUNK_CONTENT")
    /\ LET taken == Lesser(Len(buffer), chunk) IN
          /\ body'   = body \o Prefix(buffer, taken)
          /\ chunk'  = chunk - taken
          /\ buffer' = Rest(buffer, taken)
    /\ IF chunk' = 0 THEN state' = "CHUNK_TRAILER" /\ Again
                     ELSE ReturnTrue /\ UNCHANGED state
    /\ UNCHANGED <<status, length, timeout>>

(* Nothing but an end of line may follow a chunk, or the parser waits until *)
(* the time is up.                                                          *)
ChunkEnd(s) ==
    /\ Parsing(s)
    /\ IF Len(buffer) < 2 \/ Prefix(buffer, 2) # <<"cr", "lf">>
       THEN ReturnTrue /\ UNCHANGED <<buffer, state>>
       ELSE IF s = "CHUNK_LAST"
       THEN Close("parser", timed_out, status)
       ELSE buffer' = Rest(buffer, 2) /\ state' = "CHUNK_LEN" /\ Again
    /\ UNCHANGED <<status, length, chunk, body, timeout>>

Parse ==
    \/ HeadersMissing \/ HeadersOnly \/ Headers \/ Content
    \/ ChunkLength \/ ChunkContent \/ ChunkEnd("CHUNK_TRAILER") \/ ChunkEnd("CHUNK_LAST")

-----------------------------------------------------------------------------
(* one_second_timer.  Only while connect() has not finished is timed_out    *)
(* set before the handler is called.                                        *)
Expired ==
    /\ now + 1 >= timeout
    /\ timed_out' = TRUE
    /\ Close("time", conn \in {"connecting", "closed"}, status)
    /\ UNCHANGED <<start, retries>>

(* Bug: a connection that takes long is given up although it stands.        *)
BugRetryDue == now + 1 > start + 2 /\ retries < MaxRetries /\ socket

RetryDue ==
    conn = "connecting" /\ now + 1 > start + 2 /\ retries < MaxRetries /\ socket

(* connect() is tried again on a new socket, if one can be had.             *)
Retry ==
    /\ RetryDue
    /\ conn' = "connecting"
    /\ socket' \in BOOLEAN
    /\ start' = now + 1 + 2
    /\ retries' = retries + 1
    /\ UNCHANGED <<parser, timed_out, done>>

(* A second has passed, and the timer of the connection is called.          *)
Second ==
    /\ ~ parsing /\ state # "DONE"
    /\ now' = now + 1
    /\ IF now + 1 >= timeout THEN Expired /\ UNCHANGED <<status, length, chunk, body>>
       ELSE IF RetryDue THEN Retry
       ELSE UNCHANGED <<line, parser, start, retries, timed_out, done>>
    /\ UNCHANGED <<response, coming, timeout, connects>>

Next == Connected \/ HandshakeDone \/ Receive \/ Silence \/ Break \/ Parse \/ Second

Spec == Init /\ [][Next]_vars

(* The event loop goes through its buffers, and time passes.  Nothing is    *)
(* assumed of the server.                                                   *)
FairSpec == Spec /\ WF_vars(Parse) /\ WF_vars(Second)

-----------------------------------------------------------------------------
(* Types of all variables.                                                  *)
TypeOK ==
    /\ response \in Responses
    /\ coming \in Seq(Tokens) /\ buffer \in Seq(Tokens) /\ body \in Seq(Tokens)
    /\ conn \in {"connecting", "handshake", "up", "closed"}
    /\ state \in States
    /\ length \in Nat
    /\ chunk \in Nat
    /\ {now, start, retries, timeout, calls, connects} \subseteq Nat
    /\ {socket, parsing, status, timed_out, completed} \subseteq BOOLEAN
    /\ outcome \in {"none", "success", "error"}
    /\ cause \in {"none", "parser", "connection", "time"}

(* The handler is called once, wherever parser, connection and timer meet:  *)
(* not again by a later close, and not forgotten by an earlier one          *)
(* (httpsclient.cpp:256-266, 295-306, 347-356).                             *)
OneCompletion ==
    /\ calls <= 1
    /\ state = "DONE" \/ conn = "closed" => calls = 1

(* The body is a prefix of the one that was sent, whatever pieces it        *)
(* arrives in: no framing gets into it, and no part is left out, doubled or *)
(* put before an earlier one (httpsclient.cpp:240-307).                     *)
BodyIsPrefix ==
    /\ Len(body) <= response.body
    /\ \A i \in DOMAIN body : body[i] = Parts[i]

(* A response that has a length or chunks and that the parser completes as  *)
(* a success has its whole body (httpsclient.cpp:240-307).                  *)
WholeWhenParsed ==
    outcome = "success" /\ cause = "parser"
            /\ (response.chunked \/ response.length # ULLONG_MAX)
            /\ "x" \notin Elements(response.text)
        => Len(body) = response.body

(* The server gets the request once, although connect() is tried again      *)
(* (sslconnection.cpp:621-645).                                             *)
SentOnce == connects <= 1

(* However slowly a server sends, nobody waits longer than the timeout and  *)
(* the ten seconds for the body (httpsclient.cpp:166-169, 334-345).         *)
DoneInTime == state # "DONE" => now < RequestTimeout + BodyTime

(* The handler is called in the end, whatever the server does: what         *)
(* RequestQueue's fairness rests on (httpsclient.cpp:334-356).              *)
Completes == <>(calls > 0)
=============================================================================
