-------------------------- MODULE ProcessedMessages --------------------------
(***************************************************************************)
(* The queued-message pipeline of the bot (class/queued_messages.cpp): an   *)
(* acknowledgement round asks the panel for direct messages to send, sends  *)
(* them one after the other, keeps every result in processed_message_cache, *)
(* and reports the whole cache back to the panel.                           *)
(*                                                                          *)
(* A round is one coroutine started by the acknowledge timer together with  *)
(* the report it posts.  The timer does not wait for the previous round, so *)
(* several rounds run at once on the threads of the pool; each step below   *)
(* is what one of them does between two suspension points, or one critical  *)
(* section of cache_mutex.                                                  *)
(***************************************************************************)
EXTENDS Naturals, FiniteSets

CONSTANTS
    Messages,   \* identifiers of the messages the panel wants to have sent
    Malformed,  \* those whose JSON the constructor of queued_message rejects
    Rounds,     \* acknowledgement rounds that may be under way at one time
    MaxSends,   \* bound: a message sent this often is not handed out again
    Faults      \* the faults the environment may produce, a subset of FaultKinds

FaultKinds == {"no_answer", "no_connection", "report_refused", "crash"}

ASSUME ConstantsAssumption ==
    /\ Malformed \subseteq Messages
    /\ IsFiniteSet(Rounds)
    /\ Rounds # {}
    /\ MaxSends \in Nat
    /\ Faults \subseteq FaultKinds

VARIABLES
    cache,      \* cache_map: the kept results by message, with their age
    pc,         \* where each round is suspended
    todo,       \* the messages of its batch a round has not begun yet
    msg,        \* the message a round is sending
    reply,      \* what Discord answered about it
    report,     \* used_queued_messages: the ids of the report a round posted
    told,       \* the panel: the messages it has accepted a result for
    \* history, never read by the bot
    sends,      \* how often each message was posted to Discord
    finished,   \* the messages for which send_to_discord returned
    posted,     \* how many reports contained each present cache entry, up to MaxTries
    givenUp,    \* the messages logged as "Could not report back"
    lost,       \* the messages whose result was lost with the process
    trouble     \* "none" until rounds overlap, an answer stays out, a report fails,
                \* or the process dies

roundVars == <<pc, todo, msg, reply, report>>
history   == <<sends, finished, posted, givenUp, lost, trouble>>
vars      == <<cache, roundVars, told, history>>

(* Places where a round is suspended or between two critical sections.      *)
Suspended == {"acknowledging", "member", "dm", "reporting", "accepted"}
Places    == Suspended \cup {"idle", "next", "store", "snapshot"}

(* Answers to a REST call: accepted, an HTTP status of 400 or more, or no   *)
(* connection (status 0 and an empty body).                                 *)
Replies == {"ok", "rejected", "no_connection"}

(* confirmation_callback_t::is_error: a status of 400 or more is an error;  *)
(* a body that does not parse, such as the empty one left by a failed       *)
(* connection, is not.                                                      *)
IsError(r) == r = "rejected"

(* An entry whose tries reaches this is erased instead of reported again.   *)
MaxTries == 4

-----------------------------------------------------------------------------
(* Operations on the cache.  The definitions named Bug... are the slips the *)
(* properties are tested against; no behaviour of Spec uses them.           *)

(* Bug: insert_or_assign instead of emplace.                                *)
BugOverwrite(c, m, entry) ==
    [x \in DOMAIN c \cup {m} |-> IF x = m THEN entry ELSE c[x]]

(* emplace: an entry already there under this id is left as it is.          *)
Emplace(c, m, entry) ==
    [x \in DOMAIN c \cup {m} |-> IF x \in DOMAIN c THEN c[x] ELSE entry]

(* Bug: the age is compared before it is increased.                         *)
BugExpireLate(c) == {m \in DOMAIN c : c[m].tries >= MaxTries}

(* Bug: an entry is given up one round too early.                           *)
BugExpireEarly(c) == {m \in DOMAIN c : c[m].tries + 2 >= MaxTries}

(* The entries that reach MaxTries when every one ages by one.              *)
Expiring(c) == {m \in DOMAIN c : c[m].tries + 1 >= MaxTries}

(* Bug: tries is never increased.                                           *)
BugAgeless(c) == [m \in DOMAIN c \ Expiring(c) |-> c[m]]

Aged(c) ==
    [m \in DOMAIN c \ Expiring(c) |-> [c[m] EXCEPT !.tries = @ + 1]]

(* Bug: cache_map.clear() instead of erasing the reported ids.              *)
BugEraseAll(c, ids) == [m \in {} |-> c[m]]

Erase(c, ids) == [m \in DOMAIN c \ ids |-> c[m]]

-----------------------------------------------------------------------------
Init ==
    /\ cache    = [m \in {} |-> [error |-> FALSE, tries |-> 0]]
    /\ pc       = [r \in Rounds |-> "idle"]
    /\ todo     = [r \in Rounds |-> {}]
    /\ msg      = [r \in Rounds |-> "none"]
    /\ reply    = [r \in Rounds |-> "ok"]
    /\ report   = [r \in Rounds |-> {}]
    /\ told     = {}
    /\ sends    = [m \in Messages |-> 0]
    /\ finished = {}
    /\ posted   = [m \in {} |-> 0]
    /\ givenUp  = {}
    /\ lost     = {}
    /\ trouble  = "none"

Goto(r, place) == pc' = [pc EXCEPT ![r] = place]

(* The round's coroutine and its report are over.                           *)
End(r) ==
    /\ Goto(r, "idle")
    /\ todo'   = [todo EXCEPT ![r] = {}]
    /\ msg'    = [msg EXCEPT ![r] = "none"]
    /\ reply'  = [reply EXCEPT ![r] = "ok"]
    /\ report' = [report EXCEPT ![r] = {}]

(* A tick of the acknowledge timer: POST /acknowledge.                      *)
Acknowledge(r) ==
    /\ pc[r] = "idle"
    /\ Goto(r, "acknowledging")
    /\ trouble' = IF \A x \in Rounds : pc[x] = "idle" THEN trouble ELSE "some"
    /\ UNCHANGED <<cache, todo, msg, reply, report, told, sends, finished, posted, givenUp,
                   lost>>

(* The panel answers without messages: a refusal, an unusable body, no      *)
(* dm_messages, or an empty list.  Nothing is reported in such a round.     *)
NoMessages(r) ==
    /\ pc[r] = "acknowledging"
    /\ End(r)
    /\ UNCHANGED <<cache, told, history>>

(* The panel hands out messages it has had no result for, in an order of    *)
(* its own choice.                                                          *)
HandOut(r) ==
    /\ pc[r] = "acknowledging"
    /\ \E batch \in SUBSET {m \in Messages \ told : sends[m] < MaxSends} :
          /\ batch # {}
          /\ todo' = [todo EXCEPT ![r] = batch]
    /\ Goto(r, "next")
    /\ UNCHANGED <<cache, msg, reply, report, told, history>>

(* The constructor of queued_message throws: the message is skipped.        *)
Reject(r) ==
    /\ pc[r] = "next"
    /\ \E m \in todo[r] \cap Malformed : todo' = [todo EXCEPT ![r] = @ \ {m}]
    /\ UNCHANGED <<cache, pc, msg, reply, report, told, history>>

(* Bug: the result is stored before the sending is awaited.                 *)
BugStoreFirst(r) ==
    /\ pc[r] = "next"
    /\ \E m \in todo[r] \ Malformed :
          /\ cache'  = Emplace(cache, m, [error |-> FALSE, tries |-> 0])
          /\ posted' = Emplace(posted, m, 0)
          /\ msg'  = [msg EXCEPT ![r] = m]
          /\ todo' = [todo EXCEPT ![r] = @ \ {m}]
    /\ Goto(r, "member")
    /\ UNCHANGED <<reply, report, told, sends, finished, givenUp, lost, trouble>>

(* co_await guild_get_member for the next message of the batch.             *)
Begin(r) ==
    /\ pc[r] = "next"
    /\ \E m \in todo[r] \ Malformed :
          /\ msg'  = [msg EXCEPT ![r] = m]
          /\ todo' = [todo EXCEPT ![r] = @ \ {m}]
    /\ Goto(r, "member")
    /\ UNCHANGED <<cache, reply, report, told, history>>

(* A connection failure is an answer only where the network may fail.       *)
PossibleReplies == IF "no_connection" \in Faults THEN Replies
                                                 ELSE Replies \ {"no_connection"}

(* The member was looked up: an error ends the sending, anything else posts *)
(* the direct message.                                                      *)
MemberAnswer(r) ==
    /\ pc[r] = "member"
    /\ \E answer \in PossibleReplies :
          IF IsError(answer)
          THEN /\ reply' = [reply EXCEPT ![r] = answer]
               /\ finished' = finished \cup {msg[r]}
               /\ Goto(r, "store")
               /\ UNCHANGED sends
          ELSE /\ sends' = [sends EXCEPT ![msg[r]] = @ + 1]
               /\ Goto(r, "dm")
               /\ UNCHANGED <<reply, finished>>
    /\ UNCHANGED <<cache, todo, msg, report, told, posted, givenUp, lost, trouble>>

(* direct_message_create was answered: send_to_discord returns.             *)
DmAnswer(r) ==
    /\ pc[r] = "dm"
    /\ \E answer \in PossibleReplies : reply' = [reply EXCEPT ![r] = answer]
    /\ finished' = finished \cup {msg[r]}
    /\ Goto(r, "store")
    /\ UNCHANGED <<cache, todo, msg, report, told, sends, posted, givenUp, lost, trouble>>

(* store(qm).  An entry that is there already stays as it is.               *)
Store(r) ==
    /\ pc[r] = "store"
    /\ cache' = Emplace(cache, msg[r], [error |-> IsError(reply[r]), tries |-> 0])
    /\ posted' = Emplace(posted, msg[r], 0)
    /\ msg'   = [msg EXCEPT ![r] = "none"]
    /\ reply' = [reply EXCEPT ![r] = "ok"]
    /\ Goto(r, "next")
    /\ UNCHANGED <<todo, report, told, sends, finished, givenUp, lost, trouble>>

(* clear_garbage_and_increase_tries, once the batch is through.             *)
ClearGarbage(r) ==
    /\ pc[r] = "next"
    /\ todo[r] = {}
    /\ cache'   = Aged(cache)
    /\ givenUp' = givenUp \cup Expiring(cache)
    /\ posted'  = Erase(posted, Expiring(cache))
    /\ Goto(r, "snapshot")
    /\ UNCHANGED <<todo, msg, reply, report, told, sends, finished, lost, trouble>>

(* Reports are counted up to MaxTries: more make no difference.             *)
Counted(n) == IF n < MaxTries THEN n + 1 ELSE n

(* Bug: only the results stored since the last report are reported.         *)
BugPostFresh(r) ==
    /\ pc[r] = "snapshot"
    /\ LET fresh == {m \in DOMAIN cache : cache[m].tries = 1} IN
          /\ report' = [report EXCEPT ![r] = fresh]
          /\ posted' = [m \in DOMAIN posted |->
                           IF m \in fresh THEN Counted(posted[m]) ELSE posted[m]]
    /\ Goto(r, "reporting")
    /\ UNCHANGED <<cache, todo, msg, reply, told, sends, finished, givenUp, lost, trouble>>

(* Bug: only messages that were sent are reported.                          *)
BugPostSent(r) ==
    /\ pc[r] = "snapshot"
    /\ report' = [report EXCEPT ![r] = {m \in DOMAIN cache : ~ cache[m].error}]
    /\ Goto(r, "reporting")
    /\ UNCHANGED <<cache, todo, msg, reply, told, history>>

(* The whole cache is copied under the shared lock and posted to            *)
(* /processed-queued-messages; the coroutine returns without waiting.       *)
PostReport(r) ==
    /\ pc[r] = "snapshot"
    /\ report' = [report EXCEPT ![r] = DOMAIN cache]
    /\ posted' = [m \in DOMAIN posted |-> Counted(posted[m])]
    /\ Goto(r, "reporting")
    /\ UNCHANGED <<cache, todo, msg, reply, told, sends, finished, givenUp, lost, trouble>>

(* The panel takes the report; its answer is still on the way.              *)
PanelAccepts(r) ==
    /\ pc[r] = "reporting"
    /\ told' = told \cup report[r]
    /\ Goto(r, "accepted")
    /\ UNCHANGED <<cache, todo, msg, reply, report, history>>

(* The callback of the report with a status below 300: the reported ids     *)
(* leave the cache, if they are still there.                                *)
ReportSucceeds(r) ==
    /\ pc[r] = "accepted"
    /\ cache'  = Erase(cache, report[r])
    /\ posted' = Erase(posted, report[r])
    /\ End(r)
    /\ UNCHANGED <<told, sends, finished, givenUp, lost, trouble>>

(* Bug: the callback erases the ids whatever the panel answered.            *)
BugEraseOnFailure(r) ==
    /\ "report_refused" \in Faults
    /\ pc[r] \in {"reporting", "accepted"}
    /\ cache'  = Erase(cache, report[r])
    /\ posted' = Erase(posted, report[r])
    /\ End(r)
    /\ UNCHANGED <<told, sends, finished, givenUp, lost, trouble>>

(* The callback with any other answer: refused by the panel, or accepted    *)
(* and the answer lost.  The entries stay for the next report.              *)
ReportFails(r) ==
    /\ "report_refused" \in Faults
    /\ pc[r] \in {"reporting", "accepted"}
    /\ End(r)
    /\ trouble' = "some"
    /\ UNCHANGED <<cache, told, sends, finished, posted, givenUp, lost>>

(* A request that is never answered (http_request::run caught an exception, *)
(* or the completion threw): the coroutine stays suspended for ever.        *)
Abandon(r) ==
    /\ "no_answer" \in Faults
    /\ pc[r] \in Suspended
    /\ End(r)
    /\ trouble' = "some"
    /\ UNCHANGED <<cache, told, sends, finished, posted, givenUp, lost>>

(* The process dies and is started again: cache_map is only in memory.      *)
Crash ==
    /\ "crash" \in Faults
    /\ lost'   = lost \cup DOMAIN cache
                      \cup {msg[r] : r \in {x \in Rounds : pc[x] = "store"}}
    /\ cache'  = Erase(cache, Messages)
    /\ posted' = Erase(posted, Messages)
    /\ pc'     = [r \in Rounds |-> "idle"]
    /\ todo'   = [r \in Rounds |-> {}]
    /\ msg'    = [r \in Rounds |-> "none"]
    /\ reply'  = [r \in Rounds |-> "ok"]
    /\ report' = [r \in Rounds |-> {}]
    /\ trouble' = "some"
    /\ UNCHANGED <<told, sends, finished, givenUp>>

(* The steps of a round that has begun.                                     *)
Progress(r) ==
    \/ NoMessages(r) \/ HandOut(r)
    \/ Reject(r) \/ Begin(r) \/ MemberAnswer(r) \/ DmAnswer(r) \/ Store(r)
    \/ ClearGarbage(r) \/ PostReport(r)
    \/ PanelAccepts(r) \/ ReportSucceeds(r) \/ ReportFails(r)
    \/ Abandon(r)

Next == Crash \/ \E r \in Rounds : Acknowledge(r) \/ Progress(r)

Spec == Init /\ [][Next]_vars

(* The timer keeps ticking, and a pool thread takes every round further     *)
(* when its request is answered: https_client closes a request after its    *)
(* timeout, so an answer comes, or the round is abandoned.                  *)
Fairness == \A r \in Rounds : WF_vars(Acknowledge(r)) /\ WF_vars(Progress(r))

FairSpec == Spec /\ Fairness

-----------------------------------------------------------------------------
(* Types of all variables; an entry that stays in the cache is younger than *)
(* MaxTries.                                                                *)
TypeOK ==
    /\ DOMAIN cache \subseteq Messages
    /\ cache \in [DOMAIN cache -> [error : BOOLEAN, tries : 0 .. MaxTries - 1]]
    /\ pc \in [Rounds -> Places]
    /\ todo \in [Rounds -> SUBSET Messages]
    /\ msg \in [Rounds -> Messages \cup {"none"}]
    /\ \A r \in Rounds : pc[r] \in {"member", "dm", "store"} => msg[r] \in Messages
    /\ reply \in [Rounds -> Replies]
    /\ report \in [Rounds -> SUBSET Messages]
    /\ told \subseteq Messages
    /\ sends \in [Messages -> Nat]
    /\ finished \subseteq Messages
    /\ posted \in [DOMAIN cache -> Nat]
    /\ givenUp \subseteq Messages
    /\ lost \subseteq Messages
    /\ trouble \in {"none", "some"}

(* A result the bot has obtained is never silently forgotten, whatever      *)
(* rounds and report callbacks overlap: it is about to be stored, in the    *)
(* cache, accepted by the panel, logged as given up, or died with the       *)
(* process (queued_messages.cpp:69, 107-114, 134-142).                      *)
NothingForgotten ==
    finished \subseteq DOMAIN cache \cup told \cup givenUp \cup lost
                       \cup {msg[r] : r \in {x \in Rounds : pc[x] = "store"}}

(* What the panel is told about, and what a report on its way contains, has *)
(* really been tried: no report announces a message whose sending is still  *)
(* pending in this or another round (queued_messages.cpp:65-95).            *)
ReportedAfterSending ==
    \A m \in Messages :
        m \in told \cup DOMAIN cache \cup UNION {report[r] : r \in Rounds}
            => m \in finished

(* Between its ageing and its report a round holds no lock, and another may *)
(* age the cache again: an entry is older than the number of reports it was *)
(* in by at most the rounds standing there (queued_messages.cpp:75-81).     *)
Ageing == {r \in Rounds : pc[r] = "snapshot"}

TriesAccounted ==
    \A m \in DOMAIN cache : cache[m].tries <= posted[m] + Cardinality(Ageing)

(* "Could not report back" is the last resort: an entry is given up only    *)
(* after it was in 4 - |Rounds| reports at least, so never unreported when  *)
(* fewer than four rounds overlap (queued_messages.cpp:136-138).            *)
GivenUpAfterReports ==
    [][\A r \in Rounds :
          pc[r] = "next" /\ pc'[r] = "snapshot" =>
              \A m \in DOMAIN cache \ DOMAIN cache' :
                  posted[m] + Cardinality(Rounds) >= 4]_vars

(* Once a result is in the cache it stays the result the panel will be told *)
(* until the entry leaves: no later attempt replaces it, and it only grows  *)
(* older (queued_messages.cpp:125-128, 135).                                *)
ResultStays ==
    [][\A m \in DOMAIN cache \cap DOMAIN cache' :
          /\ cache'[m].error = cache[m].error
          /\ cache'[m].tries >= cache[m].tries]_vars

(* The panel makes the bot send a message twice only when something went    *)
(* wrong: a round overtook another, an answer stayed out, a report was      *)
(* refused, or the process died (queued_messages.cpp:65-114).               *)
SentAtMostOnce == trouble = "none" => \A m \in Messages : sends[m] <= 1

(* If rounds with messages keep coming, no result stays in the cache for    *)
(* ever: it is accepted or given up (queued_messages.cpp:75, 107-114, 136). *)
CacheDrains ==
    []<>(\E r \in Rounds : pc[r] = "snapshot")
        => \A m \in Messages : []<>(m \notin DOMAIN cache)

(* The pipeline implements the promise of ResultReporting; a result is held *)
(* from the answer of Discord on (queued_messages.cpp:65-143).              *)
Reporting == INSTANCE ResultReporting WITH
    obtained <- finished,
    held     <- DOMAIN cache \cup {msg[r] : r \in {x \in Rounds : pc[x] = "store"}},
    accepted <- told

ImplementsReporting == Reporting!Spec

(* restresults.h:305-309: is_error "returns true if the call resulted in an *)
(* error rather than a legitimate value".  What is stored as sent was       *)
(* answered by Discord.                                                     *)
SentMeansAnswered ==
    \A r \in Rounds :
        pc[r] = "store" /\ ~ IsError(reply[r]) => reply[r] = "ok"
=============================================================================
