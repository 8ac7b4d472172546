------------------------------- MODULE Relay -------------------------------
(***************************************************************************)
(* The TCP relay of index.ts: for every connection a BaseTcpRelay with a   *)
(* data handler and three workers.  The data handlers store what arrives   *)
(* and put it on the queues of the orchestrator; the workers of all        *)
(* connections share the three queues of answers (lps1...Responses) and    *)
(* write what they take to their own connection.  The orchestrator is seen *)
(* through the queues only: it may answer what has been queued.            *)
(*                                                                         *)
(* A data handler runs from one await to the next in one step; it does not *)
(* await queue.add, whose step is one of its own.                          *)
(***************************************************************************)
EXTENDS IsoFields

CONSTANTS
  Conn,        \* connections
  MaxMsg,      \* bound on the messages that arrive
  MaxAnswers,  \* bound on the answers of the orchestrator
  MaxFaults,   \* bound on the awaits that throw
  Trace,       \* what identifies a message: see IsoFields
  Second,      \* the second the n-th message stored is stored in
  Fee,         \* the fees terminals ask for, in hundredths
  AdaptorFee   \* what calculateAdaptorFees adds

MsgId == 1..MaxMsg
AnswerId == 1..MaxAnswers

ASSUME RelayBounds ==
  /\ MaxMsg \in Nat /\ MaxAnswers \in Nat /\ MaxFaults \in Nat
  /\ Second \in [MsgId -> Nat \ {0}]
  /\ \A i, j \in MsgId : i < j => Second[i] <= Second[j]

\* Field 28 has eight digits, and so have the fees that are shown.
ASSUME FeeAssumption ==
  /\ Fee \subseteq Nat /\ AdaptorFee \in Nat
  /\ \A fee \in Fee \cup {0} : fee + AdaptorFee < 10^8

\* No identifier begins with a zero, which StripZeros would take away, or has
\* more than the eleven digits there are in field 90.
Plain(id) ==
  /\ id \in Seq(0..9) /\ Len(id) <= 11
  /\ id # <<>> => id[1] # 0

ASSUME TraceAssumption ==
  \A trace \in Trace : Plain(trace.acquirer) /\ Plain(trace.forwarder)

\* What messages and answers are about; "malformed" is an authorization
\* request whose field 123 names no scenario.
Kind == {"authorization", "financial", "reversal"}
MessageType == Kind \cup {"malformed"}

Socket == {"none", "open", "destroyed", "closed"}
Handling == {"none", "insert", "find", "add", "queued", "refused", "failed"}
Shutdown == {"no", "authorization", "financial", "done"}
Stopping == {"no", "adaptor", "workers", "queues", "completed"}

VARIABLES
  socket,    \* the state of each connection
  accepting, \* the workers of a connection that take answers
  job,       \* the answer each worker of a connection is writing, 0 if none
  shutdown,  \* how far relay.shutdown() of a connection is
  message,   \* what has arrived, and when it was stored
  handling,  \* where the data handler is with each message
  answer,    \* what the orchestrator has answered
  waiting,   \* the answers on each of the three queues
  written,   \* the answers written, and to which connection
  lost,      \* the answers taken off their queue and not sent
  stopping,  \* how far the SIGINT handler is
  faults     \* the awaits that may still throw

connections == <<socket, accepting, job, shutdown>>
messages == <<message, handling>>
answers == <<answer, waiting, written, lost>>
relayVars == <<connections, messages, answers, stopping, faults>>

\* trace: for an advice, of the message it names.  storedAt: 0 until it is
\* stored.  known: the messages with that trace that were stored when an
\* advice arrived, which no code keeps.  found: the message the query found.
NoTrace == [stan |-> 0, acquirer |-> <<>>, forwarder |-> <<>>]
Message ==
  [type : MessageType \cup {"none"}, trace : Trace \cup {NoTrace},
   fee : Fee \cup {0}, storedAt : Nat, known : SUBSET MsgId, found : MsgId \cup {0}]
NoMessage ==
  [type |-> "none", trace |-> NoTrace, fee |-> 0, storedAt |-> 0,
   known |-> {}, found |-> 0]

Answer == [about : MsgId \cup {0}, response : {"approved", "invalid"}]
NoAnswer == [about |-> 0, response |-> "invalid"]

\* Connections, messages and answers are where their handlers put them.
RelayTypeOK ==
  /\ socket \in [Conn -> Socket]
  /\ accepting \in [Conn -> SUBSET Kind]
  /\ job \in [Conn -> [Kind -> AnswerId \cup {0}]]
  /\ shutdown \in [Conn -> Shutdown]
  /\ message \in [MsgId -> Message]
  /\ handling \in [MsgId -> Handling]
  /\ answer \in [AnswerId -> Answer]
  /\ waiting \in [Kind -> SUBSET AnswerId]
  /\ written \in SUBSET (Conn \X AnswerId)
  /\ lost \in SUBSET (Conn \X AnswerId)
  /\ stopping \in Stopping
  /\ faults \in 0..MaxFaults

RelayInit ==
  /\ socket = [c \in Conn |-> "none"]
  /\ accepting = [c \in Conn |-> {}]
  /\ job = [c \in Conn |-> [k \in Kind |-> 0]]
  /\ shutdown = [c \in Conn |-> "no"]
  /\ message = [m \in MsgId |-> NoMessage]
  /\ handling = [m \in MsgId |-> "none"]
  /\ answer = [a \in AnswerId |-> NoAnswer]
  /\ waiting = [k \in Kind |-> {}]
  /\ written = {} /\ lost = {}
  /\ stopping = "no"
  /\ faults = MaxFaults

Stored(m) == message[m].storedAt > 0
DatabaseUp == stopping # "completed"
QueuesUp == stopping \in {"no", "adaptor", "workers"}

-----------------------------------------------------------------------------
(* The data handler of a connection. *)

Goto(m, step) == handling' = [handling EXCEPT ![m] = step]

\* An await of a handler throws, which is logged.
Fault == faults > 0 /\ faults' = faults - 1

NextMessage ==
  {m \in MsgId : handling[m] = "none" /\ \A k \in 1..(m - 1) :
                                           handling[k] # "none"}

\* An unknown message type throws at once and leaves no trace.  Only the fee
\* of an authorization request is looked at.
Arrive(c, type, trace, fee) ==
  /\ socket[c] = "open"
  /\ type # "authorization" => fee = 0
  /\ \E m \in NextMessage :
       /\ message' =
            [message EXCEPT ![m] =
               [type |-> type, trace |-> trace, fee |-> fee, storedAt |-> 0,
                known |-> {k \in MsgId :
                             /\ Stored(k) /\ message[k].type # "reversal"
                             /\ message[k].trace = trace},
                found |-> 0]]
       /\ Goto(m, "insert")
  /\ UNCHANGED <<connections, answers, stopping, faults>>

\* Mutant: no case for financial requests.
Insert_NoFinancial(m) ==
  /\ handling[m] = "insert"
  /\ DatabaseUp
  /\ message' = [message EXCEPT ![m].storedAt =
                   Second[Cardinality({k \in MsgId : Stored(k)}) + 1]]
  /\ Goto(m, CASE message[m].type = "authorization" -> "add"
               [] message[m].type = "reversal" -> "find"
               [] OTHER -> "failed")
  /\ UNCHANGED <<connections, answers, stopping, faults>>

\* A malformed request is stored before it is mapped, and gets no answer.
Insert(m) ==
  /\ handling[m] = "insert"
  /\ DatabaseUp
  /\ message' = [message EXCEPT ![m].storedAt =
                   Second[Cardinality({k \in MsgId : Stored(k)}) + 1]]
  /\ Goto(m, CASE message[m].type = "malformed" -> "failed"
               [] message[m].type = "reversal" -> "find"
               [] OTHER -> "add")
  /\ UNCHANGED <<connections, answers, stopping, faults>>

InsertThrows(m) ==
  /\ handling[m] = "insert"
  /\ \/ ~DatabaseUp /\ UNCHANGED faults
     \/ Fault
  /\ Goto(m, "failed")
  /\ UNCHANGED <<connections, message, answers, stopping>>

\* Mutant: only financial requests can be taken back.
Candidates_Financial(m) ==
  {k \in MsgId :
     /\ Stored(k) /\ message[k].type = "financial"
     /\ Names(OriginalData(message[m].trace), message[k].trace)}

\* Every row of lpsMessages that answers the query, whoever sent it.
Candidates(m) ==
  {k \in MsgId :
     /\ Stored(k) /\ message[k].type # "reversal"
     /\ Names(OriginalData(message[m].trace), message[k].trace)}

\* Mutant: the first row, unordered.
FindOriginal_Unordered(m) ==
  /\ handling[m] = "find"
  /\ DatabaseUp
  /\ \E k \in Candidates(m) : message' = [message EXCEPT ![m].found = k]
  /\ Goto(m, "add")
  /\ UNCHANGED <<connections, answers, stopping, faults>>

\* orderBy('created_at', 'desc').first(): any of those of the last second.
FindOriginal(m) ==
  /\ handling[m] = "find"
  /\ DatabaseUp
  /\ \E k \in Candidates(m) :
       /\ \A j \in Candidates(m) : message[j].storedAt <= message[k].storedAt
       /\ message' = [message EXCEPT ![m].found = k]
  /\ Goto(m, "add")
  /\ UNCHANGED <<connections, answers, stopping, faults>>

\* Mutant: the code for the outcome.
Refuse_Code(m) ==
  /\ handling[m] = "find"
  /\ \/ (Candidates(m) = {} \/ ~DatabaseUp) /\ UNCHANGED faults
     \/ Fault
  /\ Goto(m, "21")
  /\ UNCHANGED <<connections, message, answers, stopping>>

\* Whatever fails in the look-up is answered "0430" with code "21".
Refuse(m) ==
  /\ handling[m] = "find"
  /\ \/ (Candidates(m) = {} \/ ~DatabaseUp) /\ UNCHANGED faults
     \/ Fault
  /\ Goto(m, "refused")
  /\ UNCHANGED <<connections, message, answers, stopping>>

\* queue.add, some time later: jobs arrive in any order, and what it throws
\* nobody catches.
Add(m) ==
  /\ handling[m] = "add"
  /\ \/ QueuesUp /\ Goto(m, "queued") /\ UNCHANGED faults
     \/ ~QueuesUp /\ Goto(m, "failed") /\ UNCHANGED faults
     \/ Fault /\ Goto(m, "failed")
  /\ UNCHANGED <<connections, message, answers, stopping>>

-----------------------------------------------------------------------------
(* The orchestrator, as far as the queues show it. *)

KindOf(a) == message[answer[a].about].type

NextAnswer ==
  {a \in AnswerId : answer[a] = NoAnswer /\ \A b \in 1..(a - 1) :
                                              answer[b] # NoAnswer}

\* It answers what has been queued, perhaps more than once.
Respond(m, response) ==
  /\ handling[m] = "queued"
  /\ QueuesUp
  /\ \E a \in NextAnswer :
       /\ answer' = [answer EXCEPT ![a] = [about |-> m, response |-> response]]
       /\ waiting' = [waiting EXCEPT ![message[m].type] = @ \cup {a}]
  /\ UNCHANGED <<connections, messages, written, lost, stopping, faults>>

-----------------------------------------------------------------------------
(* The workers of a connection. *)

\* Mutant: every worker of the queue gets the answer.
TakeAnswer_Broadcast(c, k) ==
  /\ k \in accepting[c] /\ job[c][k] = 0
  /\ \E a \in waiting[k] :
       /\ <<c, a>> \notin written
       /\ job' = [job EXCEPT ![c][k] = a]
  /\ UNCHANGED <<socket, accepting, shutdown, messages, answers, stopping,
                 faults>>

\* One of the workers of a queue, of whichever connection, takes an answer.
TakeAnswer(c, k) ==
  /\ k \in accepting[c] /\ job[c][k] = 0
  /\ \E a \in waiting[k] :
       /\ waiting' = [waiting EXCEPT ![k] = @ \ {a}]
       /\ job' = [job EXCEPT ![c][k] = a]
  /\ UNCHANGED <<socket, accepting, shutdown, messages, answer, written, lost,
                 stopping, faults>>

\* The message answered is read and the answer written to the socket.  When
\* the database or the socket is gone it is logged, and the job is done.
FinishAnswer(c, k) ==
  /\ job[c][k] # 0
  /\ \/ /\ socket[c] = "open" /\ DatabaseUp
        /\ written' = written \cup {<<c, job[c][k]>>}
        /\ UNCHANGED <<lost, faults>>
     \/ /\ socket[c] # "open" \/ ~DatabaseUp
        /\ lost' = lost \cup {<<c, job[c][k]>>}
        /\ UNCHANGED <<written, faults>>
     \/ /\ Fault
        /\ lost' = lost \cup {<<c, job[c][k]>>}
        /\ UNCHANGED written
  /\ job' = [job EXCEPT ![c][k] = 0]
  /\ UNCHANGED <<socket, accepting, shutdown, messages, answer, waiting,
                 stopping>>

\* Field 30 of an approval: the fees of the quote, which are the fee of the
\* request and that of the adaptor (quote-request-handler.ts).
ShownFee(m) ==
  FeeField(CalculateFee(FeeField(message[m].fee)) + AdaptorFee)

-----------------------------------------------------------------------------
(* Connections: the TCP server of index.ts, start and shutdown of a relay. *)

\* Mutant: start forgets the worker of financial responses.
Accept_NoFinancial(c) ==
  /\ socket[c] = "none" /\ stopping = "no"
  /\ socket' = [socket EXCEPT ![c] = "open"]
  /\ accepting' = [accepting EXCEPT ![c] = Kind \ {"financial"}]
  /\ UNCHANGED <<job, shutdown, messages, answers, stopping, faults>>

Accept(c) ==
  /\ socket[c] = "none" /\ stopping = "no"
  /\ socket' = [socket EXCEPT ![c] = "open"]
  /\ accepting' = [accepting EXCEPT ![c] = Kind]
  /\ UNCHANGED <<job, shutdown, messages, answers, stopping, faults>>

\* The other side is gone.
Hangup(c) ==
  /\ socket[c] = "open"
  /\ socket' = [socket EXCEPT ![c] = "destroyed"]
  /\ UNCHANGED <<accepting, job, shutdown, messages, answers, stopping,
                 faults>>

\* The 'close' event: relay.shutdown() closes the authorization worker first;
\* close() awaits the job the worker has.
CloseEvent(c) ==
  /\ socket[c] = "destroyed"
  /\ socket' = [socket EXCEPT ![c] = "closed"]
  /\ accepting' = [accepting EXCEPT ![c] = @ \ {"authorization"}]
  /\ shutdown' = [shutdown EXCEPT ![c] = "authorization"]
  /\ UNCHANGED <<job, messages, answers, stopping, faults>>

\* Mutant: the financial worker is left open too.
CloseFinancial_LeftOpen(c) ==
  /\ shutdown[c] = "authorization" /\ job[c]["authorization"] = 0
  /\ shutdown' = [shutdown EXCEPT ![c] = "financial"]
  /\ UNCHANGED <<socket, accepting, job, messages, answers, stopping, faults>>

CloseFinancial(c) ==
  /\ shutdown[c] = "authorization" /\ job[c]["authorization"] = 0
  /\ accepting' = [accepting EXCEPT ![c] = @ \ {"financial"}]
  /\ shutdown' = [shutdown EXCEPT ![c] = "financial"]
  /\ UNCHANGED <<socket, job, messages, answers, stopping, faults>>

\* That is all: the reversal worker goes on taking answers.
FinishShutdown(c) ==
  /\ shutdown[c] = "financial" /\ job[c]["financial"] = 0
  /\ shutdown' = [shutdown EXCEPT ![c] = "done"]
  /\ UNCHANGED <<socket, accepting, job, messages, answers, stopping, faults>>

-----------------------------------------------------------------------------
(* The SIGINT handler of index.ts. *)

\* Mutant: the sockets are left to their peers.
Sigint_SocketsLeft ==
  /\ stopping = "no"
  /\ stopping' = "adaptor"
  /\ UNCHANGED <<connections, messages, answers, faults>>

Sigint ==
  /\ stopping = "no"
  /\ stopping' = "adaptor"
  /\ socket' = [c \in Conn |-> IF socket[c] = "open" THEN "destroyed"
                                                     ELSE socket[c]]
  /\ UNCHANGED <<accepting, job, shutdown, messages, answers, faults>>

\* The HTTP server, the workers of the orchestrator, the queues and, with
\* them, the database.
StopNext(from, to) ==
  /\ stopping = from
  /\ stopping' = to
  /\ UNCHANGED <<connections, messages, answers, faults>>

Stop ==
  StopNext("adaptor", "workers") \/ StopNext("workers", "queues")
    \/ StopNext("queues", "completed")

-----------------------------------------------------------------------------
DataHandler(m) ==
  Insert(m) \/ InsertThrows(m) \/ FindOriginal(m) \/ Refuse(m) \/ Add(m)
RelayShutdown(c) == CloseEvent(c) \/ CloseFinancial(c) \/ FinishShutdown(c)

RelayNext ==
  \/ \E c \in Conn : Accept(c) \/ Hangup(c) \/ RelayShutdown(c)
  \/ \E c \in Conn, type \in MessageType, trace \in Trace, fee \in Fee \cup {0} :
       Arrive(c, type, trace, fee)
  \/ \E m \in MsgId : DataHandler(m)
  \/ \E m \in MsgId, response \in {"approved", "invalid"} :
       Respond(m, response)
  \/ \E c \in Conn, k \in Kind : TakeAnswer(c, k) \/ FinishAnswer(c, k)
  \/ Sigint \/ Stop

RelaySpec == RelayInit /\ [][RelayNext]_relayVars

\* Handlers go on, workers take what waits for them, and what is being closed
\* gets closed.  Peers, the orchestrator and whoever sends SIGINT owe nothing.
RelayFairSpec ==
  /\ RelaySpec
  /\ \A m \in MsgId : WF_relayVars(DataHandler(m))
  /\ \A c \in Conn : WF_relayVars(RelayShutdown(c))
  /\ \A c \in Conn, k \in Kind :
       WF_relayVars(TakeAnswer(c, k)) /\ WF_relayVars(FinishAnswer(c, k))
  /\ WF_relayVars(Stop)

-----------------------------------------------------------------------------
(* Safety. *)

Undisturbed == faults = MaxFaults

\* However many connections share its queue, an answer is written to one of
\* them at most, once, and what has been written is not lost elsewhere
\* (base-tcp-relay.ts, the workers of start).
AnsweredOnce ==
  \A a \in AnswerId, c, d \in Conn :
    /\ <<c, a>> \in written /\ <<d, a>> \in written => c = d
    /\ <<c, a>> \in written => <<d, a>> \notin lost

\* As long as no await throws, an answer that is taken off its queue is lost
\* only by a connection that is gone: not by the order in which SIGINT takes
\* sockets, queues and database down (index.ts).
LostOnlyUnheard ==
  Undisturbed => \A a \in AnswerId, c \in Conn :
                   <<c, a>> \in lost => socket[c] \in {"destroyed", "closed"}

\* As long as no await throws, an advice is refused with code "21" only when
\* the message it names had not been stored when it arrived, or the database
\* is gone: a message that is still being stored is refused its reversal
\* (base-tcp-relay.ts, the data handler).
RefusedOnlyUnknown ==
  Undisturbed /\ DatabaseUp =>
    \A m \in MsgId : handling[m] = "refused" => message[m].known = {}

\* Two messages of different origin share their time and trace number.
Ambiguous ==
  \E j, k \in MsgId :
    /\ message[j].type # "none" /\ message[k].type # "none"
    /\ message[j].trace # message[k].trace
    /\ message[j].trace.stan = message[k].trace.stan

\* The message an advice is passed on with is one it names, the latest of
\* those stored when it arrived or a later one, unless acquirers share a time
\* and trace number (mapFromReversalAdvice).
AdviceFindsItsMessage ==
  ~Ambiguous =>
    \A m \in MsgId :
      message[m].found # 0 =>
        LET original == message[message[m].found] IN
        /\ original.trace = message[m].trace
        /\ \A k \in message[m].known : message[k].storedAt <= original.storedAt

\* The fees a terminal shows are those it asked for and the adaptor's, in
\* eight digits (mapToAuthorizationResponse).
FeeIsShown ==
  \A a \in AnswerId, c \in Conn :
    <<c, a>> \in written /\ KindOf(a) = "authorization"
      /\ answer[a].response = "approved" =>
        LET m == answer[a].about IN
        /\ Number(ShownFee(m)) = message[m].fee + AdaptorFee
        /\ Len(ShownFee(m)) = 8

\* A relay that has been shut down takes no answer to an authorization or a
\* financial request from the relays that are open (base-tcp-relay.ts,
\* shutdown).
ClosedTakesOnlyReversals ==
  [][\A c \in Conn, k \in Kind :
       shutdown[c] = "done" /\ job'[c][k] # job[c][k] => k = "reversal"]_relayVars

-----------------------------------------------------------------------------
(* Liveness. *)

\* Some connection is open, all others are shut down, nothing has failed.
Calm ==
  /\ stopping = "no" /\ Undisturbed
  /\ \E c \in Conn : socket[c] = "open"
  /\ \A c \in Conn : socket[c] \in {"none", "open"} \/ shutdown[c] = "done"

IsWritten(a) == \E c \in Conn : <<c, a>> \in written

\* The answer to an authorization or financial request is written to an open
\* connection, if all others have been shut down and nothing fails.
AnswerIsWritten ==
  \A a \in AnswerId, k \in {"authorization", "financial"} :
    a \in waiting[k] /\ Calm ~> IsWritten(a) \/ ~Calm

\* What arrives gets to the orchestrator, although nobody waits for queue.add,
\* or is refused, unless it is malformed, something fails or SIGINT comes.
ArrivedIsQueued ==
  \A m \in MsgId :
    handling[m] = "insert" ~>
      \/ handling[m] \in {"queued", "refused"} \/ message[m].type = "malformed"
      \/ ~Undisturbed \/ stopping # "no"

-----------------------------------------------------------------------------
(* The inductive invariant of the proofs. *)

\* An answer is nowhere until it is given; then it is on one queue, or with
\* one worker, or out.
Out == written \cup lost
OnePlace ==
  /\ \A a \in AnswerId, k \in Kind : a \in waiting[k] =>
       /\ answer[a] # NoAnswer
       /\ \A j \in Kind : a \in waiting[j] => j = k
       /\ \A c \in Conn : <<c, a>> \notin Out /\ \A j \in Kind : job[c][j] # a
  /\ \A c \in Conn, k \in Kind : job[c][k] # 0 =>
       /\ answer[job[c][k]] # NoAnswer
       /\ \A d \in Conn : <<d, job[c][k]>> \notin Out
       /\ \A d \in Conn, j \in Kind : job[d][j] = job[c][k] => d = c /\ j = k
  /\ \A c \in Conn, a \in AnswerId : <<c, a>> \in Out => answer[a] # NoAnswer
  /\ AnsweredOnce

\* An answer is about a message.
AnswersGiven ==
  \A a \in AnswerId : answer[a] # NoAnswer => answer[a].about \in MsgId

\* The workers of a connection do not outlive its shutdown, but for that of
\* reversals, and no socket outlives SIGINT.
WorkersClosed ==
  \A c \in Conn :
    /\ socket[c] = "none" =>
         shutdown[c] = "no" /\ \A k \in Kind : job[c][k] = 0
    /\ socket[c] = "none" => accepting[c] = {}
    /\ shutdown[c] # "no" => "authorization" \notin accepting[c]
    /\ shutdown[c] \in {"financial", "done"} =>
         "financial" \notin accepting[c] /\ job[c]["authorization"] = 0
    /\ shutdown[c] = "done" => job[c]["financial"] = 0
    /\ stopping # "no" => socket[c] # "open"

\* A row of lpsMessages is written once, and what an advice knew or found
\* stays what it was.
RowsStay ==
  \A m \in MsgId :
    /\ Stored(m) => handling[m] \notin {"none", "insert"}
    /\ handling[m] # "none" => message[m].type # "none"
    /\ handling[m] = "none" => message[m].known = {} /\ message[m].found = 0
    /\ \A k \in message[m].known :
         /\ Stored(k) /\ message[k].type # "reversal"
         /\ message[k].trace = message[m].trace
    /\ message[m].found # 0 =>
         /\ Stored(message[m].found)
         /\ message[message[m].found].trace.stan = message[m].trace.stan
         /\ \A k \in message[m].known :
              message[k].storedAt <= message[message[m].found].storedAt

RelayIInv ==
  /\ RelayTypeOK /\ OnePlace /\ AnswersGiven /\ WorkersClosed /\ RowsStay
  /\ LostOnlyUnheard /\ RefusedOnlyUnknown
=============================================================================
