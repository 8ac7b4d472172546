---------------------------- MODULE RelayProofs ----------------------------
(***************************************************************************)
(* Proofs about Relay: whatever the connections, messages and answers, an  *)
(* answer goes to one connection, and an advice is refused only when its   *)
(* message is unknown.                                                     *)
(***************************************************************************)
EXTENDS Relay, IsoFieldsProofs

-----------------------------------------------------------------------------
(* Traces. *)

\* An advice names the message its original data are those of.
LEMMA NamesItself ==
  ASSUME NEW trace \in Trace \cup {NoTrace}
  PROVE  Names(OriginalData(trace), trace)
<1>1. Plain(trace.acquirer) /\ Plain(trace.forwarder)
  <2>1. CASE trace \in Trace
    BY <2>1, TraceAssumption
  <2>2. CASE trace = NoTrace
    <3>1. trace.acquirer = <<>> /\ trace.forwarder = <<>>
      BY <2>2 DEF NoTrace
    <3>2. Plain(<<>>)
      BY EmptySeq DEF Plain
    <3> QED BY <3>1, <3>2
  <2> QED BY <2>1, <2>2
<1>2. /\ StripZeros(Pad(trace.acquirer, 11, 0)) = trace.acquirer
      /\ StripZeros(Pad(trace.forwarder, 11, 0)) = trace.forwarder
  BY <1>1, PadIsUndone DEF Plain
<1> QED BY <1>2 DEF Names, OriginalData, Asks

-----------------------------------------------------------------------------
(* Fees. *)

\* What an approval shows is the fee of the request and that of the adaptor.
LEMMA FeesAddUp ==
  ASSUME NEW fee \in Fee \cup {0}
  PROVE  LET shown == FeeField(CalculateFee(FeeField(fee)) + AdaptorFee)
         IN  Number(shown) = fee + AdaptorFee /\ Len(shown) = 8
<1>1. /\ fee \in Nat /\ fee + AdaptorFee \in Nat
      /\ fee < 10^8 /\ fee + AdaptorFee < 10^8
  BY FeeAssumption, SMT
<1>2. Len(Digits[fee]) <= 8 /\ Len(Digits[fee + AdaptorFee]) <= 8
  BY <1>1, EightDigits, SMT DEF AtMost
<1>3. CalculateFee(FeeField(fee)) = fee
  <2>1. fee \in Nat
    BY <1>1, SMT
  <2> QED BY <1>2, <2>1, FeeFieldShows, Zenon DEF CalculateFee
<1> DEFINE total == fee + AdaptorFee
<1>4. total \in Nat /\ Len(Digits[total]) <= 8
  BY <1>1, <1>2, SMT
<1> HIDE DEF total
<1>5. Number(FeeField(total)) = total /\ Len(FeeField(total)) = 8
  BY <1>4, FeeFieldShows, Zenon
<1> QED BY <1>3, <1>5, Zenon DEF total

-----------------------------------------------------------------------------
(* Type correctness. *)

\* The invariant holds at the start.
LEMMA RelayInitial == RelayInit => RelayIInv
<1> SUFFICES ASSUME RelayInit PROVE RelayIInv
  OBVIOUS
<1>1. \A m \in MsgId : message[m] = NoMessage
  BY DEF RelayInit
<1>2. RelayTypeOK
  <2>1. NoMessage \in Message
    BY DEF NoMessage, Message, NoTrace
  <2>2. NoAnswer \in Answer
    BY DEF NoAnswer, Answer
  <2> QED
    BY <2>1, <2>2, RelayBounds
    DEF RelayInit, RelayTypeOK, Socket, Handling, Shutdown, Stopping
<1>3. OnePlace
  BY DEF RelayInit, OnePlace, Out, AnsweredOnce
<1>4. WorkersClosed
  BY DEF RelayInit, WorkersClosed
<1>5. RowsStay
  <2>1. \A m \in MsgId : message[m].storedAt = 0 /\ message[m].known = {}
                           /\ message[m].found = 0
    BY <1>1 DEF NoMessage
  <2> QED BY <2>1 DEF RelayInit, RowsStay, Stored
<1>6. LostOnlyUnheard /\ RefusedOnlyUnknown
  BY DEF RelayInit, LostOnlyUnheard, RefusedOnlyUnknown
<1>7. AnswersGiven
  BY DEF RelayInit, AnswersGiven
<1> QED BY <1>2, <1>3, <1>4, <1>5, <1>6, <1>7 DEF RelayIInv

\* There is a second for every message that is stored.
LEMMA SecondOfNext ==
  ASSUME RelayTypeOK, RowsStay, NEW m \in MsgId, handling[m] = "insert"
  PROVE  Second[Cardinality({k \in MsgId : Stored(k)}) + 1] \in Nat \ {0}
<1> DEFINE stored == {k \in MsgId : Stored(k)}
           n == Cardinality(stored)
<1>1. stored \subseteq MsgId \ {m}
  BY DEF RowsStay
<1>2. IsFiniteSet(MsgId) /\ Cardinality(MsgId) = MaxMsg
  <2>1. MaxMsg \in Nat /\ 1 \in Int /\ MaxMsg \in Int
    BY RelayBounds
  <2>2. IsFiniteSet(1..MaxMsg)
    BY <2>1, FS_Interval
  <2>3. Cardinality(1..MaxMsg) = IF 1 > MaxMsg THEN 0 ELSE MaxMsg - 1 + 1
    BY <2>1, FS_Interval
  <2> DEFINE c == Cardinality(1..MaxMsg)
  <2>4. c = IF 1 > MaxMsg THEN 0 ELSE MaxMsg - 1 + 1
    BY <2>3
  <2> HIDE DEF c
  <2>5. c = MaxMsg
    BY <2>1, <2>4
  <2> QED BY <2>2, <2>5 DEF c, MsgId
<1>3. IsFiniteSet(MsgId \ {m}) /\ Cardinality(MsgId \ {m}) = MaxMsg - 1
  BY <1>2, FS_RemoveElement
<1>4. n <= Cardinality(MsgId \ {m}) /\ n \in Nat
  BY <1>1, <1>3, FS_Subset, FS_CardinalityType
<1> HIDE DEF n
<1>5. n \in Nat /\ n <= MaxMsg - 1
  BY <1>3, <1>4
<1>6. n + 1 \in MsgId
  BY <1>5, RelayBounds DEF MsgId
<1> QED BY <1>6, RelayBounds DEF n

\* Every step keeps the types.
LEMMA RelayTypeStep ==
  ASSUME RelayIInv, [RelayNext]_relayVars
  PROVE  RelayTypeOK'
<1> USE DEF RelayTypeOK
<1>1. RelayTypeOK
  BY DEF RelayIInv
<1>2. ASSUME NEW c \in Conn, Accept(c) PROVE RelayTypeOK'
  BY <1>1, <1>2 DEF Accept, Socket, messages, answers
<1>3. ASSUME NEW c \in Conn, Hangup(c) PROVE RelayTypeOK'
  BY <1>1, <1>3 DEF Hangup, Socket, messages, answers
<1>4. ASSUME NEW c \in Conn, RelayShutdown(c) PROVE RelayTypeOK'
  <2>1. CASE CloseEvent(c)
    BY <1>1, <2>1 DEF CloseEvent, Socket, Shutdown, messages, answers
  <2>2. CASE CloseFinancial(c)
    BY <1>1, <2>2 DEF CloseFinancial, Shutdown, messages, answers
  <2>3. CASE FinishShutdown(c)
    BY <1>1, <2>3 DEF FinishShutdown, Shutdown, messages, answers
  <2> QED BY <1>4, <2>1, <2>2, <2>3 DEF RelayShutdown
<1>5. ASSUME NEW c \in Conn, NEW type \in MessageType, NEW trace \in Trace,
             NEW fee \in Fee \cup {0}, Arrive(c, type, trace, fee)
      PROVE  RelayTypeOK'
  <2>1. PICK m \in NextMessage :
          /\ message' =
               [message EXCEPT ![m] =
                  [type |-> type, trace |-> trace, fee |-> fee, storedAt |-> 0,
                   known |-> {k \in MsgId :
                                /\ Stored(k) /\ message[k].type # "reversal"
                                /\ message[k].trace = trace},
                   found |-> 0]]
          /\ Goto(m, "insert")
    BY <1>5 DEF Arrive
  <2> DEFINE new ==
        [type |-> type, trace |-> trace, fee |-> fee, storedAt |-> 0,
         known |-> {k \in MsgId :
                      /\ Stored(k) /\ message[k].type # "reversal"
                      /\ message[k].trace = trace},
         found |-> 0]
  <2>2. new \in Message
    BY DEF Message
  <2> HIDE DEF new
  <2>3. message' = [message EXCEPT ![m] = new] /\ m \in MsgId
    BY <2>1 DEF new, NextMessage
  <2>4. message' \in [MsgId -> Message]
    BY <1>1, <2>2, <2>3
  <2>5. handling' \in [MsgId -> Handling]
    BY <1>1, <2>1 DEF Goto, Handling
  <2>6. UNCHANGED <<connections, answers, stopping, faults>>
    BY <1>5 DEF Arrive
  <2> QED BY <1>1, <2>4, <2>5, <2>6 DEF connections, answers
<1>6. ASSUME NEW m \in MsgId, DataHandler(m) PROVE RelayTypeOK'
  <2>1. ASSUME NEW step \in Handling, Goto(m, step)
        PROVE  handling' \in [MsgId -> Handling]
    BY <1>1, <2>1 DEF Goto
  <2>2. Fault => faults' \in 0..MaxFaults
    BY <1>1, RelayBounds DEF Fault
  <2>3. CASE Insert(m)
    <3>1. Second[Cardinality({k \in MsgId : Stored(k)}) + 1] \in Nat
      BY <1>1, <2>3, SecondOfNext DEF RelayIInv, Insert
    <3>2. message' \in [MsgId -> Message]
      BY <1>1, <2>3, <3>1 DEF Insert, Message
    <3>3. handling' \in [MsgId -> Handling]
      BY <1>1, <2>3 DEF Insert, Goto, Handling
    <3>4. UNCHANGED <<connections, answers, stopping, faults>>
      BY <2>3 DEF Insert
    <3> QED BY <1>1, <3>2, <3>3, <3>4 DEF connections, answers
  <2>4. CASE InsertThrows(m)
    BY <1>1, <2>1, <2>2, <2>4
    DEF InsertThrows, Handling, connections, answers
  <2>5. CASE FindOriginal(m)
    <3>1. PICK k \in Candidates(m) : message' = [message EXCEPT ![m].found = k]
      BY <2>5 DEF FindOriginal
    <3>2. k \in MsgId
      BY DEF Candidates
    <3>3. message' \in [MsgId -> Message]
      BY <1>1, <3>1, <3>2 DEF Message
    <3> QED BY <1>1, <2>1, <2>5, <3>3
            DEF FindOriginal, Handling, connections, answers
  <2>6. CASE Refuse(m)
    BY <1>1, <2>1, <2>2, <2>6 DEF Refuse, Handling, connections, answers
  <2>7. CASE Add(m)
    BY <1>1, <2>1, <2>2, <2>7 DEF Add, Handling, connections, answers
  <2> QED BY <1>6, <2>3, <2>4, <2>5, <2>6, <2>7 DEF DataHandler
<1>7. ASSUME NEW m \in MsgId, NEW response \in {"approved", "invalid"},
             Respond(m, response)
      PROVE  RelayTypeOK'
  <2>1. PICK a \in NextAnswer :
          /\ answer' = [answer EXCEPT ![a] =
                          [about |-> m, response |-> response]]
          /\ waiting' = [waiting EXCEPT ![message[m].type] = @ \cup {a}]
    BY <1>7 DEF Respond
  <2>2. a \in AnswerId
    BY DEF NextAnswer
  <2>3. answer' \in [AnswerId -> Answer]
    BY <1>1, <2>1, <2>2 DEF Answer
  <2>4. waiting' \in [Kind -> SUBSET AnswerId]
    BY <1>1, <2>1, <2>2
  <2> QED BY <1>1, <1>7, <2>3, <2>4 DEF Respond, connections, messages
<1>8. ASSUME NEW c \in Conn, NEW k \in Kind, TakeAnswer(c, k)
      PROVE  RelayTypeOK'
  BY <1>1, <1>8 DEF TakeAnswer, messages
<1>9. ASSUME NEW c \in Conn, NEW k \in Kind, FinishAnswer(c, k)
      PROVE  RelayTypeOK'
  <2>1. job[c][k] \in AnswerId
    BY <1>1, <1>9 DEF FinishAnswer
  <2>2. /\ written' \in SUBSET (Conn \X AnswerId)
        /\ lost' \in SUBSET (Conn \X AnswerId)
    BY <1>1, <1>9, <2>1 DEF FinishAnswer
  <2>3. faults' \in 0..MaxFaults
    BY <1>1, <1>9, RelayBounds DEF FinishAnswer, Fault
  <2>4. job' \in [Conn -> [Kind -> AnswerId \cup {0}]]
    BY <1>1, <1>9 DEF FinishAnswer
  <2> QED BY <1>1, <1>9, <2>2, <2>3, <2>4 DEF FinishAnswer, messages
<1>10. CASE Sigint
  BY <1>1, <1>10 DEF Sigint, Socket, Stopping, messages, answers
<1>11. CASE Stop
  BY <1>1, <1>11 DEF Stop, StopNext, Stopping, connections, messages, answers
<1>12. CASE UNCHANGED relayVars
  BY <1>1, <1>12 DEF relayVars, connections, messages, answers
<1> QED
  BY <1>2, <1>3, <1>4, <1>5, <1>6, <1>7, <1>8, <1>9, <1>10, <1>11, <1>12
  DEF RelayNext

-----------------------------------------------------------------------------
(* Messages. *)

\* A step is a message's, or leaves all messages alone.
LEMMA MessageFrame ==
  ASSUME [RelayNext]_relayVars
  PROVE  \/ UNCHANGED messages
         \/ \E c \in Conn, type \in MessageType, trace \in Trace,
               fee \in Fee \cup {0} : Arrive(c, type, trace, fee)
         \/ \E m \in MsgId : DataHandler(m)
BY DEF RelayNext, relayVars, messages, Accept, Hangup, RelayShutdown,
       CloseEvent, CloseFinancial, FinishShutdown, Respond, TakeAnswer,
       FinishAnswer, Sigint, Stop, StopNext

\* What an advice knew is among what its query can find.
LEMMA KnownAreCandidates ==
  ASSUME RelayTypeOK, RowsStay, NEW m \in MsgId
  PROVE  message[m].known \subseteq Candidates(m)
<1> SUFFICES ASSUME NEW k \in message[m].known PROVE k \in Candidates(m)
  OBVIOUS
<1>1. message[m] \in Message /\ k \in MsgId
  BY DEF RelayTypeOK, Message
<1>2. /\ Stored(k) /\ message[k].type # "reversal"
      /\ message[k].trace = message[m].trace
  BY DEF RowsStay
<1>3. message[m].trace \in Trace \cup {NoTrace}
  BY <1>1 DEF Message
<1>4. Names(OriginalData(message[m].trace), message[m].trace)
  BY <1>3, NamesItself
<1> QED BY <1>1, <1>2, <1>4 DEF Candidates

\* What is stored stays stored as it is.
LEMMA StoredStays ==
  ASSUME RelayIInv, [RelayNext]_relayVars, NEW k \in MsgId, Stored(k)
  PROVE  /\ Stored(k)'
         /\ message'[k].type = message[k].type
         /\ message'[k].trace = message[k].trace
         /\ message'[k].storedAt = message[k].storedAt
<1>1. RelayTypeOK /\ RowsStay
  BY DEF RelayIInv
<1>2. handling[k] \notin {"none", "insert"}
  BY <1>1 DEF RowsStay
<1>3. CASE UNCHANGED messages
  BY <1>3 DEF messages, Stored
<1>4. ASSUME NEW c \in Conn, NEW type \in MessageType, NEW trace \in Trace,
             NEW fee \in Fee \cup {0}, Arrive(c, type, trace, fee)
      PROVE  message'[k] = message[k]
  BY <1>1, <1>2, <1>4 DEF Arrive, NextMessage, RelayTypeOK
<1>5. ASSUME NEW m \in MsgId, DataHandler(m)
      PROVE  /\ message'[k].type = message[k].type
             /\ message'[k].trace = message[k].trace
             /\ message'[k].storedAt = message[k].storedAt
  <2>1. CASE Insert(m)
    <3>1. m # k
      BY <1>2, <2>1 DEF Insert
    <3> QED BY <1>1, <2>1, <3>1 DEF Insert, RelayTypeOK
  <2>2. CASE InsertThrows(m)
    BY <2>2 DEF InsertThrows
  <2>3. CASE FindOriginal(m)
    <3>1. PICK j \in Candidates(m) : message' = [message EXCEPT ![m].found = j]
      BY <2>3 DEF FindOriginal
    <3> QED BY <1>1, <3>1 DEF RelayTypeOK, Message
  <2>4. CASE Refuse(m)
    BY <2>4 DEF Refuse
  <2>5. CASE Add(m)
    BY <2>5 DEF Add
  <2> QED BY <1>5, <2>1, <2>2, <2>3, <2>4, <2>5 DEF DataHandler
<1> QED BY <1>3, <1>4, <1>5, MessageFrame DEF Stored

\* RowsStay, for one message.
RowStays(m) ==
  /\ Stored(m) => handling[m] \notin {"none", "insert"}
  /\ handling[m] # "none" => message[m].type # "none"
  /\ handling[m] = "none" => message[m].known = {} /\ message[m].found = 0
  /\ \A k \in message[m].known :
       /\ Stored(k) /\ message[k].type # "reversal"
       /\ message[k].trace = message[m].trace
  /\ message[m].found # 0 =>
       /\ Stored(message[m].found)
       /\ message[message[m].found].trace.stan = message[m].trace.stan
       /\ \A k \in message[m].known :
            message[k].storedAt <= message[message[m].found].storedAt

\* A message that keeps its row, but for the time it is stored, stays sound.
LEMMA SameRow ==
  ASSUME RelayIInv, [RelayNext]_relayVars, NEW m \in MsgId,
         message'[m].type = message[m].type,
         message'[m].trace = message[m].trace,
         message'[m].known = message[m].known,
         message'[m].found = message[m].found,
         handling'[m] = "none" => handling[m] = "none",
         Stored(m)' => handling'[m] \notin {"none", "insert"},
         handling[m] = "none" => handling'[m] = "none"
  PROVE  RowStays(m)'
<1>1. RelayTypeOK /\ RowsStay
  BY DEF RelayIInv
<1>2. message[m].known \subseteq MsgId /\ message[m].found \in MsgId \cup {0}
  BY <1>1 DEF RelayTypeOK, Message
<1>3. \A k \in MsgId : Stored(k) =>
        /\ Stored(k)'
        /\ message'[k].type = message[k].type
        /\ message'[k].trace = message[k].trace
        /\ message'[k].storedAt = message[k].storedAt
  BY StoredStays
<1>4. \A k \in message[m].known :
        /\ Stored(k) /\ message[k].type # "reversal"
        /\ message[k].trace = message[m].trace
  BY <1>1 DEF RowsStay
<1>5. \A k \in message'[m].known :
        /\ Stored(k)' /\ message'[k].type # "reversal"
        /\ message'[k].trace = message'[m].trace
  BY <1>2, <1>3, <1>4
<1>6. /\ handling'[m] # "none" => message'[m].type # "none"
      /\ handling'[m] = "none" =>
           message'[m].known = {} /\ message'[m].found = 0
  BY <1>1 DEF RowsStay
<1>7. ASSUME message'[m].found # 0
      PROVE  /\ Stored(message[m].found)'
             /\ message'[message'[m].found].trace.stan = message'[m].trace.stan
             /\ \A k \in message'[m].known :
                  message'[k].storedAt <= message'[message'[m].found].storedAt
  <2>1. /\ message[m].found \in MsgId /\ Stored(message[m].found)
        /\ message[message[m].found].trace.stan = message[m].trace.stan
        /\ \A k \in message[m].known :
             message[k].storedAt <= message[message[m].found].storedAt
    BY <1>1, <1>2, <1>7 DEF RowsStay
  <2>2. /\ message'[message[m].found].trace = message[message[m].found].trace
        /\ message'[message[m].found].storedAt
             = message[message[m].found].storedAt
    BY <1>3, <2>1
  <2>3. \A k \in message[m].known : message'[k].storedAt = message[k].storedAt
    BY <1>2, <1>3, <1>4
  <2> QED BY <1>3, <2>1, <2>2, <2>3
<1> QED BY <1>5, <1>6, <1>7 DEF RowStays, Stored

\* No step rewrites what the look-up reads.
LEMMA RowsStayStep ==
  ASSUME RelayIInv, [RelayNext]_relayVars
  PROVE  RowsStay'
<1>1. RelayTypeOK /\ RowsStay
  BY DEF RelayIInv
<1> SUFFICES ASSUME NEW m \in MsgId PROVE RowStays(m)'
  BY DEF RowsStay, RowStays
<1>2. /\ Stored(m) => handling[m] \notin {"none", "insert"}
      /\ message[m] \in Message
  BY <1>1 DEF RowsStay, RelayTypeOK
<1>3. CASE message'[m] = message[m] /\ handling'[m] = handling[m]
  BY <1>2, <1>3, SameRow DEF Stored
<1>4. CASE UNCHANGED messages
  BY <1>3, <1>4 DEF messages
<1>5. ASSUME NEW c \in Conn, NEW type \in MessageType, NEW trace \in Trace,
             NEW fee \in Fee \cup {0}, Arrive(c, type, trace, fee)
      PROVE  RowStays(m)'
  <2>1. PICK n \in NextMessage :
          /\ message' =
               [message EXCEPT ![n] =
                  [type |-> type, trace |-> trace, fee |-> fee, storedAt |-> 0,
                   known |-> {k \in MsgId :
                                /\ Stored(k) /\ message[k].type # "reversal"
                                /\ message[k].trace = trace},
                   found |-> 0]]
          /\ Goto(n, "insert")
    BY <1>5 DEF Arrive
  <2>2. CASE m # n
    BY <1>1, <1>3, <2>1, <2>2 DEF Goto, RelayTypeOK
  <2>3. CASE m = n
    <3>1. /\ message'[m].type = type /\ message'[m].trace = trace
          /\ message'[m].storedAt = 0 /\ message'[m].found = 0
          /\ message'[m].known =
               {k \in MsgId : /\ Stored(k) /\ message[k].type # "reversal"
                              /\ message[k].trace = trace}
          /\ handling'[m] = "insert"
      BY <1>1, <2>1, <2>3 DEF Goto, RelayTypeOK
    <3>2. type # "none"
      BY DEF MessageType, Kind
    <3>3. \A k \in message'[m].known :
            /\ Stored(k)' /\ message'[k].type # "reversal"
            /\ message'[k].trace = message'[m].trace
      BY <3>1, StoredStays
    <3> QED BY <3>1, <3>2, <3>3 DEF RowStays, Stored
  <2> QED BY <2>2, <2>3
<1>6. ASSUME NEW n \in MsgId, DataHandler(n) PROVE RowStays(m)'
  <2>1. CASE m # n
    BY <1>1, <1>3, <1>6, <2>1
    DEF DataHandler, Insert, InsertThrows, FindOriginal, Refuse, Add, Goto,
        RelayTypeOK
  <2>2. CASE m = n /\ Insert(m)
    <3>1. /\ message'[m].type = message[m].type
          /\ message'[m].trace = message[m].trace
          /\ message'[m].known = message[m].known
          /\ message'[m].found = message[m].found
          /\ handling'[m] \in {"failed", "find", "add"}
          /\ handling[m] = "insert"
      BY <1>1, <2>2 DEF Insert, Goto, RelayTypeOK, Message
    <3> QED BY <3>1, SameRow
  <2>3. CASE m = n /\ (InsertThrows(m) \/ Refuse(m) \/ Add(m))
    <3>1. /\ message'[m] = message[m]
          /\ handling'[m] \in {"failed", "refused", "queued"}
          /\ handling[m] # "none"
      BY <1>1, <2>3 DEF InsertThrows, Refuse, Add, Goto, RelayTypeOK
    <3> QED BY <1>2, <3>1, SameRow
  <2>4. CASE m = n /\ FindOriginal(m)
    <3>1. PICK k \in Candidates(m) :
            /\ \A j \in Candidates(m) :
                 message[j].storedAt <= message[k].storedAt
            /\ message' = [message EXCEPT ![m].found = k]
      BY <2>4 DEF FindOriginal
    <3>2. /\ k \in MsgId /\ Stored(k)
          /\ Names(OriginalData(message[m].trace), message[k].trace)
      BY DEF Candidates
    <3>3. message[k].trace.stan = message[m].trace.stan
      BY <3>2 DEF Names, OriginalData
    <3>4. \A j \in message[m].known : message[j].storedAt <= message[k].storedAt
      BY <1>1, <3>1, KnownAreCandidates
    <3>5. /\ message'[m].type = message[m].type
          /\ message'[m].trace = message[m].trace
          /\ message'[m].known = message[m].known
          /\ message'[m].found = k
      BY <1>1, <3>1 DEF RelayTypeOK, Message
    <3>6. handling[m] = "find" /\ handling'[m] = "add"
      BY <1>1, <2>4 DEF FindOriginal, Goto, RelayTypeOK
    <3>7. \A j \in MsgId : Stored(j) =>
            /\ Stored(j)'
            /\ message'[j].type = message[j].type
            /\ message'[j].trace = message[j].trace
            /\ message'[j].storedAt = message[j].storedAt
      BY StoredStays
    <3>8. \A j \in message[m].known :
            /\ j \in MsgId /\ Stored(j) /\ message[j].type # "reversal"
            /\ message[j].trace = message[m].trace
      BY <1>1, <1>2 DEF RowsStay, Message
    <3>9. message[m].type # "none"
      BY <1>1, <3>6 DEF RowsStay
    <3>10. \A j \in message'[m].known :
             /\ Stored(j)' /\ message'[j].type # "reversal"
             /\ message'[j].trace = message'[m].trace
      BY <3>5, <3>7, <3>8
    <3>11. /\ Stored(k)'
           /\ message'[k].trace.stan = message'[m].trace.stan
           /\ \A j \in message'[m].known :
                message'[j].storedAt <= message'[k].storedAt
      BY <3>2, <3>3, <3>4, <3>5, <3>7, <3>8
    <3> QED BY <3>5, <3>6, <3>9, <3>10, <3>11 DEF RowStays, Stored
  <2> QED BY <1>6, <2>1, <2>2, <2>3, <2>4 DEF DataHandler
<1> QED BY <1>4, <1>5, <1>6, MessageFrame

\* Faults are only used up.
LEMMA FaultFrame ==
  ASSUME [RelayNext]_relayVars
  PROVE  faults' \in {faults, faults - 1}
BY DEF RelayNext, relayVars, Accept, Hangup, RelayShutdown, CloseEvent,
       CloseFinancial, FinishShutdown, Arrive, DataHandler, Insert,
       InsertThrows, FindOriginal, Refuse, Add, Respond, TakeAnswer,
       FinishAnswer, Fault, Sigint, Stop, StopNext

\* An advice that is refused knew no message.
LEMMA RefusedStep ==
  ASSUME RelayIInv, [RelayNext]_relayVars
  PROVE  RefusedOnlyUnknown'
<1>1. RelayTypeOK /\ RowsStay /\ RefusedOnlyUnknown
  BY DEF RelayIInv
<1> SUFFICES ASSUME Undisturbed', DatabaseUp', NEW m \in MsgId,
                    handling'[m] = "refused"
             PROVE  message'[m].known = {}
  BY DEF RefusedOnlyUnknown
<1>2. Undisturbed /\ UNCHANGED faults
  <2>1. faults' \in {faults, faults - 1}
    BY FaultFrame
  <2>2. faults \in 0..MaxFaults
    BY <1>1 DEF RelayTypeOK
  <2> QED BY <2>1, <2>2, RelayBounds DEF Undisturbed
<1>3. DatabaseUp
  BY DEF DatabaseUp, RelayNext, relayVars, Accept, Hangup,
      RelayShutdown, CloseEvent, CloseFinancial, FinishShutdown, Arrive,
      DataHandler, Insert, InsertThrows, FindOriginal, Refuse, Add, Respond,
      TakeAnswer, FinishAnswer, Sigint, Stop, StopNext
<1>4. CASE message'[m] = message[m] /\ handling'[m] = handling[m]
  BY <1>1, <1>2, <1>3, <1>4 DEF RefusedOnlyUnknown
<1>5. CASE UNCHANGED messages
  BY <1>4, <1>5 DEF messages
<1>6. ASSUME NEW c \in Conn, NEW type \in MessageType, NEW trace \in Trace,
             NEW fee \in Fee \cup {0}, Arrive(c, type, trace, fee)
      PROVE  message'[m].known = {}
  <2>1. PICK n \in NextMessage : \E new : message' = [message EXCEPT ![n] = new]
                                           /\ Goto(n, "insert")
    BY <1>6 DEF Arrive
  <2>2. m # n
    BY <1>1, <2>1 DEF Goto, RelayTypeOK
  <2> QED BY <1>1, <1>4, <2>1, <2>2 DEF Goto, RelayTypeOK
<1>7. ASSUME NEW n \in MsgId, DataHandler(n) PROVE message'[m].known = {}
  <2>1. CASE m # n
    BY <1>1, <1>4, <1>7, <2>1
    DEF DataHandler, Insert, InsertThrows, FindOriginal, Refuse, Add, Goto,
        RelayTypeOK
  <2>2. CASE m = n
    <3>1. Refuse(m)
      BY <1>1, <1>7, <2>2
      DEF DataHandler, Insert, InsertThrows, FindOriginal, Add, Goto,
          RelayTypeOK
    <3>2. Candidates(m) = {} /\ UNCHANGED message
      BY <1>1, <1>2, <1>3, <3>1, RelayBounds DEF Refuse, Fault, RelayTypeOK
    <3> QED BY <1>1, <3>2, KnownAreCandidates
  <2> QED BY <2>1, <2>2
<1> QED BY <1>5, <1>6, <1>7, MessageFrame

-----------------------------------------------------------------------------
(* Answers and connections. *)

\* A step gives, takes or writes an answer, or leaves all answers where they
\* are.
LEMMA AnswerFrame ==
  ASSUME [RelayNext]_relayVars
  PROVE  \/ UNCHANGED <<answers, job>>
         \/ \E m \in MsgId, response \in {"approved", "invalid"} :
              Respond(m, response)
         \/ \E c \in Conn, k \in Kind : TakeAnswer(c, k) \/ FinishAnswer(c, k)
BY DEF RelayNext, relayVars, connections, answers, Accept, Hangup,
       RelayShutdown, CloseEvent, CloseFinancial, FinishShutdown, Arrive,
       DataHandler, Insert, InsertThrows, FindOriginal, Refuse, Add, Sigint,
       Stop, StopNext

\* An answer is given about a message, and stays about it.
LEMMA AnswersGivenStep ==
  ASSUME RelayIInv, [RelayNext]_relayVars
  PROVE  AnswersGiven'
<1>1. RelayTypeOK /\ AnswersGiven
  BY DEF RelayIInv
<1>2. ASSUME UNCHANGED answer PROVE AnswersGiven'
  BY <1>1, <1>2 DEF AnswersGiven
<1>3. ASSUME NEW m \in MsgId, NEW response \in {"approved", "invalid"},
             Respond(m, response)
      PROVE  AnswersGiven'
  <2>1. PICK b \in NextAnswer :
          answer' = [answer EXCEPT ![b] = [about |-> m, response |-> response]]
    BY <1>3 DEF Respond
  <2>2. answer \in [AnswerId -> Answer]
    BY <1>1 DEF RelayTypeOK
  <2> QED BY <1>1, <2>1, <2>2 DEF AnswersGiven
<1>4. ASSUME NEW c \in Conn, NEW k \in Kind,
             TakeAnswer(c, k) \/ FinishAnswer(c, k)
      PROVE  UNCHANGED answer
  BY <1>4 DEF TakeAnswer, FinishAnswer, answers
<1>5. UNCHANGED answers => UNCHANGED answer
  BY DEF answers
<1> QED BY <1>2, <1>3, <1>4, <1>5, AnswerFrame

\* An answer is in one place: on one queue, with one worker, or out.
LEMMA OnePlaceStep ==
  ASSUME RelayIInv, [RelayNext]_relayVars
  PROVE  OnePlace'
<1>1. RelayTypeOK /\ OnePlace
  BY DEF RelayIInv
<1>2. CASE UNCHANGED <<answers, job>>
  BY <1>1, <1>2 DEF answers, OnePlace, Out, AnsweredOnce
<1>3. ASSUME NEW m \in MsgId, NEW response \in {"approved", "invalid"},
             Respond(m, response)
      PROVE  OnePlace'
  <2>1. PICK a \in NextAnswer :
          /\ answer' = [answer EXCEPT ![a] =
                          [about |-> m, response |-> response]]
          /\ waiting' = [waiting EXCEPT ![message[m].type] = @ \cup {a}]
    BY <1>3 DEF Respond
  <2>2. UNCHANGED <<job, written, lost>>
    BY <1>3 DEF Respond, connections
  <2>3. a \in AnswerId /\ answer[a] = NoAnswer
    BY DEF NextAnswer
  <2>4. [about |-> m, response |-> response] # NoAnswer
    BY RelayBounds DEF NoAnswer, MsgId
  <2>5. \A b \in AnswerId : answer[b] # NoAnswer => answer'[b] # NoAnswer
    BY <1>1, <2>1, <2>4 DEF RelayTypeOK
  <2>6. answer'[a] # NoAnswer
    BY <1>1, <2>1, <2>3, <2>4 DEF RelayTypeOK
  <2>7. \A k \in Kind : a \notin waiting[k]
    BY <1>1, <2>3 DEF OnePlace
  <2>8. \A c \in Conn, k \in Kind : job[c][k] # a
    BY <1>1, <2>3 DEF OnePlace, AnswerId
  <2>9. \A c \in Conn : <<c, a>> \notin Out
    BY <1>1, <2>3 DEF OnePlace
  <2> DEFINE type == message[m].type
  <2>10. \A k \in Kind, b \in AnswerId :
           b \in waiting'[k] => b \in waiting[k] \/ (b = a /\ k = type)
    BY <1>1, <2>1 DEF RelayTypeOK
  <2> HIDE DEF type
  <2>11. AnsweredOnce' /\ Out' = Out
    BY <1>1, <2>2 DEF OnePlace, Out, AnsweredOnce
  <2>12. ASSUME NEW b \in AnswerId, NEW j \in Kind, b \in waiting'[j]
         PROVE  /\ answer'[b] # NoAnswer
                /\ \A i \in Kind : b \in waiting'[i] => i = j
                /\ \A d \in Conn : /\ <<d, b>> \notin Out'
                                    /\ \A i \in Kind : job'[d][i] # b
    <3>1. CASE b = a
      BY <2>2, <2>6, <2>7, <2>8, <2>9, <2>10, <2>11, <2>12, <3>1
    <3>2. CASE b # a
      BY <1>1, <2>2, <2>5, <2>10, <2>11, <2>12, <3>2 DEF OnePlace
    <3> QED BY <3>1, <3>2
  <2>13. ASSUME NEW d \in Conn, NEW j \in Kind, job'[d][j] # 0
         PROVE  /\ answer'[job'[d][j]] # NoAnswer
                /\ \A e \in Conn : <<e, job'[d][j]>> \notin Out'
                /\ \A e \in Conn, i \in Kind :
                     job'[e][i] = job'[d][j] => e = d /\ i = j
    <3>1. job[d][j] \in AnswerId
      BY <1>1, <2>2, <2>13 DEF RelayTypeOK
    <3> QED BY <1>1, <2>2, <2>5, <2>11, <2>13, <3>1 DEF OnePlace
  <2>14. \A d \in Conn, b \in AnswerId :
          <<d, b>> \in Out' => answer'[b] # NoAnswer
    BY <1>1, <2>5, <2>11 DEF OnePlace
  <2> QED BY <2>11, <2>12, <2>13, <2>14 DEF OnePlace
<1>4. ASSUME NEW c \in Conn, NEW k \in Kind, TakeAnswer(c, k) PROVE OnePlace'
  <2>1. PICK a \in waiting[k] :
          /\ waiting' = [waiting EXCEPT ![k] = @ \ {a}]
          /\ job' = [job EXCEPT ![c][k] = a]
    BY <1>4 DEF TakeAnswer
  <2>2. UNCHANGED <<answer, written, lost>>
    BY <1>4 DEF TakeAnswer
  <2>3. /\ a \in AnswerId /\ answer[a] # NoAnswer
        /\ \A d \in Conn : <<d, a>> \notin Out /\ \A j \in Kind : job[d][j] # a
        /\ \A j \in Kind : a \in waiting[j] => j = k
    BY <1>1 DEF OnePlace, RelayTypeOK
  <2>4. \A d \in Conn, j \in Kind :
          job'[d][j] = IF d = c /\ j = k THEN a ELSE job[d][j]
    BY <1>1, <2>1 DEF RelayTypeOK
  <2>5. /\ \A j \in Kind, b \in AnswerId :
             b \in waiting'[j] => b \in waiting[j] /\ b # a
        /\ waiting' \in [Kind -> SUBSET AnswerId]
    BY <1>1, <2>1, <2>3 DEF RelayTypeOK
  <2>6. AnsweredOnce' /\ Out' = Out
    BY <1>1, <2>2 DEF OnePlace, Out, AnsweredOnce
  <2>7. ASSUME NEW b \in AnswerId, NEW j \in Kind, b \in waiting'[j]
        PROVE  /\ answer'[b] # NoAnswer
               /\ \A i \in Kind : b \in waiting'[i] => i = j
               /\ \A d \in Conn : /\ <<d, b>> \notin Out'
                                   /\ \A i \in Kind : job'[d][i] # b
    BY <1>1, <2>2, <2>4, <2>5, <2>6, <2>7 DEF OnePlace
  <2>8. ASSUME NEW d \in Conn, NEW j \in Kind, job'[d][j] # 0
        PROVE  /\ answer'[job'[d][j]] # NoAnswer
               /\ \A e \in Conn : <<e, job'[d][j]>> \notin Out'
               /\ \A e \in Conn, i \in Kind :
                    job'[e][i] = job'[d][j] => e = d /\ i = j
    <3>1. CASE d = c /\ j = k
      BY <2>2, <2>3, <2>4, <2>6, <3>1
    <3>2. CASE ~(d = c /\ j = k)
      <4>1. job'[d][j] = job[d][j] /\ job[d][j] # a
        BY <2>3, <2>4, <3>2
      <4>2. /\ answer[job[d][j]] # NoAnswer
            /\ \A e \in Conn : <<e, job[d][j]>> \notin Out
            /\ \A e \in Conn, i \in Kind :
                 job[e][i] = job[d][j] => e = d /\ i = j
        BY <1>1, <2>8, <4>1 DEF OnePlace
      <4> QED BY <2>2, <2>4, <2>6, <4>1, <4>2
    <3> QED BY <3>1, <3>2
  <2>9. \A d \in Conn, b \in AnswerId :
          <<d, b>> \in Out' => answer'[b] # NoAnswer
    BY <1>1, <2>2, <2>6 DEF OnePlace
  <2> QED BY <2>6, <2>7, <2>8, <2>9 DEF OnePlace
<1>5. ASSUME NEW c \in Conn, NEW k \in Kind, FinishAnswer(c, k)
      PROVE  OnePlace'
  <2> DEFINE a == job[c][k]
  <2>1. /\ a \in AnswerId /\ a # 0 /\ answer[a] # NoAnswer
        /\ \A d \in Conn : <<d, a>> \notin Out
        /\ \A d \in Conn, j \in Kind : job[d][j] = a => d = c /\ j = k
        /\ \A j \in Kind : a \notin waiting[j]
    <3>1. a \in AnswerId /\ a # 0
      BY <1>1, <1>5 DEF FinishAnswer, RelayTypeOK
    <3>2. /\ answer[a] # NoAnswer
          /\ \A d \in Conn : <<d, a>> \notin Out
          /\ \A d \in Conn, j \in Kind : job[d][j] = a => d = c /\ j = k
      BY <1>1, <3>1 DEF OnePlace
    <3>3. \A j \in Kind : a \notin waiting[j]
      BY <1>1, <3>1 DEF OnePlace
    <3> QED BY <3>1, <3>2, <3>3
  <2>2. \/ written' = written \cup {<<c, a>>} /\ lost' = lost
        \/ written' = written /\ lost' = lost \cup {<<c, a>>}
    BY <1>5 DEF FinishAnswer
  <2>3. /\ UNCHANGED <<answer, waiting>>
        /\ job' = [job EXCEPT ![c][k] = 0]
    BY <1>5 DEF FinishAnswer
  <2>4. \A d \in Conn, j \in Kind :
          job'[d][j] = IF d = c /\ j = k THEN 0 ELSE job[d][j]
    BY <1>1, <2>3 DEF RelayTypeOK
  <2> HIDE DEF a
  <2>5. Out' = Out \cup {<<c, a>>}
    BY <2>2 DEF Out
  <2>6. AnsweredOnce'
    <3>1. \A d \in Conn : <<d, a>> \notin written /\ <<d, a>> \notin lost
      BY <2>1 DEF Out
    <3>2. AnsweredOnce
      BY <1>1 DEF OnePlace
    <3>3. CASE written' = written \cup {<<c, a>>} /\ lost' = lost
      BY <3>1, <3>2, <3>3 DEF AnsweredOnce
    <3>4. CASE written' = written /\ lost' = lost \cup {<<c, a>>}
      BY <3>1, <3>2, <3>4 DEF AnsweredOnce
    <3> QED BY <2>2, <3>3, <3>4
  <2>7. \A d \in Conn, b \in AnswerId :
          <<d, b>> \in Out' => <<d, b>> \in Out \/ b = a
    BY <2>5
  <2>8. ASSUME NEW b \in AnswerId, NEW j \in Kind, b \in waiting'[j]
        PROVE  /\ answer'[b] # NoAnswer
               /\ \A i \in Kind : b \in waiting'[i] => i = j
               /\ \A d \in Conn : /\ <<d, b>> \notin Out'
                                   /\ \A i \in Kind : job'[d][i] # b
    <3>1. /\ b # a /\ b # 0 /\ answer[b] # NoAnswer
          /\ \A i \in Kind : b \in waiting[i] => i = j
          /\ \A d \in Conn : /\ <<d, b>> \notin Out
                              /\ \A i \in Kind : job[d][i] # b
      BY <1>1, <2>1, <2>3, <2>8 DEF OnePlace, AnswerId
    <3> QED BY <2>3, <2>4, <2>7, <3>1
  <2>9. ASSUME NEW d \in Conn, NEW j \in Kind, job'[d][j] # 0
        PROVE  /\ answer'[job'[d][j]] # NoAnswer
               /\ \A e \in Conn : <<e, job'[d][j]>> \notin Out'
               /\ \A e \in Conn, i \in Kind :
                    job'[e][i] = job'[d][j] => e = d /\ i = j
    <3>1. job'[d][j] = job[d][j] /\ ~(d = c /\ j = k)
      BY <2>4, <2>9
    <3>2. /\ job[d][j] \in AnswerId /\ job[d][j] # a
      BY <1>1, <2>1, <2>9, <3>1 DEF RelayTypeOK
    <3>3. /\ answer[job[d][j]] # NoAnswer
          /\ \A e \in Conn : <<e, job[d][j]>> \notin Out
          /\ \A e \in Conn, i \in Kind :
               job[e][i] = job[d][j] => e = d /\ i = j
      BY <1>1, <2>9, <3>1 DEF OnePlace
    <3> QED BY <2>3, <2>4, <2>7, <2>9, <3>1, <3>2, <3>3
  <2>10. \A d \in Conn, b \in AnswerId :
          <<d, b>> \in Out' => answer'[b] # NoAnswer
    BY <1>1, <2>1, <2>3, <2>7 DEF OnePlace
  <2> QED BY <2>6, <2>8, <2>9, <2>10 DEF OnePlace
<1> QED BY <1>2, <1>3, <1>4, <1>5, AnswerFrame

\* WorkersClosed, for one connection.
Closed(c) ==
  /\ socket[c] = "none" =>
       shutdown[c] = "no" /\ \A k \in Kind : job[c][k] = 0
  /\ socket[c] = "none" => accepting[c] = {}
  /\ shutdown[c] # "no" => "authorization" \notin accepting[c]
  /\ shutdown[c] \in {"financial", "done"} =>
       "financial" \notin accepting[c] /\ job[c]["authorization"] = 0
  /\ shutdown[c] = "done" => job[c]["financial"] = 0
  /\ stopping # "no" => socket[c] # "open"

\* Workers that are closed stay closed.
LEMMA WorkersClosedStep ==
  ASSUME RelayIInv, [RelayNext]_relayVars
  PROVE  WorkersClosed'
<1> SUFFICES ASSUME NEW c \in Conn PROVE Closed(c)'
  BY DEF WorkersClosed, Closed
<1>1. RelayTypeOK /\ Closed(c)
  BY DEF RelayIInv, WorkersClosed, Closed
<1>2. CASE /\ UNCHANGED stopping
           /\ socket'[c] = socket[c] /\ accepting'[c] = accepting[c]
           /\ job'[c] = job[c] /\ shutdown'[c] = shutdown[c]
  BY <1>1, <1>2 DEF Closed
<1>3. CASE UNCHANGED <<connections, stopping>>
  BY <1>2, <1>3 DEF connections
<1>4. ASSUME NEW d \in Conn, Accept(d) PROVE Closed(c)'
  <2>1. CASE c = d
    BY <1>1, <1>4, <2>1 DEF Accept, Closed, RelayTypeOK
  <2>2. CASE c # d
    BY <1>1, <1>2, <1>4, <2>2 DEF Accept, RelayTypeOK
  <2> QED BY <2>1, <2>2
<1>5. ASSUME NEW d \in Conn, Hangup(d) PROVE Closed(c)'
  <2>1. CASE c = d
    BY <1>1, <1>5, <2>1 DEF Hangup, Closed, RelayTypeOK
  <2>2. CASE c # d
    BY <1>1, <1>2, <1>5, <2>2 DEF Hangup, RelayTypeOK
  <2> QED BY <2>1, <2>2
<1>6. ASSUME NEW d \in Conn, RelayShutdown(d) PROVE Closed(c)'
  <2>1. CASE c = d /\ CloseEvent(d)
    BY <1>1, <2>1 DEF CloseEvent, Closed, RelayTypeOK
  <2>2. CASE c = d /\ CloseFinancial(d)
    BY <1>1, <2>2 DEF CloseFinancial, Closed, RelayTypeOK
  <2>3. CASE c = d /\ FinishShutdown(d)
    BY <1>1, <2>3 DEF FinishShutdown, Closed, RelayTypeOK
  <2>4. CASE c # d
    BY <1>1, <1>2, <1>6, <2>4
    DEF RelayShutdown, CloseEvent, CloseFinancial, FinishShutdown, RelayTypeOK
  <2> QED BY <1>6, <2>1, <2>2, <2>3, <2>4 DEF RelayShutdown
<1>7. ASSUME NEW d \in Conn, NEW k \in Kind, TakeAnswer(d, k)
      PROVE  Closed(c)'
  <2>1. PICK a \in waiting[k] : job' = [job EXCEPT ![d][k] = a]
    BY <1>7 DEF TakeAnswer
  <2>2. /\ k \in accepting[d]
        /\ UNCHANGED <<socket, accepting, shutdown, stopping>>
    BY <1>7 DEF TakeAnswer
  <2>3. CASE c # d
    BY <1>1, <1>2, <2>1, <2>2, <2>3 DEF RelayTypeOK
  <2>4. CASE c = d
    <3>1. \A j \in Kind : j # k => job'[c][j] = job[c][j]
      BY <1>1, <2>1, <2>4 DEF RelayTypeOK
    <3> QED BY <1>1, <2>2, <2>4, <3>1 DEF Closed, Kind
  <2> QED BY <2>3, <2>4
<1>8. ASSUME NEW d \in Conn, NEW k \in Kind, FinishAnswer(d, k)
      PROVE  Closed(c)'
  <2>1. /\ job' = [job EXCEPT ![d][k] = 0]
        /\ UNCHANGED <<socket, accepting, shutdown, stopping>>
    BY <1>8 DEF FinishAnswer
  <2>2. \A j \in Kind : job'[c][j] \in {job[c][j], 0}
    BY <1>1, <2>1 DEF RelayTypeOK
  <2> QED BY <1>1, <2>1, <2>2 DEF Closed, Kind
<1>9. CASE Sigint
  BY <1>1, <1>9 DEF Sigint, Closed, RelayTypeOK
<1>10. CASE Stop
  BY <1>1, <1>10 DEF Stop, StopNext, connections, Closed
<1>11. ASSUME NEW m \in MsgId, DataHandler(m) PROVE Closed(c)'
  BY <1>3, <1>11
  DEF DataHandler, Insert, InsertThrows, FindOriginal, Refuse, Add
<1> QED
  BY <1>3, <1>4, <1>5, <1>6, <1>7, <1>8, <1>9, <1>10, <1>11
  DEF RelayNext, relayVars, Arrive, Respond

\* Only a connection that is gone, or whose await throws, loses an answer.
LEMMA LostStep ==
  ASSUME RelayIInv, [RelayNext]_relayVars
  PROVE  LostOnlyUnheard'
<1>1. RelayTypeOK /\ OnePlace /\ WorkersClosed /\ LostOnlyUnheard
  BY DEF RelayIInv
<1> SUFFICES ASSUME Undisturbed', NEW a \in AnswerId, NEW c \in Conn,
                    <<c, a>> \in lost'
             PROVE  socket'[c] \in {"destroyed", "closed"}
  BY DEF LostOnlyUnheard
<1>2. Undisturbed /\ UNCHANGED faults
  <2>1. faults' \in {faults, faults - 1}
    BY FaultFrame
  <2>2. faults \in 0..MaxFaults
    BY <1>1 DEF RelayTypeOK
  <2> QED BY <2>1, <2>2, RelayBounds DEF Undisturbed
<1>3. CASE <<c, a>> \in lost
  <2>1. socket[c] \in {"destroyed", "closed"}
    BY <1>1, <1>2, <1>3 DEF LostOnlyUnheard
  <2>2. ASSUME NEW d \in Conn, RelayShutdown(d)
        PROVE  socket'[c] \in {"destroyed", "closed"}
    BY <1>1, <2>1, <2>2
    DEF RelayShutdown, CloseEvent, CloseFinancial, FinishShutdown, RelayTypeOK
  <2>3. ASSUME NEW d \in Conn, Accept(d) \/ Hangup(d)
        PROVE  socket'[c] \in {"destroyed", "closed"}
    BY <1>1, <2>1, <2>3 DEF Accept, Hangup, RelayTypeOK
  <2>4. ASSUME NEW m \in MsgId, DataHandler(m) PROVE UNCHANGED socket
    BY <2>4
    DEF DataHandler, Insert, InsertThrows, FindOriginal, Refuse, Add,
        connections
  <2>5. CASE Sigint
    BY <1>1, <2>1, <2>5 DEF Sigint, RelayTypeOK
  <2> QED
    BY <2>1, <2>2, <2>3, <2>4, <2>5
    DEF RelayNext, relayVars, connections, Arrive, Respond, TakeAnswer,
        FinishAnswer, Stop, StopNext
<1>4. CASE <<c, a>> \notin lost
  <2>1. ~UNCHANGED <<answers, job>>
    BY <1>4 DEF answers
  <2>2. ASSUME NEW m \in MsgId, NEW response \in {"approved", "invalid"},
               Respond(m, response)
        PROVE  FALSE
    BY <1>4, <2>2 DEF Respond
  <2>3. ASSUME NEW d \in Conn, NEW k \in Kind, TakeAnswer(d, k) PROVE FALSE
    BY <1>4, <2>3 DEF TakeAnswer
  <2>4. PICK d \in Conn, k \in Kind : FinishAnswer(d, k)
    BY <2>1, <2>2, <2>3, AnswerFrame
  <2>5. /\ d = c /\ job[c][k] # 0
        /\ socket[c] # "open" \/ ~DatabaseUp
        /\ UNCHANGED socket
    BY <1>1, <1>2, <1>4, <2>4, RelayBounds
    DEF FinishAnswer, Fault, RelayTypeOK
  <2>6. socket[c] # "open" /\ socket[c] # "none"
    BY <1>1, <2>5 DEF WorkersClosed, DatabaseUp
  <2> QED BY <1>1, <2>5, <2>6 DEF RelayTypeOK, Socket
<1> QED BY <1>3, <1>4

-----------------------------------------------------------------------------
(* Theorems. *)

\* Every step of the relay keeps the invariant.
LEMMA RelayStep ==
  ASSUME RelayIInv, [RelayNext]_relayVars
  PROVE  RelayIInv'
BY RelayTypeStep, OnePlaceStep, AnswersGivenStep, WorkersClosedStep,
   RowsStayStep, LostStep, RefusedStep
DEF RelayIInv

\* The invariant is inductive: every state of the relay satisfies it.
THEOREM RelayInvariant == RelaySpec => []RelayIInv
<1>1. RelayInit => RelayIInv
  BY RelayInitial
<1>2. RelayIInv /\ [RelayNext]_relayVars => RelayIInv'
  BY RelayStep
<1> QED BY <1>1, <1>2, PTL DEF RelaySpec

\* Connections, messages and answers are where the handlers of the relay put
\* them, for any number of each.
THEOREM RelayTypes == RelaySpec => []RelayTypeOK
<1>1. RelayIInv => RelayTypeOK
  BY DEF RelayIInv
<1> QED BY <1>1, RelayInvariant, PTL

\* The workers of all connections share their queues, and yet each answer is
\* written to one connection at most.
THEOREM AnswersGoOut == RelaySpec => []AnsweredOnce
<1>1. RelayIInv => AnsweredOnce
  BY DEF RelayIInv, OnePlace
<1> QED BY <1>1, RelayInvariant, PTL

\* Without faults only a connection that is gone loses an answer: SIGINT takes
\* down what a worker needs after the sockets.
THEOREM AnswersAreNotLost == RelaySpec => []LostOnlyUnheard
<1>1. RelayIInv => LostOnlyUnheard
  BY DEF RelayIInv
<1> QED BY <1>1, RelayInvariant, PTL

\* Without faults an advice is refused only if its message was unknown.
THEOREM AdviceIsRefused == RelaySpec => []RefusedOnlyUnknown
<1>1. RelayIInv => RefusedOnlyUnknown
  BY DEF RelayIInv
<1> QED BY <1>1, RelayInvariant, PTL

\* An advice goes on with a message it names, the latest it could.
THEOREM AdviceIsPassedOn == RelaySpec => []AdviceFindsItsMessage
<1>1. RelayIInv => AdviceFindsItsMessage
  <2> SUFFICES ASSUME RelayIInv, ~Ambiguous, NEW m \in MsgId,
                      message[m].found # 0
               PROVE  /\ message[message[m].found].trace = message[m].trace
                      /\ \A k \in message[m].known :
                           message[k].storedAt
                             <= message[message[m].found].storedAt
    BY DEF AdviceFindsItsMessage
  <2>1. RelayTypeOK /\ RowsStay
    BY DEF RelayIInv
  <2>2. message[m].found \in MsgId
    BY <2>1 DEF RelayTypeOK, Message
  <2>3. /\ Stored(message[m].found)
        /\ message[message[m].found].trace.stan = message[m].trace.stan
        /\ \A k \in message[m].known :
             message[k].storedAt <= message[message[m].found].storedAt
    BY <2>1 DEF RowsStay
  <2>4. message[m].type # "none" /\ message[message[m].found].type # "none"
    BY <2>1, <2>2, <2>3 DEF RowsStay
  <2> QED BY <2>2, <2>3, <2>4 DEF Ambiguous
<1> QED BY <1>1, RelayInvariant, PTL

\* A relay that has been shut down takes answers to reversal advices only,
\* since the workers of the other two queues are closed by then.
THEOREM ClosedRelaysAreQuiet == RelaySpec => ClosedTakesOnlyReversals
<1>1. ASSUME RelayIInv, [RelayNext]_relayVars
      PROVE  [\A c \in Conn, k \in Kind :
                shutdown[c] = "done" /\ job'[c][k] # job[c][k]
                  => k = "reversal"]_relayVars
  <2>1. RelayTypeOK /\ WorkersClosed
    BY <1>1 DEF RelayIInv
  <2> SUFFICES ASSUME NEW c \in Conn, NEW k \in Kind, shutdown[c] = "done",
                      job'[c][k] # job[c][k]
               PROVE  k = "reversal"
    OBVIOUS
  <2>2. /\ "authorization" \notin accepting[c] /\ job[c]["authorization"] = 0
        /\ "financial" \notin accepting[c] /\ job[c]["financial"] = 0
    BY <2>1 DEF WorkersClosed
  <2>3. ~UNCHANGED <<answers, job>>
    OBVIOUS
  <2>4. ASSUME NEW m \in MsgId, NEW response \in {"approved", "invalid"},
               Respond(m, response)
        PROVE  FALSE
    BY <2>4 DEF Respond, connections
  <2>5. PICK d \in Conn, j \in Kind : TakeAnswer(d, j) \/ FinishAnswer(d, j)
    BY <1>1, <2>3, <2>4, AnswerFrame
  <2>6. d = c /\ j = k
    BY <2>1, <2>5 DEF TakeAnswer, FinishAnswer, RelayTypeOK
  <2> QED BY <2>2, <2>5, <2>6 DEF TakeAnswer, FinishAnswer, Kind
<1> QED BY <1>1, RelayInvariant, PTL DEF RelaySpec, ClosedTakesOnlyReversals

\* Every fee that is shown is right (mapToAuthorizationResponse).
THEOREM FeesAreShown == RelaySpec => []FeeIsShown
<1>1. RelayIInv => FeeIsShown
  <2> SUFFICES ASSUME RelayIInv,
                      NEW a \in AnswerId, NEW c \in Conn,
                      <<c, a>> \in written, KindOf(a) = "authorization",
                      answer[a].response = "approved"
               PROVE  LET m == answer[a].about IN
                      /\ Number(ShownFee(m)) = message[m].fee + AdaptorFee
                      /\ Len(ShownFee(m)) = 8
    BY DEF FeeIsShown
  <2> DEFINE m == answer[a].about
  <2>1. message[m].fee \in Fee \cup {0}
    <3>1. RelayTypeOK /\ AnswersGiven
      BY DEF RelayIInv
    <3>2. answer[a] # NoAnswer
      BY DEF NoAnswer
    <3>3. m \in MsgId
      BY <3>1, <3>2 DEF AnswersGiven
    <3>4. message[m] \in Message
      BY <3>1, <3>3 DEF RelayTypeOK
    <3> QED BY <3>4 DEF Message
  <2> HIDE DEF m
  <2>2. /\ Number(ShownFee(m)) = message[m].fee + AdaptorFee
        /\ Len(ShownFee(m)) = 8
    BY <2>1, FeesAddUp, Zenon DEF ShownFee
  <2> QED BY <2>2 DEF m
<1> QED BY <1>1, RelayInvariant, PTL
=============================================================================
