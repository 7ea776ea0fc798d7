-------------------------- MODULE EventStreamProofs --------------------------
(***************************************************************************)
(* Proofs about EventStream, for every number of clients, tasks and        *)
(* workers and every combination of faults: a client has received exactly  *)
(* the log up to its Last-Event-ID and can always resume from there.       *)
(***************************************************************************)
EXTENDS EventStream, TaskLifecycleProofs

RowsBetween(c, low, high) ==
    {e \in Rows(c) : low < e.sequence /\ e.sequence =< high}

(* A client holds the log up to its Last-Event-ID; what a poll has read    *)
(* goes on from there without a gap. *)
ClientInv(c) ==
    /\ lastId[c] \in Nat
    /\ lastId[c] < NextSequence(Follows[c])
    /\ received[c] = RowsBetween(c, 0, lastId[c])
    /\ \E high \in Nat : /\ lastId[c] =< high
                         /\ high < NextSequence(Follows[c])
                         /\ batch[c] = RowsBetween(c, lastId[c], high)

StreamVarsOK ==
    /\ stream \in [Clients -> Stream]
    /\ lastId \in [Clients -> Nat]
    /\ batch \in [Clients -> SUBSET TaskEvent]
    /\ received \in [Clients -> SUBSET TaskEvent]

StreamInv == LogInv /\ StreamVarsOK /\ \A c \in Clients : ClientInv(c)

LEMMA LogOfClient ==
    ASSUME LogInv, NEW c \in Clients
    PROVE  /\ Follows[c] \in Tasks
           /\ Rows(c) \in SUBSET TaskEvent
           /\ \E n \in Nat : /\ SequencesOf(Follows[c]) = 1 .. n
                             /\ NextSequence(Follows[c]) = n + 1
<1>1. Follows[c] \in Tasks
  BY StreamAssumption
<1> QED
  BY <1>1, NextSequenceOfLog DEF LogInv, LogContiguous, TypeOK, Rows

(* Rows up to a number that is taken never change: later rows have later   *)
(* numbers. *)
LEMMA PrefixStays ==
    ASSUME LogInv, LogGrows, NEW c \in Clients,
           NEW low \in Nat, NEW high \in Nat,
           high < NextSequence(Follows[c])
    PROVE  RowsBetween(c, low, high)' = RowsBetween(c, low, high)
<1> DEFINE t == Follows[c]
<1>1. PICK n \in Nat : /\ SequencesOf(t) = 1 .. n
                       /\ NextSequence(t) = n + 1
  BY LogOfClient
<1>2. t \in Tasks /\ events[t] \subseteq events'[t]
      /\ events'[t] \in SUBSET TaskEvent
  BY LogOfClient DEF LogGrows
<1>3. \A e, f \in events'[t] : e.sequence = f.sequence => e = f
  BY <1>2 DEF LogGrows, LogContiguous
<1>4. ASSUME NEW e \in events'[t], e.sequence =< high
      PROVE  e \in events[t]
  <2>1. e.sequence \in 1 .. n
    BY <1>1, <1>2, <1>4 DEF TaskEvent
  <2>2. PICK f \in events[t] : f.sequence = e.sequence
    BY <1>1, <2>1 DEF SequencesOf
  <2> QED
    BY <1>2, <1>3, <2>2
<1> QED
  BY <1>2, <1>4 DEF RowsBetween, Rows

LEMMA MaxOfRange ==
    ASSUME NEW n \in Nat, NEW m \in Nat, n =< m
    PROVE  Max({n} \cup (n + 1) .. m) = m
<1> DEFINE S == {n} \cup (n + 1) .. m
<1>1. m \in S /\ \A x \in S : m >= x
  OBVIOUS
<1>2. \A x \in S : (\A y \in S : x >= y) => x = m
  BY <1>1
<1> HIDE DEF S
<1>3. Max(S) = m
  BY <1>1, <1>2 DEF Max
<1> QED
  BY <1>3 DEF S

(* Rows that follow the Last-Event-ID without a gap move it to the last of *)
(* them. *)
LEMMA ReceiveKeepsClient ==
    ASSUME StreamInv, NEW c \in Clients, NEW high \in Nat,
           lastId[c] =< high, high < NextSequence(Follows[c]),
           Receive(c, RowsBetween(c, lastId[c], high)),
           UNCHANGED vars
    PROVE  ClientInv(c)'
<1>1. PICK n \in Nat : /\ SequencesOf(Follows[c]) = 1 .. n
                       /\ NextSequence(Follows[c]) = n + 1
  BY LogOfClient DEF StreamInv
<1>2. ClientInv(c) /\ lastId[c] \in Nat
  BY DEF StreamInv, ClientInv
<1>3. Rows(c) \in SUBSET TaskEvent
  BY LogOfClient DEF StreamInv
<1>4. {e.sequence : e \in RowsBetween(c, lastId[c], high)} = (lastId[c] + 1) .. high
  <2>1. ASSUME NEW e \in RowsBetween(c, lastId[c], high)
        PROVE  e.sequence \in (lastId[c] + 1) .. high
    BY <1>2, <1>3, <2>1 DEF RowsBetween, TaskEvent
  <2>2. ASSUME NEW s \in (lastId[c] + 1) .. high
        PROVE  \E e \in RowsBetween(c, lastId[c], high) : e.sequence = s
    <3>1. s \in 1 .. n
      BY <1>1, <1>2, <2>2
    <3>2. PICK e \in Rows(c) : e.sequence = s
      BY <1>1, <3>1 DEF SequencesOf, Rows
    <3> QED
      BY <1>2, <2>2, <3>2 DEF RowsBetween
  <2> QED
    BY <2>1, <2>2
<1>5. /\ lastId'[c] = high
      /\ received'[c] = received[c] \cup RowsBetween(c, lastId[c], high)
      /\ batch'[c] = {}
  <2>1. lastId'[c] = Max({lastId[c]} \cup
                           {e.sequence : e \in RowsBetween(c, lastId[c], high)})
    BY DEF Receive, StreamInv, StreamVarsOK
  <2>2. lastId'[c] = high
    BY <1>2, <1>4, <2>1, MaxOfRange
  <2> QED
    BY <2>2 DEF Receive, StreamInv, StreamVarsOK
<1>6. /\ NextSequence(Follows[c])' = NextSequence(Follows[c])
      /\ Rows(c)' = Rows(c)
  BY DEF NextSequence, SequencesOf, Rows, vars, taskVars
<1>7. received'[c] = RowsBetween(c, 0, lastId[c])'
  BY <1>2, <1>3, <1>5, <1>6 DEF ClientInv, RowsBetween, TaskEvent
<1>8. batch'[c] = RowsBetween(c, lastId[c], lastId[c])'
  <2>1. \A e \in Rows(c) : ~ (high < e.sequence /\ e.sequence =< high)
    BY <1>3 DEF TaskEvent
  <2> QED
    BY <1>5, <1>6, <2>1 DEF RowsBetween
<1> QED
  BY <1>5, <1>6, <1>7, <1>8 DEF ClientInv

(* A step of the lifecycle adds rows after those a client or a poll has. *)
LEMMA LifecycleKeepsClients ==
    ASSUME StreamInv, LogGrows, UNCHANGED streamVars, NEW c \in Clients
    PROVE  ClientInv(c)'
<1>1. ClientInv(c) /\ LogInv
  BY DEF StreamInv
<1>2. PICK high \in Nat : /\ lastId[c] =< high
                          /\ high < NextSequence(Follows[c])
                          /\ batch[c] = RowsBetween(c, lastId[c], high)
  BY <1>1 DEF ClientInv
<1>3. /\ lastId[c] \in Nat
      /\ lastId[c] < NextSequence(Follows[c])
      /\ received[c] = RowsBetween(c, 0, lastId[c])
  BY <1>1 DEF ClientInv
<1>4. /\ lastId'[c] = lastId[c]
      /\ received'[c] = received[c]
      /\ batch'[c] = batch[c]
  BY DEF streamVars
<1>5. PICK n \in Nat : NextSequence(Follows[c]) = n + 1
  BY <1>1, LogOfClient
<1>6. /\ NextSequence(Follows[c])' \in Nat
      /\ NextSequence(Follows[c]) =< NextSequence(Follows[c])'
  BY <1>1, LogOfClient DEF LogGrows
<1>7. /\ lastId'[c] < NextSequence(Follows[c])'
      /\ high < NextSequence(Follows[c])'
  BY <1>2, <1>3, <1>4, <1>5, <1>6
<1>8. RowsBetween(c, 0, lastId[c])' = RowsBetween(c, 0, lastId[c])
  <2>1. \A low, top \in Nat : top < NextSequence(Follows[c]) =>
           {e \in Rows(c)' : low < e.sequence /\ e.sequence =< top}
              = {e \in Rows(c) : low < e.sequence /\ e.sequence =< top}
    BY <1>1, PrefixStays DEF RowsBetween
  <2> QED
    BY <1>3, <1>4, <2>1 DEF RowsBetween
<1>9. {e \in Rows(c)' : lastId[c] < e.sequence /\ e.sequence =< high}
         = RowsBetween(c, lastId[c], high)
  BY <1>1, <1>2, <1>3, PrefixStays DEF RowsBetween
<1>10. \E top \in Nat : /\ lastId'[c] =< top
                        /\ top < NextSequence(Follows[c])'
                        /\ batch'[c] = RowsBetween(c, lastId[c], top)'
  BY <1>2, <1>4, <1>7, <1>9 DEF RowsBetween
<1> QED
  BY <1>3, <1>4, <1>7, <1>8, <1>10 DEF ClientInv

(* A step of one client leaves the others as they are. *)
LEMMA OtherClientsStay ==
    ASSUME StreamInv, UNCHANGED vars, NEW c \in Clients,
           lastId'[c] = lastId[c], batch'[c] = batch[c],
           received'[c] = received[c]
    PROVE  ClientInv(c)'
<1>1. /\ NextSequence(Follows[c])' = NextSequence(Follows[c])
      /\ Rows(c)' = Rows(c)
  BY DEF NextSequence, SequencesOf, Rows, vars, taskVars
<1> QED
  BY <1>1 DEF StreamInv, ClientInv, RowsBetween

(* A poll reads every row after the Last-Event-ID. *)
LEMMA PollKeepsClient ==
    ASSUME StreamInv, NEW c \in Clients, Poll(c)
    PROVE  ClientInv(c)'
<1>1. ClientInv(c) /\ LogInv
  BY DEF StreamInv
<1>2. PICK n \in Nat : /\ SequencesOf(Follows[c]) = 1 .. n
                       /\ NextSequence(Follows[c]) = n + 1
  BY <1>1, LogOfClient
<1>3. /\ NextSequence(Follows[c])' = NextSequence(Follows[c])
      /\ Rows(c)' = Rows(c)
  BY DEF NextSequence, SequencesOf, Rows, vars, taskVars, Poll
<1>4. \A e \in Rows(c) : e.sequence =< n
  BY <1>2 DEF SequencesOf, Rows
<1>5. /\ batch'[c] = {e \in Rows(c) : e.sequence > lastId[c]}
      /\ lastId'[c] = lastId[c] /\ received'[c] = received[c]
  BY DEF Poll, StreamInv, StreamVarsOK
<1>6. Rows(c) \in SUBSET TaskEvent
  BY <1>1, LogOfClient
<1>7. lastId[c] \in Nat /\ lastId[c] =< n
  BY <1>1, <1>2 DEF ClientInv
<1>8. batch'[c] = {e \in Rows(c) : lastId[c] < e.sequence /\ e.sequence =< n}
  BY <1>4, <1>5, <1>6, <1>7 DEF TaskEvent
<1> QED
  BY <1>1, <1>2, <1>3, <1>5, <1>7, <1>8 DEF ClientInv, RowsBetween

(* The rows that arrive are the first ones of the batch. *)
LEMMA DisconnectKeepsClient ==
    ASSUME StreamInv, NEW c \in Clients, Disconnect(c)
    PROVE  ClientInv(c)'
<1>1. ClientInv(c) /\ LogInv
  BY DEF StreamInv
<1>2. PICK high \in Nat : /\ lastId[c] =< high
                          /\ high < NextSequence(Follows[c])
                          /\ batch[c] = RowsBetween(c, lastId[c], high)
  BY <1>1 DEF ClientInv
<1>3. lastId[c] \in Nat /\ Rows(c) \in SUBSET TaskEvent
  BY <1>1, LogOfClient DEF ClientInv
<1>4. PICK n \in {0} \cup {e.sequence : e \in batch[c]} :
         Receive(c, {e \in batch[c] : e.sequence =< n})
  BY DEF Disconnect
<1>5. UNCHANGED vars
  BY DEF Disconnect
<1>6. PICK k \in Nat : NextSequence(Follows[c]) = k + 1
  BY <1>1, LogOfClient
<1>7. CASE n = 0
  <2>1. {e \in batch[c] : e.sequence =< n} = RowsBetween(c, lastId[c], lastId[c])
    BY <1>2, <1>3, <1>7 DEF RowsBetween, TaskEvent
  <2>2. Receive(c, RowsBetween(c, lastId[c], lastId[c]))
    BY <1>4, <2>1
  <2>3. lastId[c] =< lastId[c] /\ lastId[c] < NextSequence(Follows[c])
    BY <1>1, <1>3 DEF ClientInv
  <2> QED
    BY <1>3, <1>5, <2>2, <2>3, ReceiveKeepsClient
<1>8. CASE n \in {e.sequence : e \in batch[c]}
  <2>1. /\ n \in Nat /\ lastId[c] =< n /\ n =< high
    BY <1>2, <1>3, <1>8 DEF RowsBetween, TaskEvent
  <2>2. {e \in batch[c] : e.sequence =< n} = RowsBetween(c, lastId[c], n)
    BY <1>2, <1>3, <2>1 DEF RowsBetween, TaskEvent
  <2>3. Receive(c, RowsBetween(c, lastId[c], n))
    BY <1>4, <2>2
  <2>4. n < NextSequence(Follows[c])
    BY <1>2, <1>6, <2>1
  <2> QED
    BY <1>5, <2>1, <2>3, <2>4, ReceiveKeepsClient
<1> QED
  BY <1>4, <1>7, <1>8

LEMMA SendBatchKeepsClient ==
    ASSUME StreamInv, NEW c \in Clients, SendBatch(c)
    PROVE  ClientInv(c)'
<1>1. PICK high \in Nat : /\ lastId[c] =< high
                          /\ high < NextSequence(Follows[c])
                          /\ batch[c] = RowsBetween(c, lastId[c], high)
  BY DEF StreamInv, ClientInv
<1>2. Receive(c, RowsBetween(c, lastId[c], high)) /\ UNCHANGED vars
  BY <1>1 DEF SendBatch
<1> QED
  BY <1>1, <1>2, ReceiveKeepsClient

(* A step of a client keeps the types of the variables of the streams. *)
LEMMA ReceiveKeepsTypes ==
    ASSUME StreamVarsOK, NEW c \in Clients, ClientInv(c)',
           NEW rows \in SUBSET TaskEvent, Receive(c, rows)
    PROVE  /\ lastId' \in [Clients -> Nat]
           /\ batch' \in [Clients -> SUBSET TaskEvent]
           /\ received' \in [Clients -> SUBSET TaskEvent]
<1>1. lastId'[c] \in Nat
  BY DEF ClientInv
<1>2. lastId' = [lastId EXCEPT ![c] = lastId'[c]]
  BY DEF Receive, StreamVarsOK
<1>3. lastId' \in [Clients -> Nat]
  BY <1>1, <1>2 DEF StreamVarsOK
<1> QED
  BY <1>3 DEF Receive, StreamVarsOK

LEMMA ClientStepKeepsInv ==
    ASSUME StreamInv, NEW c \in Clients, StreamStep(c)
    PROVE  StreamVarsOK' /\ (\A d \in Clients : ClientInv(d)')
<1>1. UNCHANGED vars
  BY DEF StreamStep, Connect, Poll, SendBatch, Disconnect
<1>2. StreamVarsOK /\ LogInv
  BY DEF StreamInv
<1>3. ASSUME NEW d \in Clients \ {c}
      PROVE  ClientInv(d)'
  <2>1. /\ lastId'[d] = lastId[d]
        /\ batch'[d] = batch[d]
        /\ received'[d] = received[d]
    BY <1>2 DEF StreamVarsOK, StreamStep, Connect, Poll, SendBatch,
                Disconnect, Receive
  <2> QED
    BY <1>1, <2>1, OtherClientsStay
<1>4. ClientInv(c)'
  <2>1. CASE Connect(c)
    BY <1>1, <2>1, OtherClientsStay DEF Connect
  <2> QED
    BY <2>1, PollKeepsClient, SendBatchKeepsClient, DisconnectKeepsClient
       DEF StreamStep
<1>5. StreamVarsOK'
  <2>1. stream' \in [Clients -> Stream]
    BY <1>2 DEF StreamVarsOK, Stream, StreamStep, Connect, Poll, SendBatch,
                Disconnect
  <2>2. CASE Connect(c)
    BY <1>2, <2>1, <2>2 DEF StreamVarsOK, Connect
  <2>3. CASE Poll(c)
    <3>1. Rows(c) \in SUBSET TaskEvent
      BY <1>2, LogOfClient
    <3> QED
      BY <1>2, <2>1, <2>3, <3>1 DEF StreamVarsOK, Poll
  <2>4. CASE SendBatch(c) \/ Disconnect(c)
    <3>1. PICK rows \in SUBSET TaskEvent : Receive(c, rows)
      <4>1. \E rows \in SUBSET batch[c] : Receive(c, rows)
        BY <2>4 DEF SendBatch, Disconnect
      <4> QED
        BY <1>2, <4>1 DEF StreamVarsOK
    <3> QED
      BY <1>2, <1>4, <2>1, <3>1, ReceiveKeepsTypes DEF StreamVarsOK
  <2> QED
    BY <2>2, <2>3, <2>4 DEF StreamStep
<1> QED
  BY <1>3, <1>4, <1>5

LEMMA StreamInvHolds ==
    StreamingSpec => []StreamInv
<1>1. Init /\ StreamInit => StreamInv
  <2> SUFFICES ASSUME Init, StreamInit PROVE StreamInv
    OBVIOUS
  <2>1. LogInv
    BY LogInvInitially
  <2>2. StreamVarsOK
    BY DEF StreamInit, StreamVarsOK, Stream
  <2>3. ASSUME NEW c \in Clients PROVE ClientInv(c)
    <3>1. PICK n \in Nat : NextSequence(Follows[c]) = n + 1
      BY <2>1, LogOfClient
    <3>2. lastId[c] = 0 /\ batch[c] = {} /\ received[c] = {}
      BY DEF StreamInit
    <3>3. RowsBetween(c, 0, 0) = {}
      BY <2>1, LogOfClient DEF RowsBetween, TaskEvent
    <3> QED
      BY <3>1, <3>2, <3>3 DEF ClientInv
  <2> QED
    BY <2>1, <2>2, <2>3 DEF StreamInv
<1>2. StreamInv /\ [StreamNext]_allVars => StreamInv'
  <2> SUFFICES ASSUME StreamInv, [StreamNext]_allVars PROVE StreamInv'
    OBVIOUS
  <2>1. LogInv /\ StreamVarsOK
    BY DEF StreamInv
  <2>2. [Next]_vars
    BY DEF StreamNext, LifecycleStep, StreamStep, Connect, Poll, SendBatch,
           Disconnect, allVars
  <2>3. LogInv' /\ LogGrows
    BY <2>1, <2>2, LogInvIsInductive, StepGrowsLog
  <2>4. CASE UNCHANGED streamVars
    <3>1. StreamVarsOK'
      BY <2>1, <2>4 DEF StreamVarsOK, streamVars
    <3>2. \A c \in Clients : ClientInv(c)'
      BY <2>3, <2>4, LifecycleKeepsClients
    <3> QED
      BY <2>3, <3>1, <3>2 DEF StreamInv
  <2>5. ASSUME NEW c \in Clients, StreamStep(c) PROVE StreamInv'
    BY <2>3, <2>5, ClientStepKeepsInv DEF StreamInv
  <2> QED
    BY <2>4, <2>5 DEF StreamNext, LifecycleStep, allVars
<1> QED
  BY <1>1, <1>2, PTL DEF StreamingSpec

(* A stream's variables keep their types and a Last-Event-ID never runs    *)
(* ahead of the log. *)
THEOREM StreamTypeCorrect == StreamingSpec => []StreamTypeOK
<1>1. StreamInv => StreamTypeOK
  BY DEF StreamInv, StreamVarsOK, ClientInv, StreamTypeOK
<1> QED
  BY <1>1, StreamInvHolds, PTL

(* Whatever is appended while a stream is polled, cut off and resumed, a   *)
(* client has received exactly the log up to its Last-Event-ID. *)
THEOREM NoRowIsSkipped == StreamingSpec => []ReceivedIsAPrefix
<1>1. StreamInv => ReceivedIsAPrefix
  <2> SUFFICES ASSUME StreamInv, NEW c \in Clients
               PROVE  received[c] = {e \in Rows(c) : e.sequence =< lastId[c]}
    BY DEF ReceivedIsAPrefix
  <2>1. Rows(c) \in SUBSET TaskEvent
    BY LogOfClient DEF StreamInv
  <2> QED
    BY <2>1 DEF StreamInv, ClientInv, RowsBetween, TaskEvent
<1> QED
  BY <1>1, StreamInvHolds, PTL

(* A client that reconnects is never told that its replay point is gone:   *)
(* the row with its Last-Event-ID is in the log, as no number is missing. *)
THEOREM ReplayPointsStay == StreamingSpec => []ResumeIsNeverRefused
<1>1. StreamInv => ResumeIsNeverRefused
  <2> SUFFICES ASSUME StreamInv, NEW c \in Clients
               PROVE  ReplayPointAvailable(c)
    BY DEF ResumeIsNeverRefused
  <2>1. PICK n \in Nat : /\ SequencesOf(Follows[c]) = 1 .. n
                         /\ NextSequence(Follows[c]) = n + 1
    BY LogOfClient DEF StreamInv
  <2>2. lastId[c] \in 0 .. n
    BY <2>1 DEF StreamInv, ClientInv
  <2>3. lastId[c] # 0 => lastId[c] \in SequencesOf(Follows[c])
    BY <2>1, <2>2
  <2> QED
    BY <2>3 DEF ReplayPointAvailable, SequencesOf, Rows
<1> QED
  BY <1>1, StreamInvHolds, PTL
=============================================================================
