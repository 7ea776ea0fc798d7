----------------------------- MODULE EventStream -----------------------------
(***************************************************************************)
(* Clients that follow the events of a task over SSE (stream_task_events   *)
(* and _event_stream in main.py) while TaskLifecycle goes on.  A poll of   *)
(* the stream is two statements, the rows after the last one sent and then *)
(* the status of the task; each sees what is committed when it runs.       *)
(***************************************************************************)
EXTENDS TaskLifecycle

CONSTANTS Clients,   \* clients, each following one task
          Follows    \* [Clients -> Tasks]

ASSUME StreamAssumption == Follows \in [Clients -> Tasks]

VARIABLES stream,    \* the stream of a client, see Stream
          lastId,    \* the Last-Event-ID of a client, 0 at first
          batch,     \* the rows a poll has read and not yet sent
          received   \* the rows a client has received

streamVars == <<stream, lastId, batch, received>>
allVars    == <<vars, streamVars>>

(* away    not connected          open    before a poll                     *)
(* polled  rows read, status not  closed  ended by the server               *)
Stream == {"away", "open", "polled", "closed"}

Rows(c) == events[Follows[c]]

(* A client learns the id of the task from the response to its creation. *)
StreamInit ==
    /\ stream = [c \in Clients |-> "away"]
    /\ lastId = [c \in Clients |-> 0]
    /\ batch = [c \in Clients |-> {}]
    /\ received = [c \in Clients |-> {}]

(* _is_replay_point_available *)
ReplayPointAvailable(c) ==
    lastId[c] = 0 \/ \E e \in Rows(c) : e.sequence = lastId[c]

Connect(c) ==
    /\ stream[c] \in {"away", "closed"}
    /\ status[Follows[c]] # "absent"
    /\ ReplayPointAvailable(c)
    /\ stream' = [stream EXCEPT ![c] = "open"]
    /\ UNCHANGED <<vars, lastId, batch, received>>

Poll(c) ==
    /\ stream[c] = "open"
    /\ batch' = [batch EXCEPT ![c] = {e \in Rows(c) : e.sequence > lastId[c]}]
    /\ stream' = [stream EXCEPT ![c] = "polled"]
    /\ UNCHANGED <<vars, lastId, received>>

(* The client receives rows and its Last-Event-ID is the last of them. *)
Receive(c, rows) ==
    /\ received' = [received EXCEPT ![c] = @ \cup rows]
    /\ lastId' = [lastId EXCEPT ![c] = Max({@} \cup {e.sequence : e \in rows})]
    /\ batch' = [batch EXCEPT ![c] = {}]

SendBatch_StatusFirst(c) ==
    /\ stream[c] = "polled"
    /\ \/ /\ status[Follows[c]] \in TERMINAL_STATES
          /\ Receive(c, {})
          /\ stream' = [stream EXCEPT ![c] = "closed"]
       \/ /\ status[Follows[c]] \notin TERMINAL_STATES
          /\ Receive(c, batch[c])
          /\ stream' = [stream EXCEPT ![c] = "open"]
    /\ UNCHANGED vars

SendBatch_SkipsOne(c) ==
    /\ stream[c] = "polled"
    /\ received' = [received EXCEPT ![c] = @ \cup batch[c]]
    /\ lastId' = [lastId EXCEPT ![c] =
                    IF batch[c] = {} THEN @
                    ELSE Max({e.sequence : e \in batch[c]}) + 1]
    /\ batch' = [batch EXCEPT ![c] = {}]
    /\ stream' = [stream EXCEPT ![c] =
                    IF status[Follows[c]] \in TERMINAL_STATES
                      THEN "closed" ELSE "open"]
    /\ UNCHANGED vars

(* The status is read after the rows, the rows are sent, and the stream    *)
(* ends if that status is terminal. *)
SendBatch(c) ==
    /\ stream[c] = "polled"
    /\ Receive(c, batch[c])
    /\ stream' = [stream EXCEPT ![c] =
                    IF status[Follows[c]] \in TERMINAL_STATES
                      THEN "closed" ELSE "open"]
    /\ UNCHANGED vars

(* order_by(TaskEvent.sequence): what a client has received of a batch     *)
(* when its connection breaks are the first rows of it. *)
Disconnect_Unordered(c) ==
    /\ stream[c] \in {"open", "polled"}
    /\ \E rows \in SUBSET batch[c] : Receive(c, rows)
    /\ stream' = [stream EXCEPT ![c] = "away"]
    /\ UNCHANGED vars

Disconnect(c) ==
    /\ stream[c] \in {"open", "polled"}
    /\ \E n \in {0} \cup {e.sequence : e \in batch[c]} :
          Receive(c, {e \in batch[c] : e.sequence =< n})
    /\ stream' = [stream EXCEPT ![c] = "away"]
    /\ UNCHANGED vars

LifecycleStep == Next /\ UNCHANGED streamVars

StreamStep(c) == Connect(c) \/ Poll(c) \/ SendBatch(c) \/ Disconnect(c)

StreamNext == LifecycleStep \/ \E c \in Clients : StreamStep(c)

StreamingSpec == (Init /\ StreamInit) /\ [][StreamNext]_allVars

(* The server polls an open stream for ever and a client connects again    *)
(* whenever its stream ended, as EventSource does.  Connections may break  *)
(* for ever, but not every one of them before its poll is sent: Poll and   *)
(* SendBatch are strongly fair. *)
StreamFairness ==
    \A c \in Clients : /\ WF_allVars(Connect(c))
                       /\ SF_allVars(Poll(c))
                       /\ SF_allVars(SendBatch(c))

FairStreamingSpec == StreamingSpec /\ Fairness /\ StreamFairness

----------------------------------------------------------------------------
(* Properties *)

StreamTypeOK ==
    /\ stream \in [Clients -> Stream]
    /\ lastId \in [Clients -> Nat]
    /\ batch \in [Clients -> SUBSET TaskEvent]
    /\ received \in [Clients -> SUBSET TaskEvent]
    /\ \A c \in Clients : lastId[c] < NextSequence(Follows[c])

(* Whatever the streams it had, a client has received exactly the rows of  *)
(* the log up to its Last-Event-ID: no row is skipped, although rows are   *)
(* appended by several processes while the stream is polled, cut off and   *)
(* resumed (_event_stream, Last-Event-ID replay). *)
ReceivedIsAPrefix ==
    \A c \in Clients : received[c] = {e \in Rows(c) : e.sequence =< lastId[c]}

(* A client can always resume: its Last-Event-ID is never refused with 410 *)
(* (stream_task_events, _is_replay_point_available). *)
ResumeIsNeverRefused ==
    \A c \in Clients : ReplayPointAvailable(c)

(* A client that connects again receives every row there is, the terminal  *)
(* one of a stream that was closed too early included. *)
EveryRowArrives ==
    \A c \in Clients : (NextSequence(Follows[c]) > lastId[c] + 1)
                          ~> (NextSequence(Follows[c]) = lastId[c] + 1)
=============================================================================
