--------------------------- MODULE EventDelivery ---------------------------
(***************************************************************************)
(* The path of a message from the Raspberry Pi to PostgreSQL.              *)
(*                                                                         *)
(* The two threads of Pipeline (main_loop, auxiliary_loop) hand messages   *)
(* to try_publish_or_enqueue: MqttPublisher::publish puts them in the      *)
(* in-memory queue of libmosquitto, or, when that is refused,              *)
(* Storage::enqueue_pending_event puts them in the SQLite table            *)
(* pending_events, which the auxiliary thread drains in batches.  The      *)
(* broker queues them for the persistent session of the backend, whose     *)
(* run_loop acknowledges and then inserts them into access_events.         *)
(*                                                                         *)
(* One device, one broker, one backend.  libmosquitto, mosquitto and       *)
(* rumqttc are modelled from how the code uses them: QoS 1, FIFO per       *)
(* connection, an unacknowledged message is sent again after a reconnect.  *)
(***************************************************************************)
EXTENDS Naturals, Sequences, Functions

CONSTANTS
    Employees,   \* the employees registered at the start (employees.id)
    Unknown,     \* body of an AccessEvent with status "unknown"
    Health,      \* body of a Heartbeat or a DeviceFault
    None,        \* no message
    MaxEmit,     \* bound: messages the device ever produces
    BatchSize,   \* kDrainBatchSize, 50 in the code
    Faults,      \* the kinds of fault that may happen
    FaultBudget  \* bound: how many faults happen in a behaviour

Bodies == Employees \cup {Unknown, Health}

\* What can go wrong:
\*   link          the device loses its connection to the broker
\*   send          mosquitto_publish returns something else than SUCCESS
\*   enqueue       Storage::enqueue_pending_event throws
\*   drain         fetch_pending_events or delete_pending_event throws
\*   crash, stop   the process is killed; SIGINT/SIGTERM is handled
\*   ack           the backend's PUBACK does not reach the broker
\*   db            the INSERT of the backend fails
\*   backend_exit  the backend process dies
\*   removal       no fault: an operator deletes an employee
FaultKinds == {"link", "send", "enqueue", "drain", "crash", "stop", "ack",
               "db", "backend_exit", "removal"}

ASSUME BodiesAssumption ==
    /\ Unknown \notin Employees
    /\ Health \notin Employees \cup {Unknown}

ASSUME BoundsAssumption ==
    /\ MaxEmit \in Nat
    /\ BatchSize \in Nat \ {0}
    /\ Faults \subseteq FaultKinds
    /\ FaultBudget \in Nat

\* "n" tells messages apart: in the code every payload carries its timestamp.
Message == [n : 1..MaxEmit, body : Bodies]
Row == [id : Nat, msg : Message]

ASSUME NoneAssumption == None \notin Message

Threads == {"main", "aux"}
ProgramCounters == {"loop", "work", "publish", "enqueue", "wait",
                    "check", "fetch", "drain", "delete", "done"}

VARIABLES
    emitted,     \* history: number of messages produced
    log,         \* history: the messages produced
    edge,        \* "up", "stopping" (Pipeline::stop_ is set) or "down"
    pc,          \* what each thread of Pipeline does next
    msg,         \* the message each thread is trying to publish or enqueue
    batch,       \* rows fetched by the drainer and not yet handled
    pending,     \* the SQLite table pending_events
    nextRow,     \* its AUTOINCREMENT counter
    connected,   \* MqttPublisher::connected_
    out,         \* queue of libmosquitto: published, not acknowledged
    sent,        \* how many of its first messages this connection has sent
    inbox,       \* broker: queue of the session "facegate-backend"
    handling,    \* backend: the message handle_publish works on
    employees,   \* PostgreSQL: employees
    stored,      \* PostgreSQL: access_events, in the order of their SERIAL id
    faults       \* history: [kinds |-> what went wrong, left |-> budget left]

threadVars == <<edge, pc, msg, batch>>
storageVars == <<pending, nextRow>>
clientVars == <<connected, out, sent>>
backendVars == <<handling, employees, stored>>
logVars == <<emitted, log>>
vars == <<logVars, threadVars, storageVars, clientVars, inbox, backendVars,
          faults>>

TypeOK ==
    /\ emitted \in 0..MaxEmit
    /\ log \subseteq Message
    /\ edge \in {"up", "stopping", "down"}
    /\ pc \in [Threads -> ProgramCounters]
    /\ msg \in [Threads -> Message \cup {None}]
    /\ batch \in Seq(Row)
    /\ pending \subseteq Row
    /\ nextRow \in Nat
    /\ connected \in BOOLEAN
    /\ out \in Seq(Message)
    /\ sent \in 0..Len(out)
    /\ inbox \in Seq(Message)
    /\ handling \in Message \cup {None}
    /\ employees \subseteq Employees
    /\ stored \in Seq([n : 1..MaxEmit, body : Employees \cup {None}])
    /\ faults \in [kinds : SUBSET Faults, left : 0..FaultBudget]

\* Both threads of the Pipeline start; the matcher and the LED are elsewhere.
ThreadStart == [t \in Threads |-> IF t = "main" THEN "loop" ELSE "wait"]

Init ==
    /\ emitted = 0
    /\ log = {}
    /\ edge = "up"
    /\ pc = ThreadStart
    /\ msg = [t \in Threads |-> None]
    /\ batch = <<>>
    /\ pending = {}
    /\ nextRow = 1
    /\ connected = FALSE
    /\ out = <<>>
    /\ sent = 0
    /\ inbox = <<>>
    /\ handling = None
    /\ employees = Employees
    /\ stored = <<>>
    /\ faults = [kinds |-> {}, left |-> FaultBudget]

Fault(k) ==
    /\ k \in Faults
    /\ faults.left > 0
    /\ faults' = [kinds |-> faults.kinds \cup {k}, left |-> faults.left - 1]

Goto(t, from, to) ==
    /\ edge # "down"
    /\ pc[t] = from
    /\ pc' = [pc EXCEPT ![t] = to]

-----------------------------------------------------------------------------
(* try_publish_or_enqueue and the calls it makes                           *)

\* Thread t builds a message, which it will publish next.
Produce(t, from, body) ==
    /\ emitted < MaxEmit
    /\ Goto(t, from, "publish")
    /\ emitted' = emitted + 1
    /\ log' = log \cup {[n |-> emitted + 1, body |-> body]}
    /\ msg' = [msg EXCEPT ![t] = [n |-> emitted + 1, body |-> body]]
    /\ UNCHANGED <<edge, batch, storageVars, clientVars, inbox, backendVars,
                   faults>>

\* MqttPublisher::publish returns true: libmosquitto holds m in memory.
PublishTrue(m) ==
    /\ connected
    /\ out' = Append(out, m)
    /\ UNCHANGED <<connected, sent, faults>>

\* MqttPublisher::publish returns false: not connected, or rc # SUCCESS.
PublishFalse ==
    /\ \/ ~connected /\ UNCHANGED faults
       \/ connected /\ Fault("send")
    /\ UNCHANGED clientVars

\* Where a thread goes on after try_publish_or_enqueue.
AfterTry(t) == IF t = "main" THEN "loop" ELSE "check"

\* Mutant: the message is enqueued whatever publish returned.
TryPublish_AndEnqueue(t) ==
    /\ Goto(t, "publish", "enqueue")
    /\ PublishTrue(msg[t]) \/ PublishFalse
    /\ UNCHANGED <<logVars, edge, msg, batch, storageVars, inbox, backendVars>>

TryPublish(t) ==
    /\ \/ /\ Goto(t, "publish", AfterTry(t))
          /\ PublishTrue(msg[t])
          /\ msg' = [msg EXCEPT ![t] = None]
       \/ /\ Goto(t, "publish", "enqueue")
          /\ PublishFalse
          /\ UNCHANGED msg
    /\ UNCHANGED <<logVars, edge, batch, storageVars, inbox, backendVars>>

\* Storage::enqueue_pending_event inserts the row; when it throws, the
\* exception is logged and the message is gone.
TryEnqueue(t) ==
    /\ Goto(t, "enqueue", AfterTry(t))
    /\ \/ /\ pending' = pending \cup {[id |-> nextRow, msg |-> msg[t]]}
          /\ nextRow' = nextRow + 1
          /\ UNCHANGED faults
       \/ Fault("enqueue") /\ UNCHANGED storageVars
    /\ msg' = [msg EXCEPT ![t] = None]
    /\ UNCHANGED <<logVars, edge, batch, clientVars, inbox, backendVars>>

-----------------------------------------------------------------------------
(* Pipeline::main_loop, as far as messages go                              *)

\* while (!stop_.load())
MainLoop ==
    /\ \/ edge = "up" /\ Goto("main", "loop", "work")
       \/ edge = "stopping" /\ Goto("main", "loop", "done")
    /\ UNCHANGED <<logVars, edge, msg, batch, storageVars, clientVars, inbox,
                   backendVars, faults>>

\* An iteration without a message: no frame, no face, a repeated face.
MainNoEvent ==
    /\ Goto("main", "work", "loop")
    /\ UNCHANGED <<logVars, edge, msg, batch, storageVars, clientVars, inbox,
                   backendVars, faults>>

\* An iteration that emits an AccessEvent or a DeviceFault.
MainEmit == \E body \in Bodies : Produce("main", "work", body)

-----------------------------------------------------------------------------
(* Pipeline::auxiliary_loop                                                *)

\* The wait on stop_cv_ ends, by its timeout or because stop_ is set; no
\* heartbeat is due.
AuxWake ==
    /\ \/ edge = "up" /\ Goto("aux", "wait", "check")
       \/ edge = "stopping" /\ Goto("aux", "wait", "done")
    /\ UNCHANGED <<logVars, edge, msg, batch, storageVars, clientVars, inbox,
                   backendVars, faults>>

\* The wait ends and the heartbeat interval has elapsed.
AuxHeartbeat ==
    /\ edge = "up"
    /\ Produce("aux", "wait", Health)

\* Mutant: the condition is inverted.
AuxCheck_Inverted ==
    /\ \/ ~connected /\ Goto("aux", "check", "fetch")
       \/ connected /\ Goto("aux", "check", "wait")
    /\ UNCHANGED <<logVars, edge, msg, batch, storageVars, clientVars, inbox,
                   backendVars, faults>>

\* if (publisher_.is_connected())
AuxCheck ==
    /\ \/ connected /\ Goto("aux", "check", "fetch")
       \/ ~connected /\ Goto("aux", "check", "wait")
    /\ UNCHANGED <<logVars, edge, msg, batch, storageVars, clientVars, inbox,
                   backendVars, faults>>

\* SELECT ... ORDER BY id ASC LIMIT BatchSize returns the rows s.
IsFetch(s) ==
    /\ \A i, j \in DOMAIN s : i < j => s[i].id < s[j].id
    /\ \A i \in DOMAIN s : \A r \in pending \ Range(s) : s[i].id < r.id
    /\ Len(s) < BatchSize => pending = Range(s)

\* Storage::fetch_pending_events, or the exception it throws.
AuxFetch ==
    /\ \/ /\ Goto("aux", "fetch", "drain")
          /\ \E k \in 0..BatchSize : \E rows \in [1..k -> pending] :
                /\ IsFetch(rows)
                /\ batch' = rows
          /\ UNCHANGED faults
       \/ Goto("aux", "fetch", "wait") /\ Fault("drain") /\ UNCHANGED batch
    /\ UNCHANGED <<logVars, edge, msg, storageVars, clientVars, inbox,
                   backendVars>>

\* Mutant: the row is deleted whatever publish returned.
AuxDrain_IgnoreResult ==
    /\ \/ /\ batch = <<>>
          /\ Goto("aux", "drain", "wait")
          /\ UNCHANGED <<clientVars, faults>>
       \/ /\ batch # <<>>
          /\ Goto("aux", "drain", "delete")
          /\ PublishTrue(Head(batch).msg) \/ PublishFalse
    /\ UNCHANGED <<logVars, edge, msg, batch, storageVars, inbox, backendVars>>

\* Mutant: "continue" instead of "break" after a publish that failed.
AuxDrain_Continue ==
    /\ \/ /\ batch = <<>>
          /\ Goto("aux", "drain", "wait")
          /\ UNCHANGED <<batch, clientVars, faults>>
       \/ /\ batch # <<>>
          /\ Goto("aux", "drain", "delete")
          /\ PublishTrue(Head(batch).msg)
          /\ UNCHANGED batch
       \/ /\ batch # <<>>
          /\ Goto("aux", "drain", "drain")
          /\ PublishFalse
          /\ batch' = Tail(batch)
    /\ UNCHANGED <<logVars, edge, msg, storageVars, inbox, backendVars>>

\* One row of the batch: publish it, or give up the rest of the batch.
AuxDrain ==
    /\ \/ /\ batch = <<>>
          /\ Goto("aux", "drain", "wait")
          /\ UNCHANGED <<batch, clientVars, faults>>
       \/ /\ batch # <<>>
          /\ Goto("aux", "drain", "delete")
          /\ PublishTrue(Head(batch).msg)
          /\ UNCHANGED batch
       \/ /\ batch # <<>>
          /\ Goto("aux", "drain", "wait")
          /\ PublishFalse
          /\ batch' = <<>>
    /\ UNCHANGED <<logVars, edge, msg, storageVars, inbox, backendVars>>

\* Storage::delete_pending_event, or the exception it throws, which ends the
\* batch and leaves a row whose message has already been published.
AuxDelete ==
    /\ \/ /\ Goto("aux", "delete", "drain")
          /\ pending' = {r \in pending : r.id # Head(batch).id}
          /\ batch' = Tail(batch)
          /\ UNCHANGED faults
       \/ /\ Goto("aux", "delete", "wait")
          /\ Fault("drain")
          /\ batch' = <<>>
          /\ UNCHANGED pending
    /\ UNCHANGED <<logVars, edge, msg, nextRow, clientVars, inbox, backendVars>>

-----------------------------------------------------------------------------
(* The process: main() of apps/facegate and the destructors it runs        *)

\* A signal was caught: main() calls Pipeline::request_stop.
RequestStop ==
    /\ edge = "up"
    /\ Fault("stop")
    /\ edge' = "stopping"
    /\ UNCHANGED <<logVars, pc, msg, batch, storageVars, clientVars, inbox,
                   backendVars>>

\* Mutant: the new process believes it has sent what the old one sent.
ProcessEnds_KeepSent ==
    /\ edge' = "down"
    /\ pc' = [t \in Threads |-> "done"]
    /\ msg' = [t \in Threads |-> None]
    /\ batch' = <<>>
    /\ connected' = FALSE
    /\ out' = <<>>
    /\ UNCHANGED <<logVars, storageVars, sent, inbox, backendVars>>

\* The memory of the process is gone, the queue of libmosquitto with it; the
\* SQLite file stays.
ProcessEnds ==
    /\ edge' = "down"
    /\ pc' = [t \in Threads |-> "done"]
    /\ msg' = [t \in Threads |-> None]
    /\ batch' = <<>>
    /\ connected' = FALSE
    /\ out' = <<>>
    /\ sent' = 0
    /\ UNCHANGED <<logVars, storageVars, inbox, backendVars>>

\* ~Pipeline has joined both threads; ~MqttPublisher disconnects and deletes
\* the client without waiting for what is unacknowledged.
ProcessExit ==
    /\ edge = "stopping"
    /\ \A t \in Threads : pc[t] = "done"
    /\ ProcessEnds
    /\ UNCHANGED faults

ProcessCrash ==
    /\ edge # "down"
    /\ Fault("crash")
    /\ ProcessEnds

ProcessStart ==
    /\ edge = "down"
    /\ edge' = "up"
    /\ pc' = ThreadStart
    /\ msg' = [t \in Threads |-> None]
    /\ batch' = <<>>
    /\ UNCHANGED <<logVars, storageVars, clientVars, inbox,
                   backendVars, faults>>

-----------------------------------------------------------------------------
(* libmosquitto, the broker and the backend                                *)

\* on_connect with rc = 0; everything unacknowledged is sent again.
OnConnect ==
    /\ edge # "down"
    /\ ~connected
    /\ connected' = TRUE
    /\ UNCHANGED <<logVars, threadVars, storageVars, out, sent, inbox,
                   backendVars, faults>>

\* on_disconnect
OnDisconnect ==
    /\ connected
    /\ Fault("link")
    /\ connected' = FALSE
    /\ sent' = 0
    /\ UNCHANGED <<logVars, threadVars, storageVars, out, inbox, backendVars>>

BrokerReceive ==
    /\ connected
    /\ sent < Len(out)
    /\ inbox' = Append(inbox, out[sent + 1])
    /\ sent' = sent + 1
    /\ UNCHANGED <<logVars, threadVars, storageVars, connected, out,
                   backendVars, faults>>

PubAck ==
    /\ connected
    /\ sent > 0
    /\ out' = Tail(out)
    /\ sent' = sent - 1
    /\ UNCHANGED <<logVars, threadVars, storageVars, connected, inbox,
                   backendVars, faults>>

\* rumqttc acknowledges a publish before run_loop sees it.  When the PUBACK
\* is lost the broker delivers the message again.
BackendReceive ==
    /\ handling = None
    /\ inbox # <<>>
    /\ handling' = Head(inbox)
    /\ \/ inbox' = Tail(inbox) /\ UNCHANGED faults
       \/ Fault("ack") /\ UNCHANGED inbox
    /\ UNCHANGED <<logVars, threadVars, storageVars, clientVars, employees,
                   stored>>

\* What the INSERT of handle_publish does: a health message inserts nothing,
\* an employee that is gone violates the foreign key and is only logged.
Inserted(m) ==
    IF m.body = Unknown THEN <<[m EXCEPT !.body = None]>>
    ELSE IF m.body \in employees THEN <<m>>
    ELSE <<>>

BackendHandle ==
    /\ handling # None
    /\ stored' = stored \o Inserted(handling)
    /\ handling' = None
    /\ UNCHANGED <<logVars, threadVars, storageVars, clientVars, inbox,
                   employees, faults>>

\* handle_publish returns Err, which run_loop logs; or the process dies.
BackendFail ==
    /\ handling # None
    /\ \/ handling.body # Health /\ Fault("db")
       \/ Fault("backend_exit")
    /\ handling' = None
    /\ UNCHANGED <<logVars, threadVars, storageVars, clientVars, inbox,
                   employees, stored>>

\* DELETE /employees/:id; access_events.employee_id is set to NULL.
DeleteEmployee ==
    /\ Fault("removal")
    /\ \E e \in employees :
        /\ employees' = employees \ {e}
        /\ stored' = [i \in DOMAIN stored |->
                        IF stored[i].body = e
                        THEN [stored[i] EXCEPT !.body = None]
                        ELSE stored[i]]
    /\ UNCHANGED <<logVars, threadVars, storageVars, clientVars, inbox,
                   handling>>

-----------------------------------------------------------------------------
ThreadStep ==
    \/ MainLoop \/ MainNoEvent \/ MainEmit
    \/ AuxWake \/ AuxHeartbeat \/ AuxCheck \/ AuxFetch
    \/ AuxDrain \/ AuxDelete
    \/ \E t \in Threads : TryPublish(t) \/ TryEnqueue(t)

ProcessStep == RequestStop \/ ProcessExit \/ ProcessCrash \/ ProcessStart

NetworkStep == OnConnect \/ OnDisconnect \/ BrokerReceive \/ PubAck

BackendStep == BackendReceive \/ BackendHandle \/ BackendFail \/ DeleteEmployee

Next == ThreadStep \/ ProcessStep \/ NetworkStep \/ BackendStep

\* Threads are scheduled, a retrying client reconnects (reconnect_delay_set),
\* sockets and the event loop make progress.  Nothing makes a message appear,
\* a fault happen or an operator start the process.
Fairness ==
    /\ WF_vars(MainLoop)
    /\ WF_vars(MainNoEvent \/ MainEmit)
    /\ \A t \in Threads : WF_vars(TryPublish(t)) /\ WF_vars(TryEnqueue(t))
    /\ WF_vars(AuxWake \/ AuxHeartbeat)
    /\ WF_vars(AuxCheck)
    /\ WF_vars(AuxFetch)
    /\ WF_vars(AuxDrain)
    /\ WF_vars(AuxDelete)
    /\ WF_vars(ProcessExit)
    /\ WF_vars(OnConnect)
    /\ WF_vars(BrokerReceive)
    /\ WF_vars(PubAck)
    /\ WF_vars(BackendReceive)
    /\ WF_vars(BackendHandle \/ BackendFail)

Spec == Init /\ [][Next]_vars
FairSpec == Spec /\ Fairness

-----------------------------------------------------------------------------
(* Properties                                                              *)

\* Every place a message can be on its way to access_events.
InTransit ==
    {msg[t] : t \in Threads} \cup {r.msg : r \in pending}
        \cup Range(out) \cup Range(inbox) \cup {handling}

IsStored(m) == \E i \in DOMAIN stored : stored[i].n = m.n

\* The faults after which the code gives a message up.
LossFaults == {"enqueue", "crash", "stop", "db", "backend_exit", "removal"}

Happened(kinds) == kinds \cap faults.kinds # {}

\* As long as neither process ends, SQLite and PostgreSQL accept their writes
\* and no employee is deleted, every access event main_loop produced is on its
\* way or in access_events, however often the network fails, publish returns
\* false, the drainer throws or a PUBACK is lost.
NoLossOnNetworkFailure ==
    ~Happened(LossFaults) =>
        \A m \in log : m.body = Health \/ m \in InTransit \/ IsStored(m)

\* What the documents promise of the whole path, whatever happens.  A clean
\* stop, a backend that dies and a deleted employee each break it.
NoEventLost ==
    \A m \in log : m.body = Health \/ m \in InTransit \/ IsStored(m)

\* An event is stored twice only after a lost connection (either side), a
\* failed delete in the drainer or a crash: with none of these the live path
\* and the drainer never both deliver the same message.
StoredOnce ==
    ~Happened({"link", "drain", "crash", "ack"}) =>
        \A i, j \in DOMAIN stored : stored[i].n = stored[j].n => i = j

\* auxiliary_loop removes the rows of pending_events oldest first: no failure
\* makes it skip a row and delete a younger one.
DrainInOrder ==
    [][\A r \in pending \ pending' : \A q \in pending : r.id <= q.id]_pending

\* While the process runs, the backlog in pending_events is always drained
\* in the end.
BacklogDrains == []<>(pending = {} \/ edge = "down")

\* Every access event ends up in access_events unless one of the faults the
\* code does not survive happens.
EventuallyStored ==
    \A n \in 1..MaxEmit :
        (\E m \in log : m.n = n /\ m.body # Health)
            ~> (Happened(LossFaults) \/ \E i \in DOMAIN stored : stored[i].n = n)

-----------------------------------------------------------------------------
(* The inductive invariant behind NoLossOnNetworkFailure                   *)

\* m has left the device for good.
Arrived(m) == m.body = Health \/ m \in Range(inbox) \cup {handling} \/ IsStored(m)

HandedOver(m) == m \in Range(out) \/ Arrived(m)

\* A thread has a message exactly while it is to be published or enqueued.
MessageInHand ==
    \A t \in Threads : pc[t] \in {"publish", "enqueue"} <=> msg[t] \in Message

\* The drainer deletes only while it has a row, and deleting by id removes no
\* other row than the one it published.
RowInHand ==
    /\ pc["aux"] = "delete" => batch # <<>>
    /\ \A q \in pending : q.id < nextRow
    /\ \A r, q \in pending : r.id = q.id => r = q
    /\ \A i \in DOMAIN batch : batch[i].id < nextRow
    /\ \A i \in DOMAIN batch : \A q \in pending : q.id = batch[i].id => q = batch[i]

\* What was sent on this connection and the row being deleted are safe
\* elsewhere, so neither PubAck nor AuxDelete removes a last copy.
LastCopyKept ==
    /\ edge = "up"
    /\ employees = Employees
    /\ \A i \in 1..sent : Arrived(out[i])
    /\ pc["aux"] = "delete" => HandedOver(Head(batch).msg)

DeliveryInv ==
    /\ TypeOK
    /\ MessageInHand
    /\ RowInHand
    /\ ~Happened(LossFaults) => LastCopyKept
    /\ NoLossOnNetworkFailure
=============================================================================
