--------------------------- MODULE EmbeddingSync ---------------------------
(***************************************************************************)
(* How the embeddings of an employee reach the matcher on the device, and  *)
(* leave it again.                                                         *)
(*                                                                         *)
(* The HTTP handlers of the backend write PostgreSQL and then publish a    *)
(* retained message per embedding: a payload to upsert it, nothing (a      *)
(* tombstone) to remove it.  MqttSubscriber on the device applies each     *)
(* message to SQLite and then to the matcher main_loop decides with.       *)
(*                                                                         *)
(* One backend, one broker, one device.  axum runs a handler per request,  *)
(* rumqttc holds what was published until the broker acknowledges it, and  *)
(* mosquitto keeps the last payload of every topic.                        *)
(***************************************************************************)
EXTENDS Naturals, Sequences, SequencesExt

CONSTANTS
    Employees,   \* the employees registered at the start (employees.id)
    MaxId,       \* bound: embeddings ever created
    Requests,    \* bound: requests the backend handles at the same time
    ClientCap,   \* what rumqttc accepts before publish() waits, 32 in the code
    None,        \* no owner: an empty payload, an absent entry
    Faults,      \* the kinds of fault that may happen
    FaultBudget  \* bound: how many faults happen in a behaviour

Ids == 1..MaxId
Payload == Employees \cup {None}
Message == [id : Ids, owner : Payload]

\* What can go wrong:
\*   db            the DELETE of the employee fails
\*   backend_link  the backend loses its connection to the broker
\*   backend_exit  the backend process dies
\*   link          the device loses its connection to the broker
\*   subscribe     the SUBSCRIBE in on_connect fails
\*   storage       SQLite refuses the write of a message
\*   edge_exit     the process on the device ends, by a signal or a crash
FaultKinds == {"db", "backend_link", "backend_exit", "link", "subscribe",
               "storage", "edge_exit"}

ASSUME EmployeesAssumption == None \notin Employees

ASSUME NoMessageAssumption == None \notin Message

ASSUME SyncBoundsAssumption ==
    /\ MaxId \in Nat
    /\ ClientCap \in Nat \ {0}
    /\ Faults \subseteq FaultKinds
    /\ FaultBudget \in Nat

VARIABLES
    employees,  \* PostgreSQL: employees
    rows,       \* PostgreSQL: embeddings, [id, owner]
    nextId,     \* its SERIAL counter
    req,        \* the handler that runs in each slot, and what it holds
    client,     \* rumqttc: published and not acknowledged by the broker
    sent,       \* how many of those this connection has sent
    retained,   \* broker: the retained payload of each topic
    wire,       \* broker: sent or to be sent to the device on this connection
    session,    \* device: "down", "off", "deaf" (not subscribed), "subscribed"
    applying,   \* device: on_message between its two calls
    storage,    \* device: SQLite embeddings, id -> owner
    matcher,    \* device: Matcher::cache_, id -> owner
    faults      \* history: [kinds |-> what went wrong, left |-> budget left]

dbVars == <<employees, rows, nextId>>
clientVars == <<client, sent>>
edgeVars == <<session, wire, applying, storage, matcher>>
vars == <<dbVars, req, clientVars, retained, edgeVars, faults>>

Idle == [pc |-> "idle", owner |-> None, ids |-> {}]
Handler == [pc : {"idle", "publish", "delete", "tombstone"},
            owner : Payload, ids : SUBSET Ids]

\* History kind "overlap": an employee was deleted while an embedding of the
\* same employee was being created.
TypeOK ==
    /\ employees \subseteq Employees
    /\ rows \subseteq [id : Ids, owner : employees]
    /\ nextId \in 1..(MaxId + 1)
    /\ req \in [Requests -> Handler]
    /\ client \in Seq(Message)
    /\ sent \in 0..Len(client)
    /\ retained \in [Ids -> Payload]
    /\ wire \in Seq(Message)
    /\ session \in {"down", "off", "deaf", "subscribed"}
    /\ applying \in Message \cup {None}
    /\ storage \in [Ids -> Payload]
    /\ matcher \in [Ids -> Payload]
    /\ faults \in [kinds : SUBSET (Faults \cup {"overlap"}), left : 0..FaultBudget]

Init ==
    /\ employees = Employees
    /\ rows = {}
    /\ nextId = 1
    /\ req = [q \in Requests |-> Idle]
    /\ client = <<>>
    /\ sent = 0
    /\ retained = [i \in Ids |-> None]
    /\ wire = <<>>
    /\ session = "off"
    /\ applying = None
    /\ storage = [i \in Ids |-> None]
    /\ matcher = [i \in Ids |-> None]
    /\ faults = [kinds |-> {}, left |-> FaultBudget]

Fault(k) ==
    /\ k \in Faults
    /\ faults.left > 0
    /\ faults' = [kinds |-> faults.kinds \cup {k}, left |-> faults.left - 1]

\* Records that a request for employee e starts while one in a state of pcs runs.
Overlap(e, pcs) ==
    IF \E q \in Requests : req[q].owner = e /\ req[q].pc \in pcs
    THEN faults' = [faults EXCEPT !.kinds = @ \cup {"overlap"}]
    ELSE UNCHANGED faults

-----------------------------------------------------------------------------
(* The backend: routes/embeddings.rs create, routes/employees.rs delete    *)

Handle(q, from, next) ==
    /\ req[q].pc = from
    /\ req' = [req EXCEPT ![q] = next]

\* client.publish(topic of id, retain = true, owner).await, which waits for
\* room.
ClientPublish(id, owner) ==
    /\ Len(client) < ClientCap
    /\ client' = Append(client, [id |-> id, owner |-> owner])
    /\ UNCHANGED sent

\* The INSERT of POST /employees/:id/embeddings.  With an unknown employee it
\* violates the foreign key: the answer is 404 and nothing has changed.
CreateInsert(q) ==
    \E e \in employees :
        /\ nextId <= MaxId
        /\ Handle(q, "idle", [pc |-> "publish", owner |-> e, ids |-> {nextId}])
        /\ rows' = rows \cup {[id |-> nextId, owner |-> e]}
        /\ nextId' = nextId + 1
        /\ Overlap(e, {"delete", "tombstone"})
        /\ UNCHANGED <<employees, clientVars, retained, edgeVars>>

\* Mutant: try_publish, which drops the message when there is no room.
CreatePublish_Try(q) ==
    /\ Handle(q, "publish", Idle)
    /\ IF Len(client) < ClientCap
       THEN \E id \in req[q].ids : ClientPublish(id, req[q].owner)
       ELSE UNCHANGED clientVars
    /\ UNCHANGED <<dbVars, retained, edgeVars, faults>>

\* publish_embedding_upsert, after which the handler answers 201.
CreatePublish(q) ==
    /\ Handle(q, "publish", Idle)
    /\ \E id \in req[q].ids : ClientPublish(id, req[q].owner)
    /\ UNCHANGED <<dbVars, retained, edgeVars, faults>>

IdsOf(e) == {r.id : r \in {s \in rows : s.owner = e}}

\* Mutant: the ids are selected after the cascade has removed them.
DeleteSelect_AfterCascade(q) ==
    \E e \in Employees :
        /\ Handle(q, "idle", [pc |-> "delete", owner |-> e, ids |-> {}])
        /\ Overlap(e, {"publish"})
        /\ UNCHANGED <<dbVars, clientVars, retained, edgeVars>>

\* DELETE /employees/:id begins: the SELECT of the ids to tombstone later.
DeleteSelect(q) ==
    \E e \in Employees :
        /\ Handle(q, "idle", [pc |-> "delete", owner |-> e, ids |-> IdsOf(e)])
        /\ Overlap(e, {"publish"})
        /\ UNCHANGED <<dbVars, clientVars, retained, edgeVars>>

\* Mutant: the embeddings of a deleted employee stay (no ON DELETE CASCADE).
DeleteRow_NoCascade(q) ==
    /\ \/ /\ req[q].owner \in employees
          /\ Handle(q, "delete", [req[q] EXCEPT !.pc = "tombstone"])
          /\ employees' = employees \ {req[q].owner}
          /\ UNCHANGED faults
       \/ /\ Handle(q, "delete", Idle)
          /\ \/ req[q].owner \notin employees /\ UNCHANGED faults
             \/ Fault("db")
          /\ UNCHANGED employees
    /\ UNCHANGED <<rows, nextId, clientVars, retained, edgeVars>>

\* The DELETE, which cascades to embeddings.  The handler ends here when the
\* employee does not exist (404) or the statement fails (500).
DeleteRow(q) ==
    /\ \/ /\ req[q].owner \in employees
          /\ Handle(q, "delete", [req[q] EXCEPT !.pc = "tombstone"])
          /\ employees' = employees \ {req[q].owner}
          /\ rows' = {r \in rows : r.owner # req[q].owner}
          /\ UNCHANGED faults
       \/ /\ Handle(q, "delete", Idle)
          /\ \/ req[q].owner \notin employees /\ UNCHANGED faults
             \/ Fault("db")
          /\ UNCHANGED <<employees, rows>>
    /\ UNCHANGED <<nextId, clientVars, retained, edgeVars>>

\* Mutant: the loop forgets to advance.
DeleteTombstone_Again(q) ==
    /\ \/ /\ req[q].ids = {}
          /\ Handle(q, "tombstone", Idle)
          /\ UNCHANGED clientVars
       \/ \E id \in req[q].ids :
            /\ Handle(q, "tombstone", req[q])
            /\ ClientPublish(id, None)
    /\ UNCHANGED <<dbVars, retained, edgeVars, faults>>

\* One iteration of the loop over embedding_ids, or its end (204).
DeleteTombstone(q) ==
    /\ \/ /\ req[q].ids = {}
          /\ Handle(q, "tombstone", Idle)
          /\ UNCHANGED clientVars
       \/ \E id \in req[q].ids :
            /\ Handle(q, "tombstone", [req[q] EXCEPT !.ids = @ \ {id}])
            /\ ClientPublish(id, None)
    /\ UNCHANGED <<dbVars, retained, edgeVars, faults>>

\* The process dies with its handlers and the memory of rumqttc; docker
\* starts it again.
BackendExit ==
    /\ Fault("backend_exit")
    /\ req' = [q \in Requests |-> Idle]
    /\ client' = <<>>
    /\ sent' = 0
    /\ UNCHANGED <<dbVars, retained, edgeVars>>

-----------------------------------------------------------------------------
(* rumqttc and the broker                                                  *)

\* The broker replaces the retained payload of the topic, an empty one clears
\* it, and forwards the message to the device if it is subscribed.
BrokerReceive ==
    /\ sent < Len(client)
    /\ sent' = sent + 1
    /\ LET m == client[sent + 1]
       IN  /\ retained' = [retained EXCEPT ![m.id] = m.owner]
           /\ wire' = IF session = "subscribed" THEN Append(wire, m) ELSE wire
    /\ UNCHANGED <<dbVars, req, client, session, applying, storage, matcher,
                   faults>>

PubAck ==
    /\ sent > 0
    /\ client' = Tail(client)
    /\ sent' = sent - 1
    /\ UNCHANGED <<dbVars, req, retained, edgeVars, faults>>

\* run_loop polls again, rumqttc reconnects and sends what is unacknowledged.
BackendReconnect ==
    /\ Fault("backend_link")
    /\ sent' = 0
    /\ UNCHANGED <<dbVars, req, client, retained, edgeVars>>

-----------------------------------------------------------------------------
(* The device: MqttSubscriber                                              *)

RetainedMessages ==
    {[id |-> i, owner |-> retained[i]] : i \in {j \in Ids : retained[j] # None}}

\* on_connect subscribes; the session is clean, so all the broker sends is
\* what is retained, in any order.
OnConnect ==
    /\ session = "off"
    /\ \/ /\ session' = "subscribed"
          /\ wire' \in SetToSeqs(RetainedMessages)
          /\ UNCHANGED faults
       \/ /\ session' = "deaf"
          /\ Fault("subscribe")
          /\ UNCHANGED wire
    /\ UNCHANGED <<dbVars, req, clientVars, retained, applying, storage, matcher>>

\* on_disconnect; the broker drops what it had for a clean session.
OnDisconnect ==
    /\ session \in {"deaf", "subscribed"}
    /\ Fault("link")
    /\ session' = "off"
    /\ wire' = <<>>
    /\ UNCHANGED <<dbVars, req, clientVars, retained, applying, storage, matcher>>

\* on_message up to Storage::upsert_embedding or Storage::delete_embedding;
\* when that throws the message is logged and dropped.
ApplyStorage ==
    /\ applying = None
    /\ wire # <<>>
    /\ wire' = Tail(wire)
    /\ \/ /\ storage' = [storage EXCEPT ![Head(wire).id] = Head(wire).owner]
          /\ applying' = Head(wire)
          /\ UNCHANGED faults
       \/ Fault("storage") /\ UNCHANGED <<storage, applying>>
    /\ UNCHANGED <<dbVars, req, clientVars, retained, session, matcher>>

\* Mutant: a tombstone is applied to SQLite only.
ApplyMatcher_UpsertOnly ==
    /\ applying # None
    /\ matcher' = IF applying.owner = None THEN matcher
                  ELSE [matcher EXCEPT ![applying.id] = applying.owner]
    /\ applying' = None
    /\ UNCHANGED <<dbVars, req, clientVars, retained, session, wire, storage,
                   faults>>

\* Matcher::upsert or Matcher::remove.
ApplyMatcher ==
    /\ applying # None
    /\ matcher' = [matcher EXCEPT ![applying.id] = applying.owner]
    /\ applying' = None
    /\ UNCHANGED <<dbVars, req, clientVars, retained, session, wire, storage,
                   faults>>

\* The process ends; what remains is the SQLite file.
EdgeExit ==
    /\ session # "down"
    /\ Fault("edge_exit")
    /\ session' = "down"
    /\ wire' = <<>>
    /\ applying' = None
    /\ matcher' = [i \in Ids |-> None]
    /\ UNCHANGED <<dbVars, req, clientVars, retained, storage>>

\* main() loads the embeddings before it creates the matcher and the client.
EdgeStart ==
    /\ session = "down"
    /\ session' = "off"
    /\ matcher' = storage
    /\ UNCHANGED <<dbVars, req, clientVars, retained, wire, applying, storage,
                   faults>>

-----------------------------------------------------------------------------
HandlerStep ==
    \E q \in Requests :
        \/ CreateInsert(q) \/ CreatePublish(q)
        \/ DeleteSelect(q) \/ DeleteRow(q) \/ DeleteTombstone(q)

BackendStep == HandlerStep \/ BackendExit \/ BackendReconnect

BrokerStep == BrokerReceive \/ PubAck

EdgeStep ==
    \/ OnConnect \/ OnDisconnect \/ ApplyStorage \/ ApplyMatcher
    \/ EdgeExit \/ EdgeStart

Next == BackendStep \/ BrokerStep \/ EdgeStep

\* A handler that has begun is polled until it ends, connections come up and
\* deliver.  Nothing makes a request arrive, a fault happen or the process on
\* the device start.
Fairness ==
    /\ \A q \in Requests :
        /\ WF_vars(CreatePublish(q))
        /\ WF_vars(DeleteRow(q))
        /\ WF_vars(DeleteTombstone(q))
    /\ WF_vars(BrokerReceive)
    /\ WF_vars(PubAck)
    /\ WF_vars(OnConnect)
    /\ WF_vars(ApplyStorage)
    /\ WF_vars(ApplyMatcher)

Spec == Init /\ [][Next]_vars
FairSpec == Spec /\ Fairness

-----------------------------------------------------------------------------
(* Properties                                                              *)

Happened(kinds) == kinds \cap faults.kinds # {}

\* Nothing is on its way and the device is subscribed.
Quiet ==
    /\ \A q \in Requests : req[q].pc = "idle"
    /\ client = <<>>
    /\ wire = <<>>
    /\ applying = None
    /\ session = "subscribed"

\* The matcher decides with what SQLite holds, except for the one embedding
\* on_message has just written, whatever fails and whenever the process ends.
MatcherMatchesStorage ==
    session # "down" =>
        \A i \in Ids :
            IF applying # None /\ applying.id = i THEN storage[i] = applying.owner
            ELSE matcher[i] = storage[i]

\* An embedding in PostgreSQL is retained by the broker unless it is still in
\* the hands of its handler or of rumqttc: a device that subscribes later
\* gets it.  Only a death of the backend in between breaks this.
EnrollmentRetained ==
    ~Happened({"backend_exit"}) =>
        \A r \in rows :
            \/ retained[r.id] = r.owner
            \/ [id |-> r.id, owner |-> r.owner] \in ToSet(client)
            \/ \E q \in Requests : req[q].pc = "publish" /\ r.id \in req[q].ids

\* When everything has been delivered the device knows every embedding of
\* PostgreSQL, after any number of lost connections and restarts of the device.
NoLostEnrollment ==
    (Quiet /\ ~Happened({"backend_exit", "storage"})) =>
        \A r \in rows : matcher[r.id] = r.owner

\* The device was connected all the time, the backend lived, and no embedding
\* was being created for an employee that was being deleted.
Undisturbed ==
    ~Happened({"backend_exit", "storage", "link", "subscribe", "edge_exit",
               "overlap"})

\* When everything has been delivered the device knows no embedding that
\* PostgreSQL has deleted, provided the device was connected all the time, the
\* backend lived, and no embedding was being created for the employee.
NoGhost ==
    (Quiet /\ Undisturbed) =>
        \A i \in Ids : matcher[i] # None => [id |-> i, owner |-> matcher[i]] \in rows

\* The device catches up with PostgreSQL, in what is added and what is deleted.
DeviceCatchesUp == NoLostEnrollment /\ NoGhost

\* What the documents promise of the mirror on the device, whatever happens.
\* A lost connection, overlapping requests and a backend that dies each break
\* it.
MirrorsCatalog ==
    Quiet => \A i \in Ids :
        IF matcher[i] = None THEN ~\E r \in rows : r.id = i
        ELSE [id |-> i, owner |-> matcher[i]] \in rows

\* A request that has begun is answered: publish() may have to wait for room
\* in rumqttc, but never forever while the broker can be reached.
RequestsFinish == \A q \in Requests : req[q].pc # "idle" ~> req[q].pc = "idle"

\* A deleted employee is no longer admitted in the end, under the same
\* conditions as NoGhost.
RevocationArrives ==
    \A e \in Employees :
        e \notin employees ~>
            \/ ~Undisturbed
            \/ session # "subscribed"
            \/ \A i \in Ids : matcher[i] # e

\* An embedding that stays in PostgreSQL reaches the matcher.
EnrollmentArrives ==
    \A i \in Ids :
        (\E r \in rows : r.id = i) ~>
            \/ Happened({"backend_exit", "storage"})
            \/ session \in {"down", "deaf"}
            \/ ~\E r \in rows : r.id = i
            \/ \E r \in rows : r.id = i /\ matcher[i] = r.owner
-----------------------------------------------------------------------------
(* The inductive invariants behind MatcherMatchesStorage and               *)
(* EnrollmentRetained                                                      *)

\* Without a subscription nothing arrives, without a process nothing is
\* applied.
SessionIsClean ==
    /\ session # "subscribed" => wire = <<>>
    /\ session = "down" => applying = None

MatcherInv == TypeOK /\ SessionIsClean /\ MatcherMatchesStorage

\* A message about an embedding that exists is its upsert: there is no
\* tombstone of it, and its id is not given out again.
Consistent(id, owner) ==
    /\ id < nextId
    /\ \A r \in rows : r.id = id => owner = r.owner

\* id is the primary key of embeddings.
RowsAreKeyed ==
    /\ \A r \in rows : r.id < nextId
    /\ \A r, s \in rows : r.id = s.id => r = s

ClientConsistent ==
    \A i \in 1..Len(client) : Consistent(client[i].id, client[i].owner)

\* What a handler is about to publish is consistent too; the ids it selected
\* belong to the employee it is about to delete.
HandlersConsistent ==
    \A q \in Requests :
        /\ req[q].pc = "publish" =>
            \A id \in req[q].ids : Consistent(id, req[q].owner)
        /\ req[q].pc = "delete" =>
            \A id \in req[q].ids :
                id < nextId /\ \A r \in rows : r.id = id => r.owner = req[q].owner
        /\ req[q].pc = "tombstone" =>
            \A id \in req[q].ids : Consistent(id, None)

\* POST creates one embedding.
OneUpsert ==
    \A q \in Requests : req[q].pc = "publish" => \A i, j \in req[q].ids : i = j

\* The broker has retained what this connection has sent.
SentIsRetained ==
    \A i \in 1..sent : \A r \in rows :
        r.id = client[i].id => retained[r.id] = r.owner

SyncInv ==
    /\ TypeOK
    /\ RowsAreKeyed
    /\ ClientConsistent
    /\ HandlersConsistent
    /\ OneUpsert
    /\ SentIsRetained
    /\ EnrollmentRetained

-----------------------------------------------------------------------------
(* The inductive invariant behind DeviceCatchesUp                          *)

\* What is on its way to the device, and what the device holds, agrees with
\* PostgreSQL about every embedding that exists.
DeviceConsistent ==
    /\ \A k \in 1..Len(wire) : Consistent(wire[k].id, wire[k].owner)
    /\ applying # None => Consistent(applying.id, applying.owner)
    /\ \A i \in Ids :
        /\ retained[i] # None => Consistent(i, retained[i])
        /\ storage[i] # None => Consistent(i, storage[i])
        /\ matcher[i] # None => Consistent(i, matcher[i])

\* What is retained has reached a subscribed device or is on its way there.
UpsertUnderway ==
    (session = "subscribed" /\ ~Happened({"storage"})) =>
        \A r \in rows : retained[r.id] = r.owner =>
            \/ matcher[r.id] = r.owner
            \/ applying # None /\ applying.id = r.id
            \/ \E k \in 1..Len(wire) : wire[k].id = r.id

\* While no overlap is recorded: an employee that is being deleted gets no
\* embedding, what a handler is about to publish is in PostgreSQL, and the ids
\* a DELETE selected are still all the embeddings of its employee.
OverlapIsRecorded ==
    ~Happened({"overlap"}) =>
        /\ \A p, q \in Requests :
            req[p].pc = "publish" /\ req[q].pc \in {"delete", "tombstone"} =>
                req[p].owner # req[q].owner
        /\ \A p \in Requests : req[p].pc = "publish" =>
            \A id \in req[p].ids : [id |-> id, owner |-> req[p].owner] \in rows
        /\ \A q \in Requests : req[q].pc = "delete" /\ req[q].owner \in employees =>
            IdsOf(req[q].owner) \subseteq req[q].ids

\* Undisturbed, the device is in its first session or about to begin it.
FirstSession ==
    Undisturbed =>
        /\ session \in {"off", "subscribed"}
        /\ session = "off" => applying = None /\ \A i \in Ids : matcher[i] = None

Tombstone(i) == [id |-> i, owner |-> None]

Upsert(m, i) == m.id = i /\ m.owner # None

TombstoneUnsent(i) == \E k \in (sent + 1)..Len(client) : client[k] = Tombstone(i)

TombstoneOnWire(i) == \E k \in 1..Len(wire) : wire[k] = Tombstone(i)

\* Wherever an upsert of i is, a tombstone of i comes after it.
RevocationFollows(i) ==
    /\ \A j \in 1..Len(client) : Upsert(client[j], i) =>
        \E k \in (j + 1)..Len(client) : client[k] = Tombstone(i)
    /\ \A j \in 1..Len(wire) : Upsert(wire[j], i) =>
        TombstoneUnsent(i) \/ \E k \in (j + 1)..Len(wire) : wire[k] = Tombstone(i)
    /\ retained[i] # None => TombstoneUnsent(i)
    /\ applying # None /\ Upsert(applying, i) => TombstoneUnsent(i) \/ TombstoneOnWire(i)
    /\ matcher[i] # None =>
        TombstoneUnsent(i) \/ TombstoneOnWire(i) \/ applying = Tombstone(i)

Deleted(i) == i < nextId /\ \A r \in rows : r.id # i

TombstoneWithHandler(i) ==
    \E q \in Requests : req[q].pc = "tombstone" /\ i \in req[q].ids

\* When PostgreSQL has deleted an embedding, its handler has yet to publish
\* the tombstone, or the tombstone comes last everywhere.
RevocationUnderway ==
    Undisturbed =>
        \A i \in Ids : Deleted(i) => TombstoneWithHandler(i) \/ RevocationFollows(i)

CatchUpInv ==
    /\ SyncInv
    /\ SessionIsClean
    /\ MatcherMatchesStorage
    /\ DeviceConsistent
    /\ UpsertUnderway
    /\ OverlapIsRecorded
    /\ FirstSession
    /\ RevocationUnderway
=============================================================================
