------------------------ MODULE EmbeddingSync_proofs ------------------------
(***************************************************************************)
(* Proofs about EmbeddingSync, for any set of employees, any number of     *)
(* embeddings and concurrent requests, any capacity of the client and any  *)
(* set and number of faults.                                               *)
(***************************************************************************)
EXTENDS EmbeddingSync, TLAPS, SequenceTheorems, FiniteSetTheorems

-----------------------------------------------------------------------------
(* Facts about queues.                                                     *)

LEMMA AppendFacts ==
    ASSUME NEW S, NEW s \in Seq(S), NEW x \in S
    PROVE  /\ Append(s, x) \in Seq(S)
           /\ Len(Append(s, x)) = Len(s) + 1
           /\ Len(s) \in Nat
           /\ \A i \in 1..Len(s) : Append(s, x)[i] = s[i]
           /\ Append(s, x)[Len(s) + 1] = x
OBVIOUS

LEMMA TailFacts ==
    ASSUME NEW S, NEW s \in Seq(S), s # <<>>
    PROVE  /\ Tail(s) \in Seq(S)
           /\ Head(s) \in S
           /\ Head(s) = s[1]
           /\ Len(Tail(s)) = Len(s) - 1
           /\ Len(s) \in Nat \ {0}
           /\ \A i \in 1..(Len(s) - 1) : Tail(s)[i] = s[i + 1]
OBVIOUS

LEMMA ElementFacts ==
    ASSUME NEW S, NEW s \in Seq(S), NEW i \in 1..Len(s)
    PROVE  s[i] \in S /\ s[i] \in ToSet(s)
BY DEF ToSet

LEMMA MemberFacts ==
    ASSUME NEW S, NEW s \in Seq(S), NEW x \in ToSet(s)
    PROVE  \E i \in 1..Len(s) : s[i] = x
BY DEF ToSet

LEMMA FunctionIsSequence ==
    ASSUME NEW S, NEW n \in Nat, NEW f \in [1..n -> S]
    PROVE  f \in Seq(S)
OBVIOUS

-----------------------------------------------------------------------------
(* The state stays well formed.                                            *)

\* A fault uses up part of the budget and nothing else.
LEMMA SyncFaultType ==
    ASSUME TypeOK, NEW k, Fault(k)
    PROVE  /\ faults' \in [kinds : SUBSET (Faults \cup {"overlap"}), left : 0..FaultBudget]
           /\ faults.kinds \subseteq faults'.kinds
           /\ k \in faults'.kinds
<1>1. /\ faults.kinds \subseteq Faults \cup {"overlap"}
      /\ faults.left \in 0..FaultBudget
  BY DEF TypeOK
<1>2. faults.left - 1 \in 0..FaultBudget
  BY <1>1, SyncBoundsAssumption DEF Fault
<1> QED BY <1>1, <1>2 DEF Fault

\* Recording an overlap changes the history only.
LEMMA OverlapType ==
    ASSUME TypeOK, NEW e, NEW pcs, Overlap(e, pcs)
    PROVE  /\ faults' \in [kinds : SUBSET (Faults \cup {"overlap"}), left : 0..FaultBudget]
           /\ faults.kinds \subseteq faults'.kinds
<1>1. /\ faults.kinds \subseteq Faults \cup {"overlap"}
      /\ faults.left \in 0..FaultBudget
      /\ faults = [kinds |-> faults.kinds, left |-> faults.left]
  BY DEF TypeOK
<1>2. CASE faults' = faults
  BY <1>1, <1>2
<1>3. CASE faults' = [faults EXCEPT !.kinds = @ \cup {"overlap"}]
  <2>1. faults' = [kinds |-> faults.kinds \cup {"overlap"}, left |-> faults.left]
    BY <1>1, <1>3
  <2> QED BY <2>1, <1>1
<1> QED BY <1>2, <1>3 DEF Overlap

\* What a subscription delivers first is a sequence of retained messages.
LEMMA SnapshotType ==
    ASSUME TypeOK, NEW s \in SetToSeqs(RetainedMessages)
    PROVE  s \in Seq(Message)
<1> DEFINE J == {j \in Ids : retained[j] # None}
           f == [i \in J |-> [id |-> i, owner |-> retained[i]]]
<1>1. IsFiniteSet(J)
  <2>1. IsFiniteSet(Ids)
    BY FS_Interval, SyncBoundsAssumption DEF Ids
  <2> QED BY <2>1, FS_Subset
<1>2. f \in Surjection(J, RetainedMessages)
  BY DEF RetainedMessages, Surjection
<1>3. IsFiniteSet(RetainedMessages)
  <2> HIDE DEF J, f
  <2> QED BY <1>1, <1>2, FS_Surjection
<1>4. Cardinality(RetainedMessages) \in Nat
  BY <1>3, FS_CardinalityType
<1>5. RetainedMessages \subseteq Message
  BY DEF TypeOK, RetainedMessages, Message
<1>6. s \in [1..Cardinality(RetainedMessages) -> RetainedMessages]
  BY DEF SetToSeqs
<1>7. s \in [1..Cardinality(RetainedMessages) -> Message]
  BY <1>5, <1>6
<1> QED BY <1>4, <1>7, FunctionIsSequence

\* Publishing appends one message.
LEMMA PublishType ==
    ASSUME TypeOK, NEW id \in Ids, NEW owner \in Payload, ClientPublish(id, owner)
    PROVE  /\ client' = Append(client, [id |-> id, owner |-> owner])
           /\ client' \in Seq(Message)
           /\ Len(client') = Len(client) + 1
           /\ Len(client) \in Nat
           /\ sent' = sent
           /\ sent' \in 0..Len(client')
<1>1. /\ client \in Seq(Message)
      /\ sent \in 0..Len(client)
      /\ [id |-> id, owner |-> owner] \in Message
  BY DEF TypeOK, Message
<1>2. client' = Append(client, [id |-> id, owner |-> owner]) /\ sent' = sent
  BY DEF ClientPublish
<1> QED BY <1>1, <1>2, AppendFacts

LEMMA SyncTypeInit == ASSUME Init PROVE TypeOK
<1>1. <<>> \in Seq(Message) /\ Len(<<>>) = 0
  OBVIOUS
<1>2. Idle \in Handler
  BY DEF Idle, Handler, Payload
<1> QED BY <1>1, <1>2, SyncBoundsAssumption DEF Init, TypeOK, Payload

\* The handlers.
LEMMA HandlerType ==
    ASSUME TypeOK, HandlerStep
    PROVE  TypeOK'
<1> USE DEF Handle
<1> PICK q \in Requests : \/ CreateInsert(q) \/ CreatePublish(q)
                          \/ DeleteSelect(q) \/ DeleteRow(q) \/ DeleteTombstone(q)
  BY DEF HandlerStep
<1>0. /\ req \in [Requests -> Handler]
      /\ req[q] \in Handler
      /\ req[q].owner \in Payload
      /\ req[q].ids \subseteq Ids
      /\ Idle \in Handler
  BY DEF TypeOK, Handler, Idle, Payload
<1>1. CASE CreateInsert(q)
  <2>1. PICK e \in employees :
          /\ nextId <= MaxId
          /\ req' = [req EXCEPT ![q] = [pc |-> "publish", owner |-> e, ids |-> {nextId}]]
          /\ rows' = rows \cup {[id |-> nextId, owner |-> e]}
          /\ nextId' = nextId + 1
          /\ Overlap(e, {"delete", "tombstone"})
          /\ UNCHANGED <<employees, clientVars, retained, edgeVars>>
    BY <1>1 DEF CreateInsert
  <2>2. nextId \in Ids /\ nextId' \in 1..(MaxId + 1)
    BY <2>1, SyncBoundsAssumption DEF TypeOK, Ids
  <2>3. [pc |-> "publish", owner |-> e, ids |-> {nextId}] \in Handler
    BY <2>2 DEF Handler, TypeOK, Payload
  <2>4. req' \in [Requests -> Handler]
    BY <2>1, <2>3, <1>0
  <2>5. rows' \subseteq [id : Ids, owner : employees']
    BY <2>1, <2>2 DEF TypeOK
  <2>6. faults' \in [kinds : SUBSET (Faults \cup {"overlap"}), left : 0..FaultBudget]
    BY <2>1, OverlapType
  <2> QED BY <2>1, <2>2, <2>4, <2>5, <2>6 DEF TypeOK, clientVars, edgeVars
<1>2. CASE CreatePublish(q)
  <2>1. PICK id \in req[q].ids : ClientPublish(id, req[q].owner)
    BY <1>2 DEF CreatePublish
  <2>2. client' \in Seq(Message) /\ sent' \in 0..Len(client')
    BY <2>1, <1>0, PublishType
  <2>3. req' \in [Requests -> Handler]
    BY <1>2, <1>0 DEF CreatePublish
  <2> QED BY <2>2, <2>3, <1>2 DEF TypeOK, CreatePublish, dbVars, edgeVars
<1>3. CASE DeleteSelect(q)
  <2>1. PICK e \in Employees :
          /\ req' = [req EXCEPT ![q] = [pc |-> "delete", owner |-> e, ids |-> IdsOf(e)]]
          /\ Overlap(e, {"publish"})
          /\ UNCHANGED <<dbVars, clientVars, retained, edgeVars>>
    BY <1>3 DEF DeleteSelect
  <2>2. IdsOf(e) \subseteq Ids
    BY DEF IdsOf, TypeOK
  <2>3. [pc |-> "delete", owner |-> e, ids |-> IdsOf(e)] \in Handler
    BY <2>2 DEF Handler, Payload
  <2>4. req' \in [Requests -> Handler]
    BY <2>1, <2>3, <1>0
  <2>5. faults' \in [kinds : SUBSET (Faults \cup {"overlap"}), left : 0..FaultBudget]
    BY <2>1, OverlapType
  <2> QED BY <2>1, <2>4, <2>5 DEF TypeOK, dbVars, clientVars, edgeVars
<1>4. CASE DeleteRow(q)
  <2>1. CASE /\ req' = [req EXCEPT ![q] = [req[q] EXCEPT !.pc = "tombstone"]]
             /\ employees' = employees \ {req[q].owner}
             /\ rows' = {r \in rows : r.owner # req[q].owner}
             /\ UNCHANGED faults
    <3>1. [req[q] EXCEPT !.pc = "tombstone"] \in Handler
      BY <1>0 DEF Handler
    <3>2. req' \in [Requests -> Handler]
      BY <2>1, <3>1, <1>0
    <3>3. rows' \subseteq [id : Ids, owner : employees']
      BY <2>1 DEF TypeOK
    <3> QED BY <2>1, <3>2, <3>3, <1>4 DEF TypeOK, DeleteRow, clientVars, edgeVars
  <2>2. CASE /\ req' = [req EXCEPT ![q] = Idle]
             /\ UNCHANGED faults \/ Fault("db")
             /\ UNCHANGED <<employees, rows>>
    <3>1. req' \in [Requests -> Handler]
      BY <2>2, <1>0
    <3>2. faults' \in [kinds : SUBSET (Faults \cup {"overlap"}), left : 0..FaultBudget]
      BY <2>2, SyncFaultType DEF TypeOK
    <3> QED BY <2>2, <3>1, <3>2, <1>4 DEF TypeOK, DeleteRow, clientVars, edgeVars
  <2> QED BY <1>4, <2>1, <2>2 DEF DeleteRow
<1>5. CASE DeleteTombstone(q)
  <2>1. CASE /\ req' = [req EXCEPT ![q] = Idle]
             /\ UNCHANGED clientVars
    <3>1. req' \in [Requests -> Handler]
      BY <2>1, <1>0
    <3> QED BY <3>1, <2>1, <1>5 DEF TypeOK, DeleteTombstone, dbVars, clientVars, edgeVars
  <2>2. CASE \E id \in req[q].ids :
               /\ req' = [req EXCEPT ![q] = [req[q] EXCEPT !.ids = @ \ {id}]]
               /\ ClientPublish(id, None)
    <3>1. PICK id \in req[q].ids :
            /\ req' = [req EXCEPT ![q] = [req[q] EXCEPT !.ids = @ \ {id}]]
            /\ ClientPublish(id, None)
      BY <2>2
    <3>2. client' \in Seq(Message) /\ sent' \in 0..Len(client')
      BY <3>1, <1>0, PublishType DEF Payload
    <3>3. [req[q] EXCEPT !.ids = @ \ {id}] \in Handler
      BY <1>0 DEF Handler
    <3>4. req' \in [Requests -> Handler]
      BY <3>1, <3>3, <1>0
    <3> QED BY <3>2, <3>4, <1>5 DEF TypeOK, DeleteTombstone, dbVars, edgeVars
  <2> QED BY <1>5, <2>1, <2>2 DEF DeleteTombstone
<1> QED BY <1>1, <1>2, <1>3, <1>4, <1>5

\* Restarts and the link of the backend, the broker.
LEMMA BrokerType ==
    ASSUME TypeOK, BackendExit \/ BackendReconnect \/ BrokerStep
    PROVE  TypeOK'
<1>1. CASE BackendExit
  <2>1. faults' \in [kinds : SUBSET (Faults \cup {"overlap"}), left : 0..FaultBudget]
    BY <1>1, SyncFaultType DEF BackendExit
  <2>2. Idle \in Handler
    BY DEF Idle, Handler, Payload
  <2>3. <<>> \in Seq(Message) /\ Len(<<>>) = 0
    OBVIOUS
  <2> QED BY <1>1, <2>1, <2>2, <2>3 DEF BackendExit, TypeOK, dbVars, edgeVars
<1>2. CASE BackendReconnect
  <2>1. faults' \in [kinds : SUBSET (Faults \cup {"overlap"}), left : 0..FaultBudget]
    BY <1>2, SyncFaultType DEF BackendReconnect
  <2>2. sent' \in 0..Len(client)
    BY <1>2 DEF BackendReconnect, TypeOK
  <2> QED BY <1>2, <2>1, <2>2 DEF BackendReconnect, TypeOK, dbVars, edgeVars
<1>3. CASE BrokerReceive
  <2>1. sent + 1 \in 1..Len(client) /\ sent' \in 0..Len(client)
    BY <1>3 DEF BrokerReceive, TypeOK
  <2>2. client[sent + 1] \in Message
    BY <2>1, ElementFacts DEF TypeOK
  <2>3. retained' \in [Ids -> Payload]
    BY <1>3, <2>2 DEF BrokerReceive, TypeOK, Message
  <2>4. wire' \in Seq(Message)
    BY <1>3, <2>2, AppendFacts DEF BrokerReceive, TypeOK
  <2> QED BY <1>3, <2>1, <2>3, <2>4 DEF BrokerReceive, TypeOK, dbVars
<1>4. CASE PubAck
  <2>1. client # <<>> /\ sent - 1 \in 0..(Len(client) - 1)
    BY <1>4 DEF PubAck, TypeOK
  <2>2. client' \in Seq(Message) /\ sent' \in 0..Len(client')
    BY <1>4, <2>1, TailFacts DEF PubAck, TypeOK
  <2> QED BY <1>4, <2>2 DEF PubAck, TypeOK, dbVars, edgeVars
<1> QED BY <1>1, <1>2, <1>3, <1>4 DEF BrokerStep

\* The device.
LEMMA EdgeType ==
    ASSUME TypeOK, EdgeStep
    PROVE  TypeOK'
<1> USE DEF dbVars, clientVars
<1>0. <<>> \in Seq(Message)
  OBVIOUS
<1>1. CASE OnConnect
  <2>1. faults' \in [kinds : SUBSET (Faults \cup {"overlap"}), left : 0..FaultBudget]
    BY <1>1, SyncFaultType DEF OnConnect, TypeOK
  <2>2. wire' \in Seq(Message)
    BY <1>1, SnapshotType DEF OnConnect, TypeOK
  <2> QED BY <1>1, <2>1, <2>2 DEF OnConnect, TypeOK
<1>2. CASE OnDisconnect
  <2>1. faults' \in [kinds : SUBSET (Faults \cup {"overlap"}), left : 0..FaultBudget]
    BY <1>2, SyncFaultType DEF OnDisconnect
  <2> QED BY <1>2, <2>1, <1>0 DEF OnDisconnect, TypeOK
<1>3. CASE ApplyStorage
  <2>1. Tail(wire) \in Seq(Message) /\ Head(wire) \in Message
    BY <1>3, TailFacts DEF ApplyStorage, TypeOK
  <2>2. faults' \in [kinds : SUBSET (Faults \cup {"overlap"}), left : 0..FaultBudget]
    BY <1>3, SyncFaultType DEF ApplyStorage, TypeOK
  <2>3. storage' \in [Ids -> Payload] /\ applying' \in Message \cup {None}
    BY <1>3, <2>1 DEF ApplyStorage, TypeOK, Message
  <2> QED BY <1>3, <2>1, <2>2, <2>3 DEF ApplyStorage, TypeOK
<1>4. CASE ApplyMatcher
  <2>1. applying \in Message
    BY <1>4 DEF ApplyMatcher, TypeOK
  <2> QED BY <1>4, <2>1 DEF ApplyMatcher, TypeOK, Message
<1>5. CASE EdgeExit
  <2>1. faults' \in [kinds : SUBSET (Faults \cup {"overlap"}), left : 0..FaultBudget]
    BY <1>5, SyncFaultType DEF EdgeExit
  <2> QED BY <1>5, <2>1, <1>0 DEF EdgeExit, TypeOK, Payload
<1>6. CASE EdgeStart
  BY <1>6 DEF EdgeStart, TypeOK
<1> QED BY <1>1, <1>2, <1>3, <1>4, <1>5, <1>6 DEF EdgeStep

LEMMA SyncTypeStep ==
    ASSUME TypeOK, [Next]_vars
    PROVE  TypeOK'
<1>1. CASE UNCHANGED vars
  BY <1>1 DEF vars, dbVars, clientVars, edgeVars, TypeOK
<1> QED BY <1>1, HandlerType, BrokerType, EdgeType DEF Next, BackendStep

\* The state is well formed: in particular the count of messages sent on the
\* connection never exceeds what rumqttc holds.
THEOREM SyncTypeCorrect == Spec => []TypeOK
BY SyncTypeInit, SyncTypeStep, PTL DEF Spec

-----------------------------------------------------------------------------
(* MatcherMatchesStorage, from MatcherInv.                                 *)

LEMMA MatcherStep ==
    ASSUME MatcherInv, [Next]_vars
    PROVE  (SessionIsClean /\ MatcherMatchesStorage)'
<1> USE DEF MatcherInv, SessionIsClean, MatcherMatchesStorage
<1>1. CASE UNCHANGED vars \/ BackendStep \/ PubAck
  <2>1. UNCHANGED <<session, wire, applying, storage, matcher>>
    BY <1>1 DEF vars, edgeVars, BackendStep, HandlerStep, CreateInsert,
                CreatePublish, DeleteSelect, DeleteRow, DeleteTombstone,
                BackendExit, BackendReconnect, PubAck
  <2> QED BY <2>1
<1>2. CASE BrokerReceive \/ OnConnect \/ OnDisconnect
  BY <1>2 DEF BrokerReceive, OnConnect, OnDisconnect
<1>3. CASE ApplyStorage
  <2>1. Head(wire) \in Message /\ Tail(wire) \in Seq(Message)
    BY <1>3, TailFacts DEF ApplyStorage, TypeOK
  <2>2. session = "subscribed" /\ applying = None /\ UNCHANGED <<session, matcher>>
    BY <1>3 DEF ApplyStorage
  <2>3. CASE UNCHANGED <<storage, applying>>
    BY <2>2, <2>3
  <2>4. CASE /\ storage' = [storage EXCEPT ![Head(wire).id] = Head(wire).owner]
             /\ applying' = Head(wire)
    <3>1. applying' # None
      BY <2>1, <2>4, NoMessageAssumption
    <3>2. /\ storage'[Head(wire).id] = Head(wire).owner
          /\ \A i \in Ids \ {Head(wire).id} : storage'[i] = storage[i]
      BY <2>1, <2>4 DEF TypeOK, Message
    <3> QED BY <2>2, <2>4, <3>1, <3>2
  <2> QED BY <1>3, <2>3, <2>4 DEF ApplyStorage
<1>4. CASE ApplyMatcher
  <2>1. applying \in Message
    BY <1>4 DEF ApplyMatcher, TypeOK
  <2>2. /\ matcher'[applying.id] = applying.owner
        /\ \A i \in Ids \ {applying.id} : matcher'[i] = matcher[i]
    BY <1>4, <2>1 DEF ApplyMatcher, TypeOK, Message
  <2>3. applying' = None /\ UNCHANGED <<session, wire, storage>>
    BY <1>4 DEF ApplyMatcher
  <2>4. applying # None
    BY <1>4 DEF ApplyMatcher
  <2> QED BY <2>1, <2>2, <2>3, <2>4
<1>5. CASE EdgeExit \/ EdgeStart
  BY <1>5 DEF EdgeExit, EdgeStart
<1> QED BY <1>1, <1>2, <1>3, <1>4, <1>5 DEF Next, BrokerStep, EdgeStep

\* The matcher and SQLite agree on every embedding but the one on_message is
\* between its two calls for, whatever fails and whenever the process ends.
THEOREM MatcherFollowsStorage == Spec => []MatcherMatchesStorage
<1>1. Init => SessionIsClean /\ MatcherMatchesStorage
  BY DEF Init, SessionIsClean, MatcherMatchesStorage
<1>2. TypeOK /\ SessionIsClean /\ MatcherMatchesStorage /\ [Next]_vars
        => (SessionIsClean /\ MatcherMatchesStorage)'
  BY MatcherStep DEF MatcherInv
<1>3. SessionIsClean /\ MatcherMatchesStorage => MatcherMatchesStorage
  OBVIOUS
<1> QED BY <1>1, <1>2, <1>3, SyncTypeCorrect, PTL DEF Spec

-----------------------------------------------------------------------------
(* EnrollmentRetained, from SyncInv.                                       *)

\* SyncInv without TypeOK and OneUpsert: what the lemmas below establish.
Kept ==
    /\ RowsAreKeyed
    /\ ClientConsistent
    /\ HandlersConsistent
    /\ SentIsRetained
    /\ EnrollmentRetained

\* Steps that leave the backend and what is retained alone.
LEMMA KeptElsewhere ==
    ASSUME SyncInv, UNCHANGED <<dbVars, req, clientVars, retained>>,
           faults.kinds \subseteq faults'.kinds
    PROVE  Kept'
BY DEF SyncInv, Kept, RowsAreKeyed, ClientConsistent, HandlersConsistent,
       SentIsRetained, EnrollmentRetained, Consistent, dbVars, clientVars,
       Happened

\* Publishing something consistent keeps the queue consistent and what is
\* already sent untouched.
LEMMA KeptByPublish ==
    ASSUME SyncInv, NEW id \in Ids, NEW owner \in Payload,
           Consistent(id, owner), ClientPublish(id, owner),
           UNCHANGED <<dbVars, retained>>
    PROVE  /\ RowsAreKeyed'
           /\ ClientConsistent'
           /\ SentIsRetained'
           /\ [id |-> id, owner |-> owner] \in ToSet(client)'
           /\ ToSet(client) \subseteq ToSet(client)'
<1> DEFINE m == [id |-> id, owner |-> owner]
<1>0. TypeOK /\ client \in Seq(Message) /\ m \in Message
  BY DEF SyncInv, TypeOK, Message
<1>1. /\ client' = Append(client, m)
      /\ client' \in Seq(Message)
      /\ Len(client') = Len(client) + 1
      /\ Len(client) \in Nat
      /\ sent' = sent
      /\ sent \in 0..Len(client)
  BY <1>0, PublishType DEF TypeOK
<1>2. /\ \A i \in 1..Len(client) : client'[i] = client[i]
      /\ client'[Len(client) + 1] = m
  BY <1>0, <1>1, AppendFacts
<1>3. \A i \in 1..Len(client') : i \in 1..Len(client) \/ i = Len(client) + 1
  BY <1>1
<1>4. RowsAreKeyed'
  BY DEF SyncInv, RowsAreKeyed, dbVars
<1>5. ClientConsistent'
  <2> SUFFICES ASSUME NEW i \in 1..Len(client')
               PROVE  /\ client'[i].id < nextId
                      /\ \A r \in rows : r.id = client'[i].id => client'[i].owner = r.owner
    BY DEF ClientConsistent, Consistent, dbVars
  <2>1. CASE i \in 1..Len(client)
    BY <2>1, <1>2 DEF SyncInv, ClientConsistent, Consistent, dbVars
  <2>2. CASE i = Len(client) + 1
    BY <2>2, <1>2 DEF Consistent, dbVars
  <2> QED BY <1>3, <2>1, <2>2
<1>6. SentIsRetained'
  <2>1. \A i \in 1..sent : client'[i] = client[i]
    BY <1>1, <1>2
  <2> QED BY <2>1, <1>1 DEF SyncInv, SentIsRetained, dbVars
<1>7. m \in ToSet(client')
  <2>1. Len(client) + 1 \in 1..Len(client')
    BY <1>1
  <2> QED BY <2>1, <1>1, <1>2, ElementFacts
<1>8. ToSet(client) \subseteq ToSet(client')
  <2> SUFFICES ASSUME NEW x \in ToSet(client) PROVE x \in ToSet(client')
    OBVIOUS
  <2>1. PICK i \in 1..Len(client) : client[i] = x
    BY <1>0, MemberFacts
  <2>2. i \in 1..Len(client') /\ client'[i] = x
    BY <2>1, <1>1, <1>2
  <2> QED BY <2>2, <1>1, ElementFacts
<1> QED BY <1>4, <1>5, <1>6, <1>7, <1>8
\* What Consistent says, in the next state.
ConsistentNext(id, owner) ==
    /\ id < nextId'
    /\ \A r \in rows' : r.id = id => owner = r.owner

\* PostgreSQL only gives out fresh ids and only deletes rows.
RowsEvolve ==
    /\ nextId <= nextId'
    /\ nextId' \in Nat
    /\ \A r \in rows' : r.id < nextId => r \in rows

\* What was consistent stays so.
LEMMA ConsistentKept ==
    ASSUME SyncInv, RowsEvolve, NEW id \in Ids, NEW owner, Consistent(id, owner)
    PROVE  ConsistentNext(id, owner)
<1>1. id \in Nat /\ nextId \in Nat
  BY SyncBoundsAssumption DEF SyncInv, TypeOK, Ids
<1> QED BY <1>1 DEF RowsEvolve, Consistent, ConsistentNext

\* A statement on PostgreSQL leaves the queue and the other handlers alone.
LEMMA KeptByStatement ==
    ASSUME SyncInv, RowsEvolve, UNCHANGED <<clientVars, retained>>,
           NEW q \in Requests, \A p \in Requests \ {q} : req'[p] = req[p]
    PROVE  /\ ClientConsistent'
           /\ SentIsRetained'
           /\ \A p \in Requests \ {q} :
                /\ req'[p].pc = "publish" =>
                    \A id \in req'[p].ids : ConsistentNext(id, req'[p].owner)
                /\ req'[p].pc = "delete" =>
                    \A id \in req'[p].ids : id < nextId'
                        /\ \A r \in rows' : r.id = id => r.owner = req'[p].owner
                /\ req'[p].pc = "tombstone" =>
                    \A id \in req'[p].ids : ConsistentNext(id, None)
<1>0. TypeOK /\ nextId \in Nat
  BY DEF SyncInv, TypeOK
<1>1. ASSUME NEW i \in 1..Len(client) PROVE client[i].id \in Ids
  <2>1. client \in Seq(Message)
    BY <1>0 DEF TypeOK
  <2>2. client[i] \in Message
    BY <2>1, ElementFacts
  <2> QED BY <2>2 DEF Message
<1>2. ClientConsistent'
  <2> SUFFICES ASSUME NEW i \in 1..Len(client)
               PROVE  ConsistentNext(client[i].id, client[i].owner)
    BY DEF ClientConsistent, Consistent, ConsistentNext, clientVars
  <2> QED BY <1>1, ConsistentKept DEF SyncInv, ClientConsistent
<1>3. SentIsRetained'
  <2> SUFFICES ASSUME NEW i \in 1..sent, NEW r \in rows', r.id = client[i].id
               PROVE  retained[r.id] = r.owner
    BY DEF SentIsRetained, clientVars
  <2>1. i \in 1..Len(client)
    BY <1>0 DEF TypeOK
  <2>2. r \in rows
    BY <2>1 DEF SyncInv, ClientConsistent, Consistent, RowsEvolve
  <2> QED BY <2>2 DEF SyncInv, SentIsRetained
<1>4. ASSUME NEW p \in Requests \ {q}
      PROVE  /\ req[p].pc = "publish" =>
                \A id \in req[p].ids : ConsistentNext(id, req[p].owner)
             /\ req[p].pc = "delete" =>
                \A id \in req[p].ids : id < nextId'
                    /\ \A r \in rows' : r.id = id => r.owner = req[p].owner
             /\ req[p].pc = "tombstone" =>
                \A id \in req[p].ids : ConsistentNext(id, None)
  <2>1. req[p].ids \subseteq Ids
    BY <1>0 DEF TypeOK, Handler
  <2>2. req[p].pc = "publish" =>
            \A id \in req[p].ids : ConsistentNext(id, req[p].owner)
    BY <2>1, ConsistentKept DEF SyncInv, HandlersConsistent
  <2>3. req[p].pc = "tombstone" =>
            \A id \in req[p].ids : ConsistentNext(id, None)
    BY <2>1, ConsistentKept DEF SyncInv, HandlersConsistent
  <2>4. ASSUME req[p].pc = "delete", NEW id \in req[p].ids
        PROVE  id < nextId' /\ \A r \in rows' : r.id = id => r.owner = req[p].owner
    <3>1. id < nextId /\ \A r \in rows : r.id = id => r.owner = req[p].owner
      BY <2>4 DEF SyncInv, HandlersConsistent
    <3>2. id \in Nat
      BY <2>1, SyncBoundsAssumption DEF Ids
    <3> QED BY <3>1, <3>2, <1>0 DEF RowsEvolve
  <2> QED BY <2>2, <2>3, <2>4
<1> QED BY <1>2, <1>3, <1>4

\* The INSERT: the new row is with its handler.
LEMMA KeptByCreateInsert ==
    ASSUME SyncInv, NEW q \in Requests, CreateInsert(q)
    PROVE  Kept'
<1>0. TypeOK
  BY DEF SyncInv
<1>1. PICK e \in employees :
        /\ nextId <= MaxId
        /\ req[q].pc = "idle"
        /\ req' = [req EXCEPT ![q] = [pc |-> "publish", owner |-> e, ids |-> {nextId}]]
        /\ rows' = rows \cup {[id |-> nextId, owner |-> e]}
        /\ nextId' = nextId + 1
        /\ Overlap(e, {"delete", "tombstone"})
        /\ UNCHANGED <<clientVars, retained>>
  BY DEF CreateInsert, Handle
<1>2. /\ nextId \in Nat
      /\ \A r \in rows : r.id \in Nat /\ r.id < nextId
      /\ req'[q] = [pc |-> "publish", owner |-> e, ids |-> {nextId}]
      /\ \A p \in Requests \ {q} : req'[p] = req[p]
  BY <1>1, SyncBoundsAssumption DEF SyncInv, TypeOK, RowsAreKeyed, Ids
<1>3. RowsEvolve
  BY <1>1, <1>2 DEF RowsEvolve
<1>4. RowsAreKeyed'
  BY <1>1, <1>2 DEF SyncInv, RowsAreKeyed
<1>5. ConsistentNext(nextId, e)
  BY <1>1, <1>2 DEF ConsistentNext
<1>6. HandlersConsistent'
  BY <1>1, <1>2, <1>3, <1>5, KeptByStatement
     DEF HandlersConsistent, Consistent, ConsistentNext
<1>7. EnrollmentRetained'
  <2>1. faults.kinds \subseteq faults'.kinds
    BY <1>0, <1>1, OverlapType
  <2> SUFFICES ASSUME ~Happened({"backend_exit"}), NEW r \in rows'
               PROVE  \/ retained[r.id] = r.owner
                      \/ [id |-> r.id, owner |-> r.owner] \in ToSet(client)
                      \/ \E p \in Requests : req'[p].pc = "publish" /\ r.id \in req'[p].ids
    BY <1>1, <2>1 DEF EnrollmentRetained, Happened, clientVars
  <2>2. CASE r = [id |-> nextId, owner |-> e]
    BY <2>2, <1>2
  <2>3. CASE r \in rows
    <3>1. \A p \in Requests : req[p].pc = "publish" => req'[p] = req[p]
      BY <1>1, <1>2
    <3> QED BY <2>3, <3>1 DEF SyncInv, EnrollmentRetained
  <2> QED BY <1>1, <2>2, <2>3
<1> QED BY <1>2, <1>3, <1>4, <1>6, <1>7, <1>1, KeptByStatement DEF Kept

\* The SELECT of a DELETE request: the ids belong to its employee.
LEMMA KeptByDeleteSelect ==
    ASSUME SyncInv, NEW q \in Requests, DeleteSelect(q)
    PROVE  Kept'
<1>0. TypeOK
  BY DEF SyncInv
<1>1. PICK e \in Employees :
        /\ req[q].pc = "idle"
        /\ req' = [req EXCEPT ![q] = [pc |-> "delete", owner |-> e, ids |-> IdsOf(e)]]
        /\ Overlap(e, {"publish"})
        /\ UNCHANGED <<dbVars, clientVars, retained>>
  BY DEF DeleteSelect, Handle
<1>2. /\ nextId \in Nat
      /\ req'[q] = [pc |-> "delete", owner |-> e, ids |-> IdsOf(e)]
      /\ \A p \in Requests \ {q} : req'[p] = req[p]
      /\ \A p \in Requests : req[p].pc = "publish" => req'[p] = req[p]
  BY <1>1 DEF SyncInv, TypeOK
<1>3. RowsEvolve /\ RowsAreKeyed'
  BY <1>1, <1>2 DEF RowsEvolve, SyncInv, RowsAreKeyed, dbVars
<1>4. \A id \in IdsOf(e) : id < nextId /\ \A r \in rows : r.id = id => r.owner = e
  BY DEF IdsOf, SyncInv, RowsAreKeyed
<1>5. HandlersConsistent'
  BY <1>1, <1>2, <1>3, <1>4, KeptByStatement
     DEF HandlersConsistent, Consistent, ConsistentNext, dbVars
<1>6. EnrollmentRetained'
  <2>1. faults.kinds \subseteq faults'.kinds
    BY <1>0, <1>1, OverlapType
  <2> QED BY <1>1, <1>2, <2>1
        DEF SyncInv, EnrollmentRetained, Happened, dbVars, clientVars
<1> QED BY <1>1, <1>2, <1>3, <1>5, <1>6, KeptByStatement DEF Kept

\* The DELETE: what is left of the ids are tombstones of rows that are gone.
LEMMA KeptByDeleteRow ==
    ASSUME SyncInv, NEW q \in Requests, DeleteRow(q)
    PROVE  Kept'
<1>0. TypeOK
  BY DEF SyncInv
<1>1. /\ req[q].pc = "delete"
      /\ UNCHANGED <<nextId, clientVars, retained>>
      /\ rows' \subseteq rows
      /\ \/ /\ req' = [req EXCEPT ![q] = [req[q] EXCEPT !.pc = "tombstone"]]
            /\ \A r \in rows' : r.owner # req[q].owner
         \/ req' = [req EXCEPT ![q] = Idle]
  BY DEF DeleteRow, Handle
<1>2. faults.kinds \subseteq faults'.kinds
  BY <1>0, SyncFaultType DEF DeleteRow
<1>3. /\ nextId \in Nat
      /\ \A p \in Requests \ {q} : req'[p] = req[p]
      /\ \A p \in Requests : req[p].pc = "publish" => req'[p] = req[p]
      /\ req[q].ids \subseteq Ids
  BY <1>0, <1>1 DEF TypeOK, Handler
<1>4. RowsEvolve /\ RowsAreKeyed'
  BY <1>1, <1>3 DEF RowsEvolve, SyncInv, RowsAreKeyed
<1>5. \A id \in req[q].ids : id < nextId /\ \A r \in rows : r.id = id => r.owner = req[q].owner
  BY <1>1 DEF SyncInv, HandlersConsistent
<1>6. /\ req'[q].pc \in {"tombstone", "idle"}
      /\ req'[q].pc = "tombstone" => \A id \in req'[q].ids : ConsistentNext(id, None)
  <2>1. CASE /\ req' = [req EXCEPT ![q] = [req[q] EXCEPT !.pc = "tombstone"]]
             /\ \A r \in rows' : r.owner # req[q].owner
    <3>1. req'[q].pc = "tombstone" /\ req'[q].ids = req[q].ids
      BY <2>1, <1>0 DEF TypeOK, Handler
    <3>2. \A id \in req[q].ids : ConsistentNext(id, None)
      BY <2>1, <1>1, <1>5 DEF ConsistentNext
    <3> QED BY <3>1, <3>2
  <2>2. CASE req' = [req EXCEPT ![q] = Idle]
    BY <2>2, <1>0 DEF TypeOK, Idle
  <2> QED BY <1>1, <2>1, <2>2
<1>7. HandlersConsistent'
  BY <1>1, <1>3, <1>4, <1>6, KeptByStatement
     DEF HandlersConsistent, Consistent, ConsistentNext
<1>8. EnrollmentRetained'
  BY <1>1, <1>2, <1>3 DEF SyncInv, EnrollmentRetained, Happened, clientVars
<1> QED BY <1>1, <1>3, <1>4, <1>7, <1>8, KeptByStatement DEF Kept
\* The upsert is published: the row moves from the handler to rumqttc.
LEMMA KeptByCreatePublish ==
    ASSUME SyncInv, NEW q \in Requests, CreatePublish(q)
    PROVE  Kept'
<1>0. TypeOK
  BY DEF SyncInv
<1>1. PICK id \in req[q].ids : ClientPublish(id, req[q].owner)
  BY DEF CreatePublish
<1>2. /\ req[q].pc = "publish"
      /\ req' = [req EXCEPT ![q] = Idle]
      /\ UNCHANGED <<dbVars, retained, faults>>
  BY DEF CreatePublish, Handle
<1>3. /\ id \in Ids
      /\ req[q].owner \in Payload
      /\ req'[q].pc = "idle"
      /\ \A p \in Requests \ {q} : req'[p] = req[p]
  BY <1>0, <1>1, <1>2 DEF TypeOK, Handler, Idle
<1>4. \A i \in req[q].ids : Consistent(i, req[q].owner)
  BY <1>2 DEF SyncInv, HandlersConsistent
<1>5. /\ RowsAreKeyed'
      /\ ClientConsistent'
      /\ SentIsRetained'
      /\ [id |-> id, owner |-> req[q].owner] \in ToSet(client)'
      /\ ToSet(client) \subseteq ToSet(client)'
  BY <1>1, <1>2, <1>3, <1>4, KeptByPublish
<1>6. HandlersConsistent'
  BY <1>2, <1>3 DEF SyncInv, HandlersConsistent, Consistent, dbVars
<1>7. EnrollmentRetained'
  <2> SUFFICES ASSUME ~Happened({"backend_exit"}), NEW r \in rows
               PROVE  \/ retained[r.id] = r.owner
                      \/ [id |-> r.id, owner |-> r.owner] \in ToSet(client')
                      \/ \E p \in Requests : req'[p].pc = "publish" /\ r.id \in req'[p].ids
    BY <1>2 DEF EnrollmentRetained, Happened, dbVars
  <2>1. CASE r.id \in req[q].ids
    <3>1. req[q].owner = r.owner
      BY <2>1, <1>4 DEF Consistent
    <3>2. CASE r.id = id
      BY <3>1, <3>2, <1>5
    <3>3. CASE r.id # id
      BY <3>3, <2>1, <1>1, <1>2 DEF SyncInv, OneUpsert
    <3> QED BY <3>2, <3>3
  <2>2. CASE r.id \notin req[q].ids
    BY <2>2, <1>3, <1>5 DEF SyncInv, EnrollmentRetained
  <2> QED BY <2>1, <2>2
<1> QED BY <1>5, <1>6, <1>7 DEF Kept

\* A tombstone is published: no row has its id.
LEMMA KeptByDeleteTombstone ==
    ASSUME SyncInv, NEW q \in Requests, DeleteTombstone(q)
    PROVE  Kept'
<1>0. TypeOK
  BY DEF SyncInv
<1>1. /\ req[q].pc = "tombstone"
      /\ UNCHANGED <<dbVars, retained, faults>>
  BY DEF DeleteTombstone, Handle
<1>2. \A i \in req[q].ids : i \in Ids /\ Consistent(i, None)
  BY <1>0, <1>1 DEF SyncInv, HandlersConsistent, TypeOK, Handler
<1>3. CASE /\ req' = [req EXCEPT ![q] = Idle]
           /\ UNCHANGED clientVars
  <2>1. /\ req'[q].pc = "idle"
        /\ \A p \in Requests \ {q} : req'[p] = req[p]
    BY <1>0, <1>3 DEF TypeOK, Idle
  <2>2. HandlersConsistent'
    BY <1>1, <2>1 DEF SyncInv, HandlersConsistent, Consistent, dbVars
  <2>3. EnrollmentRetained'
    BY <1>1, <1>3, <2>1 DEF SyncInv, EnrollmentRetained, Happened, dbVars, clientVars
  <2>4. RowsAreKeyed' /\ ClientConsistent' /\ SentIsRetained'
    BY <1>1, <1>3
       DEF SyncInv, RowsAreKeyed, ClientConsistent, SentIsRetained, Consistent, dbVars,
           clientVars
  <2> QED BY <1>1, <1>3, <2>2, <2>3, <2>4 DEF SyncInv, Kept
<1>4. CASE \E id \in req[q].ids :
             /\ req' = [req EXCEPT ![q] = [req[q] EXCEPT !.ids = @ \ {id}]]
             /\ ClientPublish(id, None)
  <2>1. PICK id \in req[q].ids :
          /\ req' = [req EXCEPT ![q] = [req[q] EXCEPT !.ids = @ \ {id}]]
          /\ ClientPublish(id, None)
    BY <1>4
  <2>2. /\ req'[q].pc = "tombstone"
        /\ req'[q].ids \subseteq req[q].ids
        /\ \A p \in Requests \ {q} : req'[p] = req[p]
    BY <1>0, <1>1, <2>1 DEF TypeOK, Handler
  <2>3. /\ RowsAreKeyed'
        /\ ClientConsistent'
        /\ SentIsRetained'
        /\ ToSet(client) \subseteq ToSet(client)'
    BY <1>1, <1>2, <2>1, KeptByPublish DEF Payload
  <2>4. HandlersConsistent'
    BY <1>1, <1>2, <2>2 DEF SyncInv, HandlersConsistent, Consistent, dbVars
  <2>5. EnrollmentRetained'
    BY <1>1, <2>2, <2>3 DEF SyncInv, EnrollmentRetained, Happened, dbVars
  <2> QED BY <2>3, <2>4, <2>5 DEF Kept
<1> QED BY <1>3, <1>4 DEF DeleteTombstone, Handle

\* The process dies: nothing is claimed of the rows any more.
LEMMA KeptByBackendExit ==
    ASSUME SyncInv, BackendExit
    PROVE  Kept'
<1>1. /\ client' = <<>> /\ sent' = 0
      /\ \A q \in Requests : req'[q].pc = "idle"
      /\ UNCHANGED <<dbVars, retained>>
  BY DEF BackendExit, Idle
<1>2. Happened({"backend_exit"})'
  BY SyncFaultType DEF SyncInv, BackendExit, Happened
<1>3. 1..Len(<<>>) = {} /\ 1..0 = {}
  OBVIOUS
<1> QED BY <1>1, <1>2, <1>3
        DEF SyncInv, Kept, RowsAreKeyed, ClientConsistent, HandlersConsistent,
            SentIsRetained, EnrollmentRetained, Consistent, dbVars

\* The broker replaces a retained payload: by the owner of the row, if there
\* is a row.
LEMMA KeptByBrokerReceive ==
    ASSUME SyncInv, BrokerReceive
    PROVE  Kept'
<1> DEFINE m == client[sent + 1]
<1>0. TypeOK
  BY DEF SyncInv
<1>1. /\ sent \in Nat
      /\ sent + 1 \in 1..Len(client)
      /\ sent' = sent + 1
      /\ retained' = [retained EXCEPT ![m.id] = m.owner]
      /\ UNCHANGED <<dbVars, req, client, faults>>
  BY <1>0 DEF BrokerReceive, TypeOK
<1>2. m \in Message
  BY <1>0, <1>1, ElementFacts DEF TypeOK
<1>3. \A r \in rows : r.id = m.id => m.owner = r.owner
  BY <1>1 DEF SyncInv, ClientConsistent, Consistent
<1>4. /\ retained'[m.id] = m.owner
      /\ \A i \in Ids \ {m.id} : retained'[i] = retained[i]
  BY <1>0, <1>1, <1>2 DEF TypeOK, Message
<1>5. \A r \in rows : r.id \in Ids /\ (retained[r.id] = r.owner => retained'[r.id] = r.owner)
  BY <1>0, <1>3, <1>4 DEF TypeOK
<1>6. SentIsRetained'
  <2> SUFFICES ASSUME NEW i \in 1..(sent + 1), NEW r \in rows, r.id = client[i].id
               PROVE  retained'[r.id] = r.owner
    BY <1>1 DEF SentIsRetained, dbVars
  <2>1. CASE i = sent + 1
    BY <2>1, <1>3, <1>4
  <2>2. CASE i \in 1..sent
    BY <2>2, <1>5 DEF SyncInv, SentIsRetained
  <2> QED BY <2>1, <2>2, <1>1
<1>7. EnrollmentRetained'
  BY <1>1, <1>5 DEF SyncInv, EnrollmentRetained, Happened, dbVars
<1> QED BY <1>1, <1>6, <1>7
        DEF SyncInv, Kept, RowsAreKeyed, ClientConsistent, HandlersConsistent,
            Consistent, dbVars

\* What is acknowledged has been retained.
LEMMA KeptByPubAck ==
    ASSUME SyncInv, PubAck
    PROVE  Kept'
<1>0. TypeOK
  BY DEF SyncInv
<1>1. /\ sent \in 1..Len(client)
      /\ client \in Seq(Message)
      /\ client # <<>>
      /\ client' = Tail(client)
      /\ sent' = sent - 1
      /\ UNCHANGED <<dbVars, req, retained, faults>>
  BY <1>0 DEF PubAck, TypeOK
<1>2. /\ Head(client) = client[1]
      /\ Len(client') = Len(client) - 1
      /\ Len(client) \in Nat \ {0}
      /\ \A i \in 1..(Len(client) - 1) : client'[i] = client[i + 1]
      /\ client' \in Seq(Message)
  BY <1>1, TailFacts
<1>3. \A i \in 1..Len(client') : i + 1 \in 1..Len(client) /\ client'[i] = client[i + 1]
  BY <1>2
<1>4. ClientConsistent'
  BY <1>1, <1>3 DEF SyncInv, ClientConsistent, Consistent, dbVars
<1>5. \A i \in 1..sent' : i + 1 \in 1..sent /\ client'[i] = client[i + 1]
  BY <1>1, <1>2
<1>6. SentIsRetained'
  BY <1>1, <1>5 DEF SyncInv, SentIsRetained, dbVars
<1>7. EnrollmentRetained'
  <2> SUFFICES ASSUME NEW r \in rows, [id |-> r.id, owner |-> r.owner] \in ToSet(client)
               PROVE  \/ retained[r.id] = r.owner
                      \/ [id |-> r.id, owner |-> r.owner] \in ToSet(client')
    BY <1>1 DEF SyncInv, EnrollmentRetained, Happened, dbVars
  <2>1. PICK i \in 1..Len(client) : client[i] = [id |-> r.id, owner |-> r.owner]
    BY <1>1, MemberFacts
  <2>2. CASE i = 1
    BY <2>1, <2>2, <1>1 DEF SyncInv, SentIsRetained
  <2>3. CASE i # 1
    <3>1. i - 1 \in 1..Len(client') /\ client'[i - 1] = client[i]
      BY <2>3, <1>2
    <3> QED BY <3>1, <2>1, <1>2, ElementFacts
  <2> QED BY <2>2, <2>3
<1> QED BY <1>1, <1>4, <1>6, <1>7
        DEF SyncInv, Kept, RowsAreKeyed, HandlersConsistent, Consistent, dbVars

\* A handler that is to publish an upsert has one id.
LEMMA OneUpsertStep ==
    ASSUME SyncInv, [Next]_vars
    PROVE  OneUpsert'
<1> USE DEF OneUpsert, Handle
<1>0. TypeOK /\ OneUpsert /\ req \in [Requests -> Handler]
  BY DEF SyncInv, TypeOK
<1>1. CASE UNCHANGED req
  BY <1>0, <1>1
<1>2. CASE BackendExit
  BY <1>2 DEF BackendExit, Idle
<1>3. CASE HandlerStep
  <2> PICK q \in Requests : \/ CreateInsert(q) \/ CreatePublish(q)
                            \/ DeleteSelect(q) \/ DeleteRow(q) \/ DeleteTombstone(q)
    BY <1>3 DEF HandlerStep
  <2>1. \E next : /\ req' = [req EXCEPT ![q] = next]
                  /\ next.pc = "publish" => \A i, j \in next.ids : i = j
    <3>1. req[q] \in Handler
      BY <1>0
    <3>2. CASE CreateInsert(q)
      BY <3>2 DEF CreateInsert
    <3>3. CASE CreatePublish(q)
      <4>1. req' = [req EXCEPT ![q] = Idle] /\ Idle.pc = "idle"
        BY <3>3 DEF CreatePublish, Idle
      <4> QED BY <4>1
    <3>4. CASE DeleteSelect(q)
      BY <3>4 DEF DeleteSelect
    <3>5. CASE DeleteRow(q)
      BY <3>1, <3>5 DEF DeleteRow, Idle, Handler
    <3>6. CASE DeleteTombstone(q)
      BY <3>1, <3>6 DEF DeleteTombstone, Idle, Handler
    <3> QED BY <3>2, <3>3, <3>4, <3>5, <3>6
  <2> QED BY <1>0, <2>1
<1>4. \/ UNCHANGED req \/ HandlerStep \/ BackendExit
  BY DEF Next, vars, BackendStep, BackendReconnect, BrokerStep, BrokerReceive,
         PubAck, EdgeStep, OnConnect, OnDisconnect, ApplyStorage, ApplyMatcher,
         EdgeExit, EdgeStart
<1> QED BY <1>1, <1>2, <1>3, <1>4

LEMMA KeptStep ==
    ASSUME SyncInv, [Next]_vars
    PROVE  Kept'
<1>0. TypeOK
  BY DEF SyncInv
<1>1. CASE UNCHANGED vars
  BY <1>1, KeptElsewhere DEF vars
<1>2. CASE HandlerStep
  BY <1>2, KeptByCreateInsert, KeptByCreatePublish, KeptByDeleteSelect,
     KeptByDeleteRow, KeptByDeleteTombstone DEF HandlerStep
<1>3. CASE BackendReconnect
  <2>1. /\ sent' = 0
        /\ UNCHANGED <<dbVars, req, client, retained>>
        /\ faults.kinds \subseteq faults'.kinds
    BY <1>0, <1>3, SyncFaultType DEF BackendReconnect
  <2>2. SentIsRetained'
    BY <2>1 DEF SentIsRetained
  <2> QED BY <2>1, <2>2
          DEF SyncInv, Kept, RowsAreKeyed, ClientConsistent, HandlersConsistent,
              EnrollmentRetained, Consistent, Happened, dbVars
<1>4. CASE EdgeStep
  <2>1. UNCHANGED <<dbVars, req, clientVars, retained>>
    BY <1>4 DEF EdgeStep, OnConnect, OnDisconnect, ApplyStorage, ApplyMatcher,
                EdgeExit, EdgeStart
  <2>2. faults.kinds \subseteq faults'.kinds
    BY <1>0, <1>4, SyncFaultType
       DEF EdgeStep, OnConnect, OnDisconnect, ApplyStorage, ApplyMatcher,
           EdgeExit, EdgeStart
  <2> QED BY <2>1, <2>2, KeptElsewhere
<1> QED BY <1>1, <1>2, <1>3, <1>4, KeptByBackendExit, KeptByBrokerReceive,
           KeptByPubAck DEF Next, BackendStep, BrokerStep

LEMMA SyncInvInductive ==
    /\ Init => SyncInv
    /\ SyncInv /\ [Next]_vars => SyncInv'
<1>1. ASSUME Init PROVE SyncInv
  <2>1. TypeOK
    BY <1>1, SyncTypeInit
  <2>2. 1..Len(<<>>) = {} /\ 1..0 = {}
    OBVIOUS
  <2> QED BY <1>1, <2>1, <2>2
          DEF Init, SyncInv, RowsAreKeyed, ClientConsistent, HandlersConsistent,
              OneUpsert, SentIsRetained, EnrollmentRetained, Idle
<1>2. ASSUME SyncInv, [Next]_vars PROVE SyncInv'
  BY <1>2, SyncTypeStep, KeptStep, OneUpsertStep DEF SyncInv, Kept
<1> QED BY <1>1, <1>2

\* An embedding PostgreSQL has is never lost on the way to the broker while
\* the backend lives: it is with its handler, in rumqttc or retained, however
\* many requests overlap and however often the connection breaks.
THEOREM EnrollmentStaysRetained == Spec => []EnrollmentRetained
<1>1. SyncInv => EnrollmentRetained
  BY DEF SyncInv
<1> QED BY <1>1, SyncInvInductive, PTL DEF Spec

-----------------------------------------------------------------------------
(* DeviceCatchesUp, from CatchUpInv.                                       *)

\* The messages rumqttc and the broker hold are messages.
LEMMA QueuesTyped ==
    ASSUME TypeOK
    PROVE  /\ Len(client) \in Nat /\ Len(wire) \in Nat
           /\ sent \in 0..Len(client)
           /\ \A k \in 1..Len(client) : client[k] \in Message
           /\ \A k \in 1..Len(wire) : wire[k] \in Message
<1>1. client \in Seq(Message) /\ wire \in Seq(Message) /\ sent \in 0..Len(client)
  BY DEF TypeOK
<1>2. Len(client) \in Nat /\ Len(wire) \in Nat
  BY <1>1
<1> QED BY <1>1, <1>2, ElementFacts

\* A subscription first delivers all that is retained, and nothing else.
LEMMA SnapshotFacts ==
    ASSUME TypeOK, NEW s \in SetToSeqs(RetainedMessages)
    PROVE  /\ \A k \in 1..Len(s) : s[k] \in RetainedMessages
           /\ \A m \in RetainedMessages : \E k \in 1..Len(s) : s[k] = m
<1> DEFINE n == Cardinality(RetainedMessages)
<1>1. IsFiniteSet(RetainedMessages)
  <2> DEFINE J == {j \in Ids : retained[j] # None}
             f == [i \in J |-> [id |-> i, owner |-> retained[i]]]
  <2>1. IsFiniteSet(J)
    <3>1. IsFiniteSet(Ids)
      BY FS_Interval, SyncBoundsAssumption DEF Ids
    <3> QED BY <3>1, FS_Subset
  <2>2. f \in Surjection(J, RetainedMessages)
    BY DEF RetainedMessages, Surjection
  <2> HIDE DEF J, f
  <2> QED BY <2>1, <2>2, FS_Surjection
<1>2. n \in Nat
  BY <1>1, FS_CardinalityType
<1>3. s \in [1..n -> RetainedMessages] /\ \A i, j \in 1..n : i # j => s[i] # s[j]
  BY DEF SetToSeqs
<1>4. Len(s) = n
  <2>1. s \in Seq(RetainedMessages) /\ DOMAIN s = 1..n
    BY <1>2, <1>3, FunctionIsSequence
  <2> HIDE DEF n
  <2>2. Len(s) \in Nat /\ DOMAIN s = 1..Len(s)
    BY <2>1
  <2> QED BY <2>1, <2>2, <1>2
<1>5. s \in Injection(1..n, RetainedMessages)
  BY <1>3 DEF Injection, IsInjective
<1>6. Cardinality(1..n) = n
  <2> HIDE DEF n
  <2> QED BY <1>2, FS_Interval
<1>7. s \in Surjection(1..n, RetainedMessages)
  <2>1. Cardinality(1..n) = Cardinality(RetainedMessages)
    BY <1>6
  <2> HIDE DEF n
  <2> QED BY <1>1, <1>5, <2>1, FS_Injection
<1>8. \A m \in RetainedMessages : \E k \in 1..n : s[k] = m
  BY <1>7 DEF Surjection
<1> HIDE DEF n
<1> QED BY <1>3, <1>4, <1>8

\* The history only grows.
LEMMA HistoryGrows ==
    ASSUME TypeOK, [Next]_vars
    PROVE  /\ faults.kinds \subseteq faults'.kinds
           /\ Undisturbed' => Undisturbed
<1>1. CASE UNCHANGED faults
  BY <1>1 DEF Undisturbed, Happened
<1>2. CASE \E k : Fault(k)
  BY <1>2, SyncFaultType DEF Undisturbed, Happened
<1>3. CASE \E e, pcs : Overlap(e, pcs)
  BY <1>3, OverlapType DEF Undisturbed, Happened
<1>4. \/ UNCHANGED faults \/ \E k : Fault(k) \/ \E e, pcs : Overlap(e, pcs)
  <2>1. CASE HandlerStep
    <3> PICK q \in Requests : \/ CreateInsert(q) \/ CreatePublish(q)
                              \/ DeleteSelect(q) \/ DeleteRow(q) \/ DeleteTombstone(q)
      BY <2>1 DEF HandlerStep
    <3>1. CASE CreateInsert(q) \/ DeleteSelect(q)
      BY <3>1 DEF CreateInsert, DeleteSelect
    <3>2. CASE CreatePublish(q) \/ DeleteTombstone(q)
      BY <3>2 DEF CreatePublish, DeleteTombstone
    <3>3. CASE DeleteRow(q)
      BY <3>3 DEF DeleteRow
    <3> QED BY <3>1, <3>2, <3>3
  <2>2. CASE BackendExit \/ BackendReconnect
    BY <2>2 DEF BackendExit, BackendReconnect
  <2>3. CASE BrokerStep \/ UNCHANGED vars
    BY <2>3 DEF BrokerStep, BrokerReceive, PubAck, vars
  <2>4. CASE EdgeStep
    BY <2>4 DEF EdgeStep, OnConnect, OnDisconnect, ApplyStorage, ApplyMatcher,
                EdgeExit, EdgeStart
  <2> QED BY <2>1, <2>2, <2>3, <2>4 DEF Next, BackendStep
<1> QED BY <1>1, <1>2, <1>3, <1>4

\* PostgreSQL, in every step.
LEMMA CatalogEvolves ==
    ASSUME SyncInv, [Next]_vars
    PROVE  RowsEvolve
<1>0. TypeOK /\ nextId \in Nat
  BY DEF SyncInv, TypeOK
<1>1. CASE UNCHANGED dbVars
  BY <1>0, <1>1 DEF RowsEvolve, dbVars
<1>2. CASE HandlerStep
  <2> PICK q \in Requests : \/ CreateInsert(q) \/ CreatePublish(q)
                            \/ DeleteSelect(q) \/ DeleteRow(q) \/ DeleteTombstone(q)
    BY <1>2 DEF HandlerStep
  <2>1. CASE CreateInsert(q)
    <3>1. PICK e \in employees : /\ rows' = rows \cup {[id |-> nextId, owner |-> e]}
                                 /\ nextId' = nextId + 1
      BY <2>1 DEF CreateInsert
    <3> QED BY <1>0, <3>1 DEF RowsEvolve
  <2>2. CASE DeleteRow(q)
    BY <1>0, <2>2 DEF DeleteRow, RowsEvolve
  <2>3. CASE CreatePublish(q) \/ DeleteSelect(q) \/ DeleteTombstone(q)
    BY <1>1, <2>3 DEF CreatePublish, DeleteSelect, DeleteTombstone
  <2> QED BY <2>1, <2>2, <2>3
<1>3. \/ UNCHANGED dbVars \/ HandlerStep
  BY DEF Next, vars, BackendStep, BackendExit, BackendReconnect, BrokerStep,
         BrokerReceive, PubAck, EdgeStep, OnConnect, OnDisconnect, ApplyStorage,
         ApplyMatcher, EdgeExit, EdgeStart
<1> QED BY <1>1, <1>2, <1>3

\* Whatever a step brings nearer to the matcher was consistent where it was.
LEMMA DeviceFlow ==
    ASSUME CatchUpInv, [Next]_vars
    PROVE  /\ \A k \in 1..Len(wire') : Consistent(wire'[k].id, wire'[k].owner)
           /\ applying' # None => Consistent(applying'.id, applying'.owner)
           /\ \A i \in Ids :
                /\ retained'[i] # None => Consistent(i, retained'[i])
                /\ storage'[i] # None => Consistent(i, storage'[i])
                /\ matcher'[i] # None => Consistent(i, matcher'[i])
<1> DEFINE Goal == /\ \A k \in 1..Len(wire') : Consistent(wire'[k].id, wire'[k].owner)
                   /\ applying' # None => Consistent(applying'.id, applying'.owner)
                   /\ \A i \in Ids :
                        /\ retained'[i] # None => Consistent(i, retained'[i])
                        /\ storage'[i] # None => Consistent(i, storage'[i])
                        /\ matcher'[i] # None => Consistent(i, matcher'[i])
<1>0. /\ TypeOK /\ ClientConsistent /\ DeviceConsistent /\ 1..Len(<<>>) = {}
  BY DEF CatchUpInv, SyncInv
<1>1. CASE UNCHANGED <<edgeVars, retained>>
  BY <1>0, <1>1 DEF DeviceConsistent, edgeVars
<1>2. CASE BrokerReceive
  <2> DEFINE m == client[sent + 1]
  <2>1. /\ sent + 1 \in 1..Len(client)
        /\ retained' = [retained EXCEPT ![m.id] = m.owner]
        /\ wire' = wire \/ wire' = Append(wire, m)
        /\ UNCHANGED <<applying, storage, matcher>>
    BY <1>2, <1>0, QueuesTyped DEF BrokerReceive
  <2>2. m \in Message /\ Consistent(m.id, m.owner)
    BY <2>1, <1>0, QueuesTyped DEF ClientConsistent
  <2> HIDE DEF m
  <2>3. \A i \in Ids : retained'[i] = retained[i] \/ (i = m.id /\ retained'[i] = m.owner)
    <3>1. retained \in [Ids -> Payload] /\ m.id \in Ids
      BY <1>0, <2>2 DEF TypeOK, Message
    <3>2. retained' = [retained EXCEPT ![m.id] = m.owner]
      BY <2>1
    <3> QED BY <3>1, <3>2
  <2>4. \A k \in 1..Len(wire') : \/ k \in 1..Len(wire) /\ wire'[k] = wire[k]
                                 \/ wire'[k] = m
    <3>1. CASE wire' = Append(wire, m)
      BY <3>1, <2>2, <1>0, AppendFacts, QueuesTyped DEF TypeOK
    <3> QED BY <3>1, <2>1
  <2> QED BY <1>0, <2>1, <2>2, <2>3, <2>4 DEF DeviceConsistent
<1>3. CASE OnConnect
  <2>1. /\ UNCHANGED <<retained, applying, storage, matcher>>
        /\ wire' = wire \/ wire' \in SetToSeqs(RetainedMessages)
    BY <1>3 DEF OnConnect
  <2>2. ASSUME wire' \in SetToSeqs(RetainedMessages), NEW k \in 1..Len(wire')
        PROVE  Consistent(wire'[k].id, wire'[k].owner)
    <3>1. wire'[k] \in RetainedMessages
      BY <2>2, <1>0, SnapshotFacts
    <3>2. PICK i \in Ids : retained[i] # None /\ wire'[k] = [id |-> i, owner |-> retained[i]]
      BY <3>1 DEF RetainedMessages
    <3>3. wire'[k].id = i /\ wire'[k].owner = retained[i]
      BY <3>2
    <3> QED BY <3>2, <3>3, <1>0 DEF DeviceConsistent
  <2> QED BY <1>0, <2>1, <2>2 DEF DeviceConsistent
<1>4. CASE OnDisconnect \/ EdgeExit \/ EdgeStart
  BY <1>0, <1>4 DEF OnDisconnect, EdgeExit, EdgeStart, DeviceConsistent
<1>5. CASE ApplyStorage
  <2>1. /\ wire # <<>> /\ wire \in Seq(Message)
        /\ wire' = Tail(wire)
        /\ UNCHANGED <<retained, matcher>>
        /\ applying = None
        /\ \/ /\ storage' = [storage EXCEPT ![Head(wire).id] = Head(wire).owner]
              /\ applying' = Head(wire)
           \/ UNCHANGED <<storage, applying>>
    BY <1>0, <1>5 DEF ApplyStorage, TypeOK
  <2>2. /\ Head(wire) = wire[1]
        /\ 1 \in 1..Len(wire)
        /\ \A k \in 1..Len(wire') : k + 1 \in 1..Len(wire) /\ wire'[k] = wire[k + 1]
    BY <2>1, TailFacts
  <2>3. Consistent(Head(wire).id, Head(wire).owner)
    BY <2>2, <1>0 DEF DeviceConsistent
  <2>4. \A i \in Ids : \/ storage'[i] = storage[i]
                       \/ i = Head(wire).id /\ storage'[i] = Head(wire).owner
    BY <2>1, <1>0 DEF TypeOK
  <2> QED BY <1>0, <2>1, <2>2, <2>3, <2>4 DEF DeviceConsistent
<1>6. CASE ApplyMatcher
  <2>1. /\ applying # None
        /\ matcher' = [matcher EXCEPT ![applying.id] = applying.owner]
        /\ applying' = None
        /\ UNCHANGED <<retained, wire, storage>>
    BY <1>6 DEF ApplyMatcher
  <2>2. \A i \in Ids : \/ matcher'[i] = matcher[i]
                       \/ i = applying.id /\ matcher'[i] = applying.owner
    BY <2>1, <1>0 DEF TypeOK
  <2> QED BY <1>0, <2>1, <2>2 DEF DeviceConsistent
<1>7. \/ UNCHANGED <<edgeVars, retained>> \/ BrokerReceive \/ EdgeStep
  BY DEF Next, vars, BackendStep, HandlerStep, CreateInsert, CreatePublish,
         DeleteSelect, DeleteRow, DeleteTombstone, BackendExit, BackendReconnect,
         BrokerStep, PubAck
<1> QED BY <1>1, <1>2, <1>3, <1>4, <1>5, <1>6, <1>7 DEF EdgeStep

LEMMA DeviceConsistentStep ==
    ASSUME CatchUpInv, [Next]_vars
    PROVE  DeviceConsistent'
<1>0. SyncInv /\ TypeOK' /\ RowsEvolve
  BY SyncTypeStep, CatalogEvolves DEF CatchUpInv, SyncInv
<1>1. \A k \in 1..Len(wire') : wire'[k].id \in Ids
  <2>1. wire' \in Seq(Message)
    BY <1>0 DEF TypeOK
  <2>2. \A k \in 1..Len(wire') : wire'[k] \in Message
    BY <2>1, ElementFacts
  <2> QED BY <2>2 DEF Message
<1>2. applying' # None => applying'.id \in Ids
  BY <1>0 DEF TypeOK, Message
<1>3. \A k \in 1..Len(wire') : ConsistentNext(wire'[k].id, wire'[k].owner)
  BY <1>0, <1>1, ConsistentKept, DeviceFlow
<1>4. applying' # None => ConsistentNext(applying'.id, applying'.owner)
  BY <1>0, <1>2, ConsistentKept, DeviceFlow
<1>5. \A i \in Ids :
        /\ retained'[i] # None => ConsistentNext(i, retained'[i])
        /\ storage'[i] # None => ConsistentNext(i, storage'[i])
        /\ matcher'[i] # None => ConsistentNext(i, matcher'[i])
  BY <1>0, ConsistentKept, DeviceFlow
<1> QED BY <1>3, <1>4, <1>5 DEF DeviceConsistent, Consistent, ConsistentNext

\* What is retained reaches the matcher of a subscribed device.
LEMMA UpsertUnderwayStep ==
    ASSUME CatchUpInv, [Next]_vars
    PROVE  UpsertUnderway'
<1> SUFFICES ASSUME session' = "subscribed", ~Happened({"storage"})', NEW r \in rows',
                    retained'[r.id] = r.owner
             PROVE  \/ matcher'[r.id] = r.owner
                    \/ applying' # None /\ applying'.id = r.id
                    \/ \E k \in 1..Len(wire') : wire'[k].id = r.id
  BY DEF UpsertUnderway
<1>0. SyncInv /\ TypeOK /\ TypeOK' /\ DeviceConsistent /\ UpsertUnderway
  BY SyncTypeStep DEF CatchUpInv, SyncInv
<1>1. r.id \in Ids /\ r.owner \in Employees /\ r.owner # None
  BY <1>0, EmployeesAssumption DEF TypeOK
<1>2. r \in rows
  <2>1. r.id < nextId
    BY <1>1, DeviceFlow DEF Consistent
  <2> QED BY <2>1, <1>0, CatalogEvolves DEF RowsEvolve
<1>3. ~Happened({"storage"})
  BY <1>0, HistoryGrows DEF Happened
<1>4. ASSUME session = "subscribed", retained[r.id] = r.owner
      PROVE  \/ matcher[r.id] = r.owner
             \/ applying # None /\ applying.id = r.id
             \/ \E k \in 1..Len(wire) : wire[k].id = r.id
  BY <1>0, <1>2, <1>3, <1>4 DEF UpsertUnderway
<1>5. CASE UNCHANGED <<edgeVars, retained>>
  BY <1>4, <1>5 DEF edgeVars
<1>6. CASE BrokerReceive
  <2> DEFINE m == client[sent + 1]
  <2>1. /\ sent + 1 \in 1..Len(client)
        /\ retained' = [retained EXCEPT ![m.id] = m.owner]
        /\ session = "subscribed"
        /\ wire' = Append(wire, m)
        /\ UNCHANGED <<applying, matcher>>
    BY <1>6, <1>0, QueuesTyped DEF BrokerReceive
  <2>2. m \in Message
    BY <2>1, <1>0, QueuesTyped
  <2> HIDE DEF m
  <2>3. /\ \A k \in 1..Len(wire) : k \in 1..Len(wire') /\ wire'[k] = wire[k]
        /\ Len(wire) + 1 \in 1..Len(wire')
        /\ wire'[Len(wire) + 1] = m
    <3>1. wire \in Seq(Message)
      BY <1>0 DEF TypeOK
    <3>2. /\ Len(wire') = Len(wire) + 1
          /\ Len(wire) \in Nat
          /\ \A k \in 1..Len(wire) : wire'[k] = wire[k]
          /\ wire'[Len(wire) + 1] = m
      BY <2>1, <2>2, <3>1, AppendFacts
    <3> QED BY <3>2
  <2>4. CASE m.id = r.id
    BY <2>3, <2>4
  <2>5. CASE m.id # r.id
    <3>1. retained[r.id] = r.owner
      <4>1. retained \in [Ids -> Payload]
        BY <1>0 DEF TypeOK
      <4>2. retained'[r.id] = retained[r.id]
        BY <2>1, <2>5, <4>1, <1>1
      <4> QED BY <4>2
    <3> QED BY <3>1, <2>1, <2>3, <1>4
  <2> QED BY <2>4, <2>5
<1>7. CASE OnConnect
  <2>1. UNCHANGED retained /\ wire' \in SetToSeqs(RetainedMessages)
    BY <1>7 DEF OnConnect
  <2>2. [id |-> r.id, owner |-> retained[r.id]] \in RetainedMessages
    BY <2>1, <1>1 DEF RetainedMessages
  <2>3. PICK k \in 1..Len(wire') : wire'[k] = [id |-> r.id, owner |-> retained[r.id]]
    BY <2>1, <2>2, <1>0, SnapshotFacts
  <2> QED BY <2>3
<1>8. CASE OnDisconnect \/ EdgeExit \/ EdgeStart
  BY <1>8 DEF OnDisconnect, EdgeExit, EdgeStart
<1>9. CASE ApplyStorage
  <2>1. ~Fault("storage")
    BY <1>0, SyncFaultType DEF Happened
  <2>2. /\ wire # <<>> /\ wire \in Seq(Message)
        /\ wire' = Tail(wire)
        /\ UNCHANGED <<session, retained, matcher>>
        /\ applying = None
        /\ applying' = Head(wire)
    BY <1>0, <1>9, <2>1 DEF ApplyStorage, TypeOK
  <2>3. /\ Head(wire) = wire[1]
        /\ Head(wire) \in Message
        /\ \A k \in 1..Len(wire) \ {1} : k - 1 \in 1..Len(wire') /\ wire'[k - 1] = wire[k]
    BY <2>2, TailFacts
  <2>4. applying' # None
    BY <2>2, <2>3, NoMessageAssumption
  <2>5. \/ matcher[r.id] = r.owner
        \/ \E k \in 1..Len(wire) : wire[k].id = r.id
    BY <2>2, <1>4
  <2>6. CASE \E k \in 1..Len(wire) : wire[k].id = r.id
    <3>1. PICK k \in 1..Len(wire) : wire[k].id = r.id
      BY <2>6
    <3>2. CASE k = 1
      BY <3>1, <3>2, <2>2, <2>3, <2>4
    <3>3. CASE k # 1
      <4>1. k - 1 \in 1..Len(wire') /\ wire'[k - 1].id = r.id
        BY <3>1, <3>3, <2>3
      <4> QED BY <4>1
    <3> QED BY <3>2, <3>3
  <2> QED BY <2>2, <2>5, <2>6
<1>10. CASE ApplyMatcher
  <2>1. /\ applying # None
        /\ matcher' = [matcher EXCEPT ![applying.id] = applying.owner]
        /\ UNCHANGED <<session, retained, wire>>
        /\ matcher \in [Ids -> Payload]
    BY <1>0, <1>10 DEF ApplyMatcher, TypeOK
  <2>2. CASE applying.id = r.id
    <3>1. applying.owner = r.owner
      BY <2>1, <2>2, <1>0, <1>2 DEF DeviceConsistent, Consistent
    <3> QED BY <2>1, <2>2, <3>1, <1>1
  <2>3. CASE applying.id # r.id
    BY <2>1, <2>3, <1>1, <1>4
  <2> QED BY <2>2, <2>3
<1>11. \/ UNCHANGED <<edgeVars, retained>> \/ BrokerReceive \/ EdgeStep
  BY DEF Next, vars, BackendStep, HandlerStep, CreateInsert, CreatePublish,
         DeleteSelect, DeleteRow, DeleteTombstone, BackendExit, BackendReconnect,
         BrokerStep, PubAck
<1> QED BY <1>5, <1>6, <1>7, <1>8, <1>9, <1>10, <1>11 DEF EdgeStep

\* An overlap that happens is recorded.
LEMMA NoOverlapBefore ==
    ASSUME TypeOK, NEW e, NEW pcs, Overlap(e, pcs), ~Happened({"overlap"})'
    PROVE  \A p \in Requests : req[p].pc \in pcs => req[p].owner # e
<1>1. SUFFICES ASSUME \E p \in Requests : req[p].owner = e /\ req[p].pc \in pcs
               PROVE  FALSE
  OBVIOUS
<1>2. faults' = [faults EXCEPT !.kinds = @ \cup {"overlap"}]
  BY <1>1 DEF Overlap
<1>3. faults'.kinds = faults.kinds \cup {"overlap"}
  BY <1>2 DEF TypeOK
<1> QED BY <1>3 DEF Happened

LEMMA OverlapStep ==
    ASSUME CatchUpInv, [Next]_vars
    PROVE  OverlapIsRecorded'
<1> USE DEF Handle
<1>0. TypeOK /\ req \in [Requests -> Handler]
  BY DEF CatchUpInv, SyncInv, TypeOK
<1> SUFFICES ASSUME ~Happened({"overlap"})'
             PROVE  OverlapIsRecorded'
  BY DEF OverlapIsRecorded
<1>1. ~Happened({"overlap"})
  BY <1>0, HistoryGrows DEF Happened
<1>2. /\ \A p, q \in Requests :
            req[p].pc = "publish" /\ req[q].pc \in {"delete", "tombstone"} =>
                req[p].owner # req[q].owner
      /\ \A p \in Requests : req[p].pc = "publish" =>
            \A id \in req[p].ids : [id |-> id, owner |-> req[p].owner] \in rows
      /\ \A q \in Requests : req[q].pc = "delete" /\ req[q].owner \in employees =>
            \A r \in rows : r.owner = req[q].owner => r.id \in req[q].ids
  BY <1>1 DEF CatchUpInv, OverlapIsRecorded, IdsOf
<1> SUFFICES
      /\ \A p, q \in Requests :
            req'[p].pc = "publish" /\ req'[q].pc \in {"delete", "tombstone"} =>
                req'[p].owner # req'[q].owner
      /\ \A p \in Requests : req'[p].pc = "publish" =>
            \A id \in req'[p].ids : [id |-> id, owner |-> req'[p].owner] \in rows'
      /\ \A q \in Requests : req'[q].pc = "delete" /\ req'[q].owner \in employees' =>
            \A r \in rows' : r.owner = req'[q].owner => r.id \in req'[q].ids
  BY DEF OverlapIsRecorded, IdsOf
<1>3. CASE UNCHANGED <<dbVars, req>>
  BY <1>2, <1>3 DEF dbVars
<1>4. CASE BackendExit
  BY <1>4 DEF BackendExit, Idle
<1>5. CASE HandlerStep
  <2> PICK q \in Requests : \/ CreateInsert(q) \/ CreatePublish(q)
                            \/ DeleteSelect(q) \/ DeleteRow(q) \/ DeleteTombstone(q)
    BY <1>5 DEF HandlerStep
  <2>1. CASE CreateInsert(q)
    <3>1. PICK e \in employees :
            /\ req' = [req EXCEPT ![q] = [pc |-> "publish", owner |-> e, ids |-> {nextId}]]
            /\ rows' = rows \cup {[id |-> nextId, owner |-> e]}
            /\ Overlap(e, {"delete", "tombstone"})
            /\ UNCHANGED employees
      BY <2>1 DEF CreateInsert
    <3>2. /\ req'[q] = [pc |-> "publish", owner |-> e, ids |-> {nextId}]
          /\ \A p \in Requests \ {q} : req'[p] = req[p]
      BY <3>1, <1>0
    <3>3. \A p \in Requests : req[p].pc \in {"delete", "tombstone"} => req[p].owner # e
      BY <3>1, <1>0, NoOverlapBefore
    <3> QED BY <3>1, <3>2, <3>3, <1>2
  <2>2. CASE CreatePublish(q)
    <3>1. /\ req'[q].pc = "idle"
          /\ \A p \in Requests \ {q} : req'[p] = req[p]
          /\ UNCHANGED <<employees, rows>>
      BY <2>2, <1>0 DEF CreatePublish, Idle, dbVars
    <3> QED BY <3>1, <1>2
  <2>3. CASE DeleteSelect(q)
    <3>1. PICK e \in Employees :
            /\ req' = [req EXCEPT ![q] = [pc |-> "delete", owner |-> e, ids |-> IdsOf(e)]]
            /\ Overlap(e, {"publish"})
            /\ UNCHANGED <<employees, rows>>
      BY <2>3 DEF DeleteSelect, dbVars
    <3>2. /\ req'[q] = [pc |-> "delete", owner |-> e, ids |-> IdsOf(e)]
          /\ \A p \in Requests \ {q} : req'[p] = req[p]
      BY <3>1, <1>0
    <3>3. \A p \in Requests : req[p].pc = "publish" => req[p].owner # e
      BY <3>1, <1>0, NoOverlapBefore
    <3>4. \A r \in rows : r.owner = e => r.id \in IdsOf(e)
      BY DEF IdsOf
    <3> QED BY <3>1, <3>2, <3>3, <3>4, <1>2
  <2>4. CASE DeleteRow(q)
    <3>1. /\ req[q].pc = "delete"
          /\ \A p \in Requests \ {q} : req'[p] = req[p]
      BY <2>4, <1>0 DEF DeleteRow
    <3>2. CASE /\ req' = [req EXCEPT ![q] = [req[q] EXCEPT !.pc = "tombstone"]]
               /\ employees' = employees \ {req[q].owner}
               /\ rows' = {r \in rows : r.owner # req[q].owner}
      <4>1. req'[q].pc = "tombstone" /\ req'[q].owner = req[q].owner
        BY <3>2, <1>0 DEF Handler
      <4>2. \A p \in Requests : req'[p].pc = "publish" =>
              /\ req'[p] = req[p]
              /\ req[p].owner # req[q].owner
        BY <3>1, <4>1, <1>2
      <4> QED BY <3>1, <3>2, <4>1, <4>2, <1>2
    <3>3. CASE req' = [req EXCEPT ![q] = Idle] /\ UNCHANGED <<employees, rows>>
      <4>1. req'[q].pc = "idle"
        BY <3>3, <1>0 DEF Idle
      <4> QED BY <3>1, <3>3, <4>1, <1>2
    <3> QED BY <2>4, <3>2, <3>3 DEF DeleteRow
  <2>5. CASE DeleteTombstone(q)
    <3>1. /\ req[q].pc = "tombstone"
          /\ req'[q].pc \in {"idle", "tombstone"}
          /\ req'[q].pc = "tombstone" => req'[q].owner = req[q].owner
          /\ \A p \in Requests \ {q} : req'[p] = req[p]
          /\ UNCHANGED <<employees, rows>>
      <4>1. req[q] \in Handler
        BY <1>0
      <4> QED BY <2>5, <1>0, <4>1 DEF DeleteTombstone, Idle, Handler, dbVars
    <3> QED BY <3>1, <1>2
  <2> QED BY <2>1, <2>2, <2>3, <2>4, <2>5
<1>6. \/ UNCHANGED <<dbVars, req>> \/ HandlerStep \/ BackendExit
  BY DEF Next, vars, BackendStep, BackendReconnect, BrokerStep, BrokerReceive,
         PubAck, EdgeStep, OnConnect, OnDisconnect, ApplyStorage, ApplyMatcher,
         EdgeExit, EdgeStart
<1> QED BY <1>3, <1>4, <1>5, <1>6

\* The steps that record what Undisturbed excludes.
LEMMA Disturbances ==
    ASSUME TypeOK, [Next]_vars, Undisturbed'
    PROVE  /\ ~BackendExit /\ ~OnDisconnect /\ ~EdgeExit
           /\ \A k \in {"subscribe", "storage"} : ~Fault(k)
BY SyncFaultType DEF Undisturbed, Happened, BackendExit, OnDisconnect, EdgeExit

LEMMA FirstSessionStep ==
    ASSUME CatchUpInv, [Next]_vars
    PROVE  FirstSession'
<1>0. TypeOK /\ SessionIsClean
  BY DEF CatchUpInv, SyncInv
<1> SUFFICES ASSUME Undisturbed'
             PROVE  FirstSession'
  BY DEF FirstSession
<1>1. /\ session \in {"off", "subscribed"}
      /\ session = "off" => applying = None /\ \A i \in Ids : matcher[i] = None
  BY <1>0, HistoryGrows DEF CatchUpInv, FirstSession
<1>2. CASE UNCHANGED <<session, applying, matcher>>
  BY <1>1, <1>2 DEF FirstSession
<1>3. CASE OnConnect
  BY <1>0, <1>3, Disturbances DEF OnConnect, FirstSession
<1>4. CASE ApplyStorage \/ ApplyMatcher
  BY <1>0, <1>1, <1>4 DEF ApplyStorage, ApplyMatcher, SessionIsClean, FirstSession
<1>5. CASE OnDisconnect \/ EdgeExit \/ EdgeStart
  BY <1>0, <1>1, <1>5, Disturbances DEF EdgeStart
<1>6. \/ UNCHANGED <<session, applying, matcher>> \/ EdgeStep
  BY DEF Next, vars, edgeVars, BackendStep, HandlerStep, CreateInsert,
         CreatePublish, DeleteSelect, DeleteRow, DeleteTombstone, BackendExit,
         BackendReconnect, BrokerStep, BrokerReceive, PubAck
<1> QED BY <1>2, <1>3, <1>4, <1>5, <1>6 DEF EdgeStep

\* Publishing anything but an upsert of i leaves i revoked.
LEMMA RevokedThroughPublish ==
    ASSUME TypeOK, NEW id \in Ids, NEW owner \in Payload, ClientPublish(id, owner),
           UNCHANGED <<retained, edgeVars>>, NEW i \in Ids,
           RevocationFollows(i), id = i => owner = None
    PROVE  RevocationFollows(i)'
<1> DEFINE m == [id |-> id, owner |-> owner]
<1>1. /\ client' = Append(client, m) /\ client \in Seq(Message) /\ m \in Message
      /\ sent' = sent
  BY PublishType DEF TypeOK, Message
<1>2. /\ Len(client') = Len(client) + 1
      /\ Len(client) \in Nat /\ sent \in 0..Len(client)
      /\ \A k \in 1..Len(client) : client'[k] = client[k]
      /\ client'[Len(client) + 1] = m
  BY <1>1, AppendFacts, QueuesTyped
<1>3. ~Upsert(m, i)
  BY DEF Upsert
<1>4. TombstoneUnsent(i) => TombstoneUnsent(i)'
  <2> SUFFICES ASSUME NEW k \in (sent + 1)..Len(client), client[k] = Tombstone(i)
               PROVE  \E l \in (sent + 1)..Len(client') : client'[l] = Tombstone(i)
    BY <1>1 DEF TombstoneUnsent, Tombstone
  <2>1. k \in 1..Len(client) /\ k \in (sent + 1)..Len(client')
    BY <1>2
  <2> QED BY <2>1, <1>2
<1>5. ASSUME NEW j \in 1..Len(client'), Upsert(client'[j], i)
      PROVE  \E k \in (j + 1)..Len(client') : client'[k] = Tombstone(i)
  <2>1. j # Len(client) + 1
    BY <1>2, <1>3, <1>5
  <2>2. j \in 1..Len(client) /\ Upsert(client[j], i)
    BY <2>1, <1>2, <1>5
  <2>3. PICK k \in (j + 1)..Len(client) : client[k] = Tombstone(i)
    BY <2>2 DEF RevocationFollows
  <2>4. k \in 1..Len(client) /\ k \in (j + 1)..Len(client')
    BY <1>2
  <2> QED BY <2>3, <2>4, <1>2
<1> QED BY <1>4, <1>5 DEF RevocationFollows, Upsert, Tombstone, TombstoneOnWire, edgeVars

\* Publishing the tombstone of i revokes it, wherever it is.
LEMMA RevokedByTombstone ==
    ASSUME TypeOK, NEW i \in Ids, ClientPublish(i, None), UNCHANGED <<retained, edgeVars>>
    PROVE  RevocationFollows(i)'
<1>1. /\ client' = Append(client, Tombstone(i)) /\ client \in Seq(Message)
      /\ Tombstone(i) \in Message
      /\ sent' = sent
  BY PublishType DEF TypeOK, Message, Payload, Tombstone
<1>2. /\ Len(client') = Len(client) + 1
      /\ Len(client) \in Nat /\ sent \in 0..Len(client)
      /\ client'[Len(client) + 1] = Tombstone(i)
  BY <1>1, AppendFacts, QueuesTyped
<1>3. TombstoneUnsent(i)'
  <2>1. Len(client) + 1 \in (sent + 1)..Len(client')
    BY <1>2
  <2> QED BY <2>1, <1>1, <1>2 DEF TombstoneUnsent, Tombstone
<1>4. ~Upsert(Tombstone(i), i)
  BY DEF Upsert, Tombstone
<1>5. ASSUME NEW j \in 1..Len(client'), Upsert(client'[j], i)
      PROVE  \E k \in (j + 1)..Len(client') : client'[k] = Tombstone(i)
  <2>1. j # Len(client) + 1
    BY <1>2, <1>4, <1>5
  <2>2. Len(client) + 1 \in (j + 1)..Len(client')
    BY <2>1, <1>2
  <2> QED BY <2>2, <1>2
<1> QED BY <1>3, <1>5 DEF RevocationFollows, Upsert, Tombstone

\* The broker receives a message: an upsert is followed by the tombstone in
\* rumqttc, and the tombstone itself takes the place of what was retained.
LEMMA RevokedThroughReceive ==
    ASSUME CatchUpInv, BrokerReceive, FirstSession, Undisturbed, NEW i \in Ids,
           RevocationFollows(i)
    PROVE  RevocationFollows(i)'
<1> DEFINE m == client[sent + 1]
<1>0. /\ TypeOK /\ SessionIsClean
      /\ retained \in [Ids -> Payload] /\ wire \in Seq(Message)
      /\ sent \in Nat /\ Len(client) \in Nat
  BY QueuesTyped DEF CatchUpInv, SyncInv, TypeOK
<1>1. /\ sent + 1 \in 1..Len(client)
      /\ sent' = sent + 1
      /\ retained' = [retained EXCEPT ![m.id] = m.owner]
      /\ wire' = IF session = "subscribed" THEN Append(wire, m) ELSE wire
      /\ UNCHANGED <<client, session, applying, matcher>>
  BY <1>0, QueuesTyped DEF BrokerReceive
<1>2. m \in Message
  BY <1>0, <1>1, QueuesTyped
<1>3. \A j \in 1..Len(client) : Upsert(client[j], i) =>
        \E k \in (j + 1)..Len(client) : client[k] = Tombstone(i)
  BY DEF RevocationFollows
<1>4. ASSUME Upsert(m, i) PROVE TombstoneUnsent(i)'
  <2>1. PICK k \in (sent + 2)..Len(client) : client[k] = Tombstone(i)
    <3>1. \E k \in ((sent + 1) + 1)..Len(client) : client[k] = Tombstone(i)
      BY <1>1, <1>3, <1>4
    <3> QED BY <3>1, <1>0
  <2>2. k \in (sent' + 1)..Len(client')
    BY <1>0, <1>1
  <2> QED BY <2>1, <2>2, <1>1 DEF TombstoneUnsent, Tombstone
<1>5. m # Tombstone(i) /\ TombstoneUnsent(i) => TombstoneUnsent(i)'
  <2> SUFFICES ASSUME m # Tombstone(i), NEW k \in (sent + 1)..Len(client),
                      client[k] = Tombstone(i)
               PROVE  TombstoneUnsent(i)'
    BY DEF TombstoneUnsent
  <2>1. k # sent + 1
    OBVIOUS
  <2>2. k \in (sent' + 1)..Len(client')
    BY <2>1, <1>0, <1>1
  <2> QED BY <2>2, <1>1 DEF TombstoneUnsent, Tombstone
<1> HIDE DEF m
<1>6. CASE session = "off"
  <2>1. wire = <<>> /\ wire' = <<>> /\ applying' = None /\ matcher'[i] = None
    BY <1>6, <1>0, <1>1 DEF FirstSession, SessionIsClean
  <2>2. 1..Len(<<>>) = {}
    OBVIOUS
  <2>3. retained'[i] # None => TombstoneUnsent(i)'
    <3>1. CASE m.id = i
      BY <3>1, <1>0, <1>1, <1>4 DEF Upsert
    <3>2. CASE m.id # i
      <4>1. retained'[i] = retained[i] /\ m # Tombstone(i)
        BY <3>2, <1>0, <1>1 DEF Tombstone
      <4> QED BY <4>1, <1>5 DEF RevocationFollows
    <3> QED BY <3>1, <3>2
  <2> QED BY <1>1, <1>3, <2>1, <2>2, <2>3 DEF RevocationFollows, Upsert, Tombstone
<1>7. CASE session = "subscribed"
  <2>1. /\ Len(wire') = Len(wire) + 1 /\ Len(wire) \in Nat
        /\ \A k \in 1..Len(wire) : wire'[k] = wire[k]
        /\ wire'[Len(wire) + 1] = m
    BY <1>0, <1>1, <1>2, <1>7, AppendFacts
  <2>2. TombstoneOnWire(i) => TombstoneOnWire(i)'
    <3> SUFFICES ASSUME NEW k \in 1..Len(wire), wire[k] = Tombstone(i)
                 PROVE  \E l \in 1..Len(wire') : wire'[l] = Tombstone(i)
      BY DEF TombstoneOnWire, Tombstone
    <3>1. k \in 1..Len(wire')
      BY <2>1
    <3> QED BY <3>1, <2>1
  <2>3. CASE m = Tombstone(i)
    <3>1. m.id = i /\ m.owner = None
      BY <2>3 DEF Tombstone
    <3>2. TombstoneOnWire(i)' /\ retained'[i] = None
      <4>1. Len(wire) + 1 \in 1..Len(wire')
        BY <2>1
      <4> QED BY <4>1, <2>1, <2>3, <3>1, <1>0, <1>1 DEF TombstoneOnWire, Tombstone
    <3>3. ASSUME NEW j \in 1..Len(wire'), Upsert(wire'[j], i)
          PROVE  \E k \in (j + 1)..Len(wire') : wire'[k] = Tombstone(i)
      <4>1. j # Len(wire) + 1
        BY <2>1, <3>1, <3>3 DEF Upsert
      <4>2. Len(wire) + 1 \in (j + 1)..Len(wire')
        BY <4>1, <2>1
      <4> QED BY <4>2, <2>1, <2>3
    <3> QED BY <1>1, <1>3, <3>2, <3>3 DEF RevocationFollows, Upsert, Tombstone
  <2>4. CASE m # Tombstone(i)
    <3>1. TombstoneUnsent(i) => TombstoneUnsent(i)'
      BY <2>4, <1>5
    <3>2. retained'[i] # None => TombstoneUnsent(i)'
      <4>1. CASE m.id = i
        BY <4>1, <1>0, <1>1, <1>4 DEF Upsert
      <4>2. CASE m.id # i
        BY <4>2, <3>1, <1>0, <1>1 DEF RevocationFollows
      <4> QED BY <4>1, <4>2
    <3>3. ASSUME NEW j \in 1..Len(wire'), Upsert(wire'[j], i)
          PROVE  TombstoneUnsent(i)' \/ \E k \in (j + 1)..Len(wire') : wire'[k] = Tombstone(i)
      <4>1. CASE j = Len(wire) + 1
        BY <4>1, <2>1, <3>3, <1>4
      <4>2. CASE j # Len(wire) + 1
        <5>1. j \in 1..Len(wire) /\ Upsert(wire[j], i)
          BY <4>2, <2>1, <3>3
        <5>2. CASE \E k \in (j + 1)..Len(wire) : wire[k] = Tombstone(i)
          <6>1. PICK k \in (j + 1)..Len(wire) : wire[k] = Tombstone(i)
            BY <5>2
          <6>2. k \in 1..Len(wire) /\ k \in (j + 1)..Len(wire')
            BY <5>1, <2>1
          <6> QED BY <6>1, <6>2, <2>1
        <5> QED BY <5>1, <5>2, <3>1 DEF RevocationFollows
      <4> QED BY <4>1, <4>2
    <3>4. /\ applying' # None /\ Upsert(applying', i) =>
                TombstoneUnsent(i)' \/ TombstoneOnWire(i)'
          /\ matcher'[i] # None =>
                TombstoneUnsent(i)' \/ TombstoneOnWire(i)' \/ applying' = Tombstone(i)
      BY <3>1, <2>2, <1>1 DEF RevocationFollows
    <3> QED BY <1>1, <1>3, <3>2, <3>3, <3>4 DEF RevocationFollows, Upsert, Tombstone
  <2> QED BY <2>3, <2>4
<1> QED BY <1>6, <1>7 DEF FirstSession

\* An acknowledgement and a new connection of the backend take no tombstone
\* out of what is unsent.
LEMMA RevokedThroughConnection ==
    ASSUME TypeOK, PubAck \/ BackendReconnect, NEW i \in Ids, RevocationFollows(i)
    PROVE  RevocationFollows(i)'
<1>1. /\ client \in Seq(Message) /\ Len(client) \in Nat /\ sent \in 0..Len(client)
  BY QueuesTyped DEF TypeOK
<1>2. UNCHANGED <<retained, wire, applying, matcher>>
  BY DEF PubAck, BackendReconnect, edgeVars
<1>3. \A j \in 1..Len(client) : Upsert(client[j], i) =>
        \E k \in (j + 1)..Len(client) : client[k] = Tombstone(i)
  BY DEF RevocationFollows
<1>4. CASE PubAck
  <2>1. client # <<>> /\ client' = Tail(client) /\ sent' = sent - 1 /\ sent > 0
    BY <1>1, <1>4 DEF PubAck
  <2>2. /\ Len(client') = Len(client) - 1
        /\ \A k \in 1..(Len(client) - 1) : client'[k] = client[k + 1]
    BY <1>1, <2>1, TailFacts
  <2>3. TombstoneUnsent(i) => TombstoneUnsent(i)'
    <3> SUFFICES ASSUME NEW k \in (sent + 1)..Len(client), client[k] = Tombstone(i)
                 PROVE  \E l \in (sent' + 1)..Len(client') : client'[l] = Tombstone(i)
      BY DEF TombstoneUnsent, Tombstone
    <3>1. /\ k - 1 \in (sent' + 1)..Len(client')
          /\ k - 1 \in 1..(Len(client) - 1) /\ (k - 1) + 1 = k
      BY <1>1, <2>1, <2>2
    <3> QED BY <3>1, <2>2
  <2>4. ASSUME NEW j \in 1..Len(client'), Upsert(client'[j], i)
        PROVE  \E k \in (j + 1)..Len(client') : client'[k] = Tombstone(i)
    <3>1. j + 1 \in 1..Len(client) /\ Upsert(client[j + 1], i)
      BY <1>1, <2>2, <2>4
    <3>2. PICK k \in ((j + 1) + 1)..Len(client) : client[k] = Tombstone(i)
      BY <1>3, <3>1
    <3>3. /\ k - 1 \in (j + 1)..Len(client')
          /\ k - 1 \in 1..(Len(client) - 1) /\ (k - 1) + 1 = k
      BY <1>1, <2>2
    <3> QED BY <3>2, <3>3, <2>2
  <2> QED BY <1>2, <2>3, <2>4 DEF RevocationFollows, Upsert, Tombstone, TombstoneOnWire
<1>5. CASE BackendReconnect
  <2>1. sent' = 0 /\ UNCHANGED client
    BY <1>5 DEF BackendReconnect
  <2>2. TombstoneUnsent(i) => TombstoneUnsent(i)'
    <3> SUFFICES ASSUME NEW k \in (sent + 1)..Len(client), client[k] = Tombstone(i)
                 PROVE  \E l \in (sent' + 1)..Len(client) : client[l] = Tombstone(i)
      BY <2>1 DEF TombstoneUnsent, Tombstone
    <3>1. k \in (sent' + 1)..Len(client)
      BY <1>1, <2>1
    <3> QED BY <3>1
  <2> QED BY <1>2, <1>3, <2>1, <2>2 DEF RevocationFollows, Upsert, Tombstone, TombstoneOnWire
<1> QED BY <1>4, <1>5

\* The first subscription brings an upsert only of what is still retained.
LEMMA RevokedThroughConnect ==
    ASSUME CatchUpInv, OnConnect, ~Fault("subscribe"), FirstSession, Undisturbed,
           NEW i \in Ids, RevocationFollows(i)
    PROVE  RevocationFollows(i)'
<1>1. /\ wire' \in SetToSeqs(RetainedMessages)
      /\ UNCHANGED <<clientVars, retained, applying, matcher>>
      /\ applying = None /\ matcher[i] = None
  BY DEF OnConnect, FirstSession
<1>2. ASSUME NEW j \in 1..Len(wire'), Upsert(wire'[j], i)
      PROVE  TombstoneUnsent(i)
  <2>1. wire'[j] \in RetainedMessages
    BY <1>1, SnapshotFacts DEF CatchUpInv, SyncInv
  <2>2. retained[i] # None
    BY <2>1, <1>2 DEF RetainedMessages, Upsert
  <2> QED BY <2>2 DEF RevocationFollows
<1> QED BY <1>1, <1>2 DEF RevocationFollows, Upsert, Tombstone, TombstoneUnsent, clientVars

\* on_message takes the first message off the wire.
LEMMA RevokedThroughStorage ==
    ASSUME TypeOK, ApplyStorage, ~Fault("storage"), NEW i \in Ids, RevocationFollows(i)
    PROVE  RevocationFollows(i)'
<1>1. /\ wire # <<>> /\ wire \in Seq(Message)
      /\ wire' = Tail(wire) /\ applying = None /\ applying' = Head(wire)
      /\ UNCHANGED <<clientVars, retained, matcher>>
  BY DEF ApplyStorage, TypeOK
<1>2. /\ Head(wire) = wire[1]
      /\ Len(wire') = Len(wire) - 1
      /\ Len(wire) \in Nat \ {0}
      /\ \A k \in 1..(Len(wire) - 1) : wire'[k] = wire[k + 1]
  BY <1>1, TailFacts
<1>3. TombstoneUnsent(i)' = TombstoneUnsent(i)
  BY <1>1 DEF TombstoneUnsent, Tombstone, clientVars
<1>4. ASSUME NEW j \in 1..Len(wire), NEW k \in (j + 1)..Len(wire), wire[k] = Tombstone(i)
      PROVE  \E l \in j..Len(wire') : wire'[l] = Tombstone(i)
  <2>1. /\ k - 1 \in j..Len(wire')
        /\ k - 1 \in 1..(Len(wire) - 1) /\ (k - 1) + 1 = k
    BY <1>2
  <2> QED BY <2>1, <1>2, <1>4
<1>5. \A j \in 1..Len(wire) : Upsert(wire[j], i) =>
        \/ TombstoneUnsent(i)
        \/ \E l \in j..Len(wire') : wire'[l] = Tombstone(i)
  BY <1>4 DEF RevocationFollows
<1>6. ASSUME NEW j \in 1..Len(wire'), Upsert(wire'[j], i)
      PROVE  TombstoneUnsent(i)' \/ \E k \in (j + 1)..Len(wire') : wire'[k] = Tombstone(i)
  <2>1. j + 1 \in 1..Len(wire) /\ Upsert(wire[j + 1], i)
    BY <1>2, <1>6
  <2> QED BY <2>1, <1>3, <1>5
<1>7. Upsert(applying', i) => TombstoneUnsent(i)' \/ TombstoneOnWire(i)'
  <2>1. 1 \in 1..Len(wire) /\ applying' = wire[1]
    BY <1>1, <1>2
  <2> QED BY <2>1, <1>3, <1>5 DEF TombstoneOnWire, Tombstone
<1>8. TombstoneOnWire(i) => TombstoneOnWire(i)' \/ applying' = Tombstone(i)
  <2> SUFFICES ASSUME NEW k \in 1..Len(wire), wire[k] = Tombstone(i), k # 1
               PROVE  TombstoneOnWire(i)'
    BY <1>1, <1>2 DEF TombstoneOnWire
  <2>1. 1 \in 1..Len(wire) /\ k \in (1 + 1)..Len(wire)
    BY <1>2
  <2> QED BY <2>1, <1>4 DEF TombstoneOnWire, Tombstone
<1>9. Tombstone(i) # None
  <2>1. Tombstone(i) \in Message
    BY DEF Message, Payload, Tombstone
  <2> QED BY <2>1, NoMessageAssumption
<1>10. matcher'[i] # None =>
         TombstoneUnsent(i)' \/ TombstoneOnWire(i)' \/ applying' = Tombstone(i)
  BY <1>1, <1>3, <1>8, <1>9 DEF RevocationFollows
<1> QED BY <1>1, <1>3, <1>6, <1>7, <1>10 DEF RevocationFollows, Upsert, Tombstone, clientVars

\* The matcher takes over what SQLite holds.
LEMMA RevokedThroughMatcher ==
    ASSUME TypeOK, ApplyMatcher, NEW i \in Ids, RevocationFollows(i)
    PROVE  RevocationFollows(i)'
<1>1. /\ applying # None
      /\ matcher \in [Ids -> Payload]
      /\ matcher' = [matcher EXCEPT ![applying.id] = applying.owner]
      /\ applying' = None
      /\ UNCHANGED <<clientVars, retained, wire>>
  BY DEF ApplyMatcher, TypeOK
<1>2. /\ TombstoneUnsent(i)' = TombstoneUnsent(i)
      /\ TombstoneOnWire(i)' = TombstoneOnWire(i)
  BY <1>1 DEF TombstoneUnsent, TombstoneOnWire, Tombstone, clientVars
<1>3. matcher'[i] # None => TombstoneUnsent(i) \/ TombstoneOnWire(i)
  <2>1. CASE applying.id = i
    <3>1. matcher'[i] = applying.owner
      BY <2>1, <1>1
    <3> QED BY <2>1, <3>1, <1>1 DEF RevocationFollows, Upsert
  <2>2. CASE applying.id # i
    <3>1. matcher'[i] = matcher[i]
      BY <2>2, <1>1
    <3>2. applying # Tombstone(i)
      BY <2>2 DEF Tombstone
    <3> QED BY <3>1, <3>2 DEF RevocationFollows
  <2> QED BY <2>1, <2>2
<1> QED BY <1>1, <1>2, <1>3 DEF RevocationFollows, Upsert, Tombstone, clientVars

\* The handlers: a deletion in PostgreSQL puts the ids in the hands of its
\* handler, which publishes a tombstone for each.
LEMMA RevokedThroughHandler ==
    ASSUME CatchUpInv, HandlerStep, ~Happened({"overlap"}), NEW i \in Ids, Deleted(i)',
           Deleted(i) => TombstoneWithHandler(i) \/ RevocationFollows(i)
    PROVE  TombstoneWithHandler(i)' \/ RevocationFollows(i)'
<1> USE DEF Handle
<1>0. /\ TypeOK /\ req \in [Requests -> Handler] /\ i \in Nat /\ nextId \in Nat
      /\ \A q \in Requests : req[q].ids \subseteq Ids /\ req[q].owner \in Payload
  BY SyncBoundsAssumption DEF CatchUpInv, SyncInv, TypeOK, Handler, Ids
<1>1. /\ \A p \in Requests : req[p].pc = "publish" =>
            \A id \in req[p].ids : [id |-> id, owner |-> req[p].owner] \in rows
      /\ \A q \in Requests : req[q].pc = "delete" /\ req[q].owner \in employees =>
            \A r \in rows : r.owner = req[q].owner => r.id \in req[q].ids
  BY DEF CatchUpInv, OverlapIsRecorded, IdsOf
<1> PICK q \in Requests : \/ CreateInsert(q) \/ CreatePublish(q)
                          \/ DeleteSelect(q) \/ DeleteRow(q) \/ DeleteTombstone(q)
  BY DEF HandlerStep
\* A statement leaves queues and device alone.
<1>2. ASSUME UNCHANGED <<clientVars, retained, edgeVars>>, RevocationFollows(i)
      PROVE  RevocationFollows(i)'
  BY <1>2 DEF RevocationFollows, Upsert, Tombstone, TombstoneUnsent,
              TombstoneOnWire, clientVars, edgeVars
<1>3. ASSUME \A p \in Requests : req[p].pc = "tombstone" => req'[p] = req[p],
             TombstoneWithHandler(i)
      PROVE  TombstoneWithHandler(i)'
  BY <1>3 DEF TombstoneWithHandler
<1>4. CASE CreateInsert(q)
  <2>1. PICK e \in employees :
          /\ req[q].pc = "idle"
          /\ req' = [req EXCEPT ![q] = [pc |-> "publish", owner |-> e, ids |-> {nextId}]]
          /\ rows' = rows \cup {[id |-> nextId, owner |-> e]}
          /\ nextId' = nextId + 1
          /\ UNCHANGED <<clientVars, retained, edgeVars>>
    BY <1>4 DEF CreateInsert
  <2>2. Deleted(i)
    <3>1. /\ i < nextId' /\ \A r \in rows' : r.id # i
      BY DEF Deleted
    <3>2. i # nextId
      <4> DEFINE new == [id |-> nextId, owner |-> e]
      <4>1. new \in rows' /\ new.id = nextId
        BY <2>1
      <4> QED BY <3>1, <4>1
    <3>3. i < nextId
      BY <2>1, <3>1, <3>2, <1>0
    <3> QED BY <2>1, <3>1, <3>3 DEF Deleted
  <2>3. \A p \in Requests : req[p].pc = "tombstone" => req'[p] = req[p]
    BY <2>1, <1>0
  <2> QED BY <2>1, <2>2, <2>3, <1>2, <1>3
<1>5. CASE CreatePublish(q)
  <2>1. PICK id \in req[q].ids :
          /\ ClientPublish(id, req[q].owner)
          /\ req[q].pc = "publish"
          /\ req' = [req EXCEPT ![q] = Idle]
          /\ UNCHANGED <<dbVars, retained, edgeVars>>
    BY <1>5 DEF CreatePublish
  <2>2. Deleted(i)
    BY <2>1 DEF Deleted, dbVars
  <2>3. id # i
    BY <2>1, <2>2, <1>1 DEF Deleted
  <2>4. \A p \in Requests : req[p].pc = "tombstone" => req'[p] = req[p]
    BY <2>1, <1>0
  <2> QED BY <2>1, <2>2, <2>3, <2>4, <1>0, <1>3, RevokedThroughPublish
<1>6. CASE DeleteSelect(q)
  <2>1. /\ Deleted(i)
        /\ UNCHANGED <<clientVars, retained, edgeVars>>
        /\ \A p \in Requests : req[p].pc = "tombstone" => req'[p] = req[p]
    BY <1>0, <1>6 DEF DeleteSelect, Deleted, dbVars
  <2> QED BY <2>1, <1>2, <1>3
<1>7. CASE DeleteRow(q)
  <2>1. /\ req[q].pc = "delete"
        /\ UNCHANGED <<nextId, clientVars, retained, edgeVars>>
        /\ \A p \in Requests : req[p].pc = "tombstone" => req'[p] = req[p]
    BY <1>0, <1>7 DEF DeleteRow
  <2>2. CASE Deleted(i)
    BY <2>1, <2>2, <1>2, <1>3
  <2>3. CASE ~Deleted(i)
    <3>1. PICK r \in rows : r.id = i /\ r \notin rows'
      BY <2>1, <2>3 DEF Deleted
    <3>2. /\ req[q].owner \in employees
          /\ req' = [req EXCEPT ![q] = [req[q] EXCEPT !.pc = "tombstone"]]
          /\ r.owner = req[q].owner
      BY <1>7, <3>1 DEF DeleteRow
    <3>3. i \in req[q].ids
      BY <2>1, <3>1, <3>2, <1>1
    <3>4. req'[q].pc = "tombstone" /\ req'[q].ids = req[q].ids
      BY <3>2, <1>0 DEF Handler
    <3> QED BY <3>3, <3>4 DEF TombstoneWithHandler
  <2> QED BY <2>2, <2>3
<1>8. CASE DeleteTombstone(q)
  <2>1. Deleted(i) /\ req[q].pc = "tombstone" /\ UNCHANGED <<retained, edgeVars>>
    BY <1>8 DEF DeleteTombstone, Deleted, dbVars
  <2>2. CASE req[q].ids = {} /\ req' = [req EXCEPT ![q] = Idle] /\ UNCHANGED clientVars
    <3>1. \A p \in Requests \ {q} : req'[p] = req[p]
      BY <2>2, <1>0
    <3>2. TombstoneWithHandler(i) => TombstoneWithHandler(i)'
      BY <2>2, <3>1 DEF TombstoneWithHandler
    <3> QED BY <2>1, <2>2, <3>2, <1>2
  <2>3. CASE \E id \in req[q].ids :
               /\ req' = [req EXCEPT ![q] = [req[q] EXCEPT !.ids = @ \ {id}]]
               /\ ClientPublish(id, None)
    <3>1. PICK id \in req[q].ids :
            /\ req' = [req EXCEPT ![q] = [req[q] EXCEPT !.ids = @ \ {id}]]
            /\ ClientPublish(id, None)
      BY <2>3
    <3>2. /\ req'[q].pc = "tombstone" /\ req'[q].ids = req[q].ids \ {id}
          /\ \A p \in Requests \ {q} : req'[p] = req[p]
      BY <3>1, <2>1, <1>0 DEF Handler
    <3>3. CASE id = i
      BY <3>1, <3>3, <2>1, <1>0, RevokedByTombstone
    <3>4. CASE id # i
      <4>1. TombstoneWithHandler(i) => TombstoneWithHandler(i)'
        BY <3>2, <3>4 DEF TombstoneWithHandler
      <4>2. id \in Ids /\ None \in Payload
        BY <1>0 DEF Payload
      <4> QED BY <3>1, <3>4, <4>1, <4>2, <2>1, <1>0, RevokedThroughPublish
    <3> QED BY <3>3, <3>4
  <2> QED BY <1>8, <2>2, <2>3 DEF DeleteTombstone
<1> QED BY <1>4, <1>5, <1>6, <1>7, <1>8

LEMMA RevocationStep ==
    ASSUME CatchUpInv, [Next]_vars
    PROVE  RevocationUnderway'
<1> SUFFICES ASSUME Undisturbed', NEW i \in Ids, Deleted(i)'
             PROVE  TombstoneWithHandler(i)' \/ RevocationFollows(i)'
  BY DEF RevocationUnderway
<1>0. TypeOK /\ FirstSession
  BY DEF CatchUpInv, SyncInv
<1>1. Undisturbed
  BY <1>0, HistoryGrows
<1>2. Deleted(i) => TombstoneWithHandler(i) \/ RevocationFollows(i)
  BY <1>1 DEF CatchUpInv, RevocationUnderway
<1>3. CASE HandlerStep
  BY <1>1, <1>2, <1>3, RevokedThroughHandler DEF Undisturbed, Happened
<1>4. CASE ~HandlerStep
  <2>1. UNCHANGED <<dbVars, req>>
    BY <1>0, <1>4, Disturbances
       DEF Next, vars, BackendStep, BackendReconnect, BrokerStep, BrokerReceive,
           PubAck, EdgeStep, OnConnect, OnDisconnect, ApplyStorage, ApplyMatcher,
           EdgeExit, EdgeStart
  <2>2. Deleted(i) /\ TombstoneWithHandler(i)' = TombstoneWithHandler(i)
    BY <2>1 DEF Deleted, TombstoneWithHandler, dbVars
  <2> SUFFICES ASSUME RevocationFollows(i)
               PROVE  RevocationFollows(i)'
    BY <1>2, <2>2
  <2>3. CASE UNCHANGED vars
    BY <2>3 DEF vars, clientVars, edgeVars, RevocationFollows, Upsert, Tombstone,
                TombstoneUnsent, TombstoneOnWire
  <2>4. CASE BrokerReceive
    BY <2>4, <1>0, <1>1, RevokedThroughReceive
  <2>5. CASE PubAck \/ BackendReconnect
    BY <2>5, <1>0, RevokedThroughConnection
  <2>6. CASE OnConnect
    BY <2>6, <1>0, <1>1, Disturbances, RevokedThroughConnect
  <2>7. CASE ApplyStorage
    BY <2>7, <1>0, Disturbances, RevokedThroughStorage
  <2>8. CASE ApplyMatcher
    BY <2>8, <1>0, RevokedThroughMatcher
  <2>9. ~BackendExit /\ ~OnDisconnect /\ ~EdgeExit
    BY <1>0, Disturbances
  <2>10. ~EdgeStart
    BY <1>0, <1>1 DEF EdgeStart, FirstSession
  <2> QED BY <1>4, <2>3, <2>4, <2>5, <2>6, <2>7, <2>8, <2>9, <2>10
          DEF Next, BackendStep, BrokerStep, EdgeStep
<1> QED BY <1>3, <1>4

LEMMA CatchUpInductive ==
    /\ Init => CatchUpInv
    /\ CatchUpInv /\ [Next]_vars => CatchUpInv'
<1>1. ASSUME Init PROVE CatchUpInv
  <2>1. SyncInv
    BY <1>1, SyncInvInductive
  <2>2. 1..Len(<<>>) = {}
    OBVIOUS
  <2>3. \A i \in Ids : ~Deleted(i)
    BY <1>1, SyncBoundsAssumption DEF Init, Deleted, Ids
  <2> QED BY <1>1, <2>1, <2>2, <2>3
          DEF CatchUpInv, Init, SessionIsClean, MatcherMatchesStorage,
              DeviceConsistent, UpsertUnderway, OverlapIsRecorded, FirstSession,
              RevocationUnderway, Idle
<1>2. ASSUME CatchUpInv, [Next]_vars PROVE CatchUpInv'
  <2>1. SyncInv /\ MatcherInv
    BY <1>2 DEF CatchUpInv, SyncInv, MatcherInv
  <2> QED BY <1>2, <2>1, SyncInvInductive, MatcherStep, DeviceConsistentStep,
             UpsertUnderwayStep, OverlapStep, FirstSessionStep, RevocationStep
          DEF CatchUpInv
<1> QED BY <1>1, <1>2

\* Once everything has been delivered, the matcher of a subscribed device holds
\* every embedding PostgreSQL has, unless the backend died or SQLite refused a
\* write, and none PostgreSQL has deleted, when the connection and the
\* processes lasted and no embedding was created for an employee being
\* deleted.
THEOREM DeviceAgreesWhenQuiet == Spec => []DeviceCatchesUp
<1>1. ASSUME CatchUpInv PROVE NoLostEnrollment
  <2> SUFFICES ASSUME Quiet, ~Happened({"backend_exit", "storage"}), NEW r \in rows
               PROVE  matcher[r.id] = r.owner
    BY DEF NoLostEnrollment
  <2>1. 1..Len(<<>>) = {} /\ ToSet(<<>>) = {}
    BY DEF ToSet
  <2>2. retained[r.id] = r.owner
    BY <1>1, <2>1 DEF CatchUpInv, SyncInv, EnrollmentRetained, Quiet, Happened
  <2> QED BY <1>1, <2>1, <2>2 DEF CatchUpInv, UpsertUnderway, Quiet, Happened
<1>2. ASSUME CatchUpInv PROVE NoGhost
  <2> SUFFICES ASSUME Quiet, Undisturbed, NEW i \in Ids, matcher[i] # None
               PROVE  [id |-> i, owner |-> matcher[i]] \in rows
    BY DEF NoGhost
  <2>1. Consistent(i, matcher[i])
    BY <1>2 DEF CatchUpInv, DeviceConsistent
  <2>2. CASE \E r \in rows : r.id = i
    <3>1. PICK r \in rows : r.id = i
      BY <2>2
    <3>2. r = [id |-> i, owner |-> matcher[i]]
      BY <3>1, <2>1, <1>2 DEF Consistent, CatchUpInv, SyncInv, TypeOK
    <3> QED BY <3>2
  <2>3. CASE \A r \in rows : r.id # i
    <3>1. RevocationFollows(i)
      BY <2>1, <2>3, <1>2
         DEF Consistent, CatchUpInv, RevocationUnderway, Deleted,
             TombstoneWithHandler, Quiet
    <3>2. ~TombstoneUnsent(i) /\ ~TombstoneOnWire(i)
      <4>1. Len(<<>>) = 0 /\ 1..0 = {}
        OBVIOUS
      <4>2. sent \in Nat
        BY <1>2, QueuesTyped DEF CatchUpInv, SyncInv
      <4>3. (sent + 1)..0 = {}
        BY <4>2
      <4> QED BY <4>1, <4>3 DEF Quiet, TombstoneUnsent, TombstoneOnWire
    <3>3. applying # Tombstone(i)
      <4>1. Tombstone(i) \in Message
        BY DEF Message, Payload, Tombstone
      <4> QED BY <4>1, NoMessageAssumption DEF Quiet
    <3> QED BY <3>1, <3>2, <3>3 DEF RevocationFollows
  <2> QED BY <2>2, <2>3
<1>3. CatchUpInv => DeviceCatchesUp
  BY <1>1, <1>2 DEF DeviceCatchesUp
<1> QED BY <1>3, CatchUpInductive, PTL DEF Spec
=============================================================================
