------------------------ MODULE EventDelivery_proofs ------------------------
(***************************************************************************)
(* Proofs about EventDelivery, for any number of messages, any batch size, *)
(* any set of employees and any set and number of faults.                  *)
(***************************************************************************)
EXTENDS EventDelivery, TLAPS, SequenceTheorems

-----------------------------------------------------------------------------
(* Facts about queues.                                                     *)

\* Publishing appends to the queue of libmosquitto, delivery to that of the
\* session: nothing else changes in it.
LEMMA RangeAppend ==
    ASSUME NEW S, NEW s \in Seq(S), NEW x \in S
    PROVE  /\ Append(s, x) \in Seq(S)
           /\ Range(Append(s, x)) = Range(s) \cup {x}
           /\ Len(Append(s, x)) = Len(s) + 1
           /\ \A i \in 1..Len(s) : Append(s, x)[i] = s[i]
<1>1. /\ Append(s, x) \in Seq(S)
      /\ Len(Append(s, x)) = Len(s) + 1
      /\ \A i \in 1..Len(s) : Append(s, x)[i] = s[i]
      /\ Append(s, x)[Len(s) + 1] = x
  OBVIOUS
<1>2. /\ DOMAIN s = 1..Len(s)
      /\ DOMAIN Append(s, x) = 1..(Len(s) + 1)
      /\ Len(s) \in Nat
  OBVIOUS
<1>3. Range(Append(s, x)) \subseteq Range(s) \cup {x}
  <2> SUFFICES ASSUME NEW i \in 1..(Len(s) + 1)
               PROVE  Append(s, x)[i] \in Range(s) \cup {x}
    BY <1>2 DEF Range
  <2>1. CASE i = Len(s) + 1
    BY <2>1, <1>1
  <2>2. CASE i \in 1..Len(s)
    BY <2>2, <1>1, <1>2 DEF Range
  <2> QED BY <2>1, <2>2, <1>2
<1>4. Range(s) \cup {x} \subseteq Range(Append(s, x))
  <2>1. ASSUME NEW i \in 1..Len(s) PROVE s[i] \in Range(Append(s, x))
    <3>1. i \in 1..(Len(s) + 1) /\ Append(s, x)[i] = s[i]
      BY <1>1, <1>2
    <3> QED BY <3>1, <1>2 DEF Range
  <2>2. x \in Range(Append(s, x))
    <3>1. Len(s) + 1 \in 1..(Len(s) + 1)
      BY <1>2
    <3> QED BY <3>1, <1>1, <1>2 DEF Range
  <2> QED BY <2>1, <2>2, <1>2 DEF Range
<1> QED BY <1>1, <1>3, <1>4

\* A function on 1..n is a sequence, and the elements of one are in its set.
LEMMA SequenceFunction ==
    ASSUME NEW S, NEW n \in Nat, NEW f \in [1..n -> S]
    PROVE  f \in Seq(S)
OBVIOUS

LEMMA SequenceElement ==
    ASSUME NEW S, NEW s \in Seq(S), NEW i \in 1..Len(s)
    PROVE  i \in DOMAIN s /\ s[i] \in S
OBVIOUS

\* Taking the head off a queue loses the head at most.
LEMMA RangeTail ==
    ASSUME NEW S, NEW s \in Seq(S), s # <<>>
    PROVE  /\ Tail(s) \in Seq(S)
           /\ Head(s) \in S
           /\ Head(s) \in Range(s)
           /\ Head(s) = s[1]
           /\ Range(s) = Range(Tail(s)) \cup {Head(s)}
           /\ Len(Tail(s)) = Len(s) - 1
           /\ Len(s) \in Nat \ {0}
           /\ \A i \in 1..(Len(s) - 1) : Tail(s)[i] = s[i + 1]
<1>1. /\ Tail(s) \in Seq(S)
      /\ Head(s) = s[1]
      /\ Len(Tail(s)) = Len(s) - 1
      /\ Len(s) \in Nat \ {0}
      /\ \A i \in 1..(Len(s) - 1) : Tail(s)[i] = s[i + 1]
  OBVIOUS
<1>2. /\ DOMAIN s = 1..Len(s)
      /\ DOMAIN Tail(s) = 1..(Len(s) - 1)
  BY <1>1
<1>3. Head(s) \in S /\ Head(s) \in Range(s)
  BY <1>1, <1>2 DEF Range
<1>4. Range(s) \subseteq Range(Tail(s)) \cup {Head(s)}
  <2> SUFFICES ASSUME NEW i \in 1..Len(s)
               PROVE  s[i] \in Range(Tail(s)) \cup {Head(s)}
    BY <1>2 DEF Range
  <2>1. CASE i = 1
    BY <2>1, <1>1
  <2>2. CASE i # 1
    <3>1. i - 1 \in 1..(Len(s) - 1) /\ Tail(s)[i - 1] = s[i]
      BY <2>2, <1>1
    <3> QED BY <3>1, <1>2 DEF Range
  <2> QED BY <2>1, <2>2
<1>5. Range(Tail(s)) \subseteq Range(s)
  <2> SUFFICES ASSUME NEW i \in 1..(Len(s) - 1)
               PROVE  Tail(s)[i] \in Range(s)
    BY <1>2 DEF Range
  <2>1. i + 1 \in 1..Len(s) /\ Tail(s)[i] = s[i + 1]
    BY <1>1
  <2> QED BY <2>1, <1>2 DEF Range
<1> QED BY <1>1, <1>3, <1>4, <1>5

\* A row that is inserted comes right after the rows there are.
LEMMA ConcatOne ==
    ASSUME NEW S, NEW s \in Seq(S), NEW t \in Seq(S), Len(t) = 1
    PROVE  (s \o t)[Len(s) + 1] = t[1]
<1>1. Len(s) \in Nat /\ Len(s) + 1 \in 1..(Len(s) + Len(t))
  OBVIOUS
<1>2. (s \o t)[Len(s) + 1] =
        IF Len(s) + 1 <= Len(s) THEN s[Len(s) + 1] ELSE t[Len(s) + 1 - Len(s)]
  BY <1>1, ConcatProperties
<1>3. ~(Len(s) + 1 <= Len(s)) /\ Len(s) + 1 - Len(s) = 1
  BY <1>1
<1> QED BY <1>2, <1>3

-----------------------------------------------------------------------------
(* The state stays well formed.                                            *)

\* What TypeOK needs besides itself to be preserved: the drainer has a row to
\* delete, a thread has a message to publish.
TypeInv ==
    /\ TypeOK
    /\ MessageInHand
    /\ pc["aux"] = "delete" => batch # <<>>

\* A fault uses up part of the budget and nothing else.
LEMMA FaultType ==
    ASSUME TypeOK, NEW k, Fault(k)
    PROVE  faults' \in [kinds : SUBSET Faults, left : 0..FaultBudget]
<1>1. /\ faults.kinds \subseteq Faults
      /\ faults.left \in 0..FaultBudget
  BY DEF TypeOK
<1>2. faults.left - 1 \in 0..FaultBudget
  BY <1>1, BoundsAssumption DEF Fault
<1>3. faults.kinds \cup {k} \in SUBSET Faults
  BY <1>1 DEF Fault
<1> QED BY <1>2, <1>3 DEF Fault

\* The backend inserts at most one row, whose owner is registered.
LEMMA InsertedType ==
    ASSUME TypeOK, handling \in Message
    PROVE  Inserted(handling) \in Seq([n : 1..MaxEmit, body : Employees \cup {None}])
<1> DEFINE Stored == [n : 1..MaxEmit, body : Employees \cup {None}]
<1>1. [handling EXCEPT !.body = None] \in Stored
  BY DEF Message
<1>2. handling.body \in employees => handling \in Stored
  BY DEF Message, TypeOK
<1> HIDE DEF Stored
<1>3. /\ <<[handling EXCEPT !.body = None]>> \in Seq(Stored)
      /\ handling.body \in employees => <<handling>> \in Seq(Stored)
      /\ <<>> \in Seq(Stored)
  BY <1>1, <1>2
<1>4. Inserted(handling) \in Seq(Stored)
  BY <1>3 DEF Inserted
<1> QED BY <1>4 DEF Stored

\* The initial state is well formed.
LEMMA TypeInit == Init => TypeInv
<1> SUFFICES ASSUME Init PROVE TypeInv
  OBVIOUS
<1>1. 0 \in 0..MaxEmit
  BY BoundsAssumption
<1>2. <<>> \in Seq(Message) /\ <<>> \in Seq(Row)
      /\ <<>> \in Seq([n : 1..MaxEmit, body : Employees \cup {None}])
      /\ Len(<<>>) = 0
  OBVIOUS
<1>3. ThreadStart \in [Threads -> {"loop", "wait"}]
  BY DEF ThreadStart, Threads
<1>4. /\ faults \in [kinds : SUBSET Faults, left : 0..FaultBudget]
      /\ emitted \in 0..MaxEmit /\ nextRow \in Nat
  BY <1>1, BoundsAssumption DEF Init
<1>5. /\ batch = <<>> /\ out = <<>> /\ inbox = <<>> /\ stored = <<>>
      /\ sent \in 0..Len(out)
  BY <1>2 DEF Init
<1>6. pc \in [Threads -> {"loop", "wait"}] /\ msg \in [Threads -> {None}]
  BY <1>3 DEF Init
<1> QED
  BY <1>2, <1>4, <1>5, <1>6, NoneAssumption
  DEF Init, TypeInv, TypeOK, MessageInHand, Threads, ProgramCounters

\* Every step keeps the state well formed.
LEMMA TypeStep == TypeInv /\ [Next]_vars => TypeInv'
<1> SUFFICES ASSUME TypeInv, [Next]_vars PROVE TypeInv'
  OBVIOUS
<1> USE DEF TypeInv, MessageInHand
<1>1. ASSUME UNCHANGED vars PROVE TypeInv'
  BY <1>1 DEF TypeOK, vars, logVars, threadVars, storageVars, clientVars,
              backendVars
<1>2. ASSUME ThreadStep PROVE TypeInv'
  <2>1. ASSUME NEW t \in Threads, NEW from, NEW body \in Bodies,
               Produce(t, from, body)
        PROVE  TypeInv'
    <3>1. [n |-> emitted + 1, body |-> body] \in Message /\ emitted' \in 0..MaxEmit
      BY <2>1, BoundsAssumption DEF Produce, TypeOK, Message
    <3> QED
      BY <2>1, <3>1 DEF Produce, Goto, TypeOK, storageVars, clientVars,
         backendVars, ProgramCounters, Threads
  <2>2. ASSUME NEW t \in Threads, TryPublish(t) PROVE TypeInv'
    <3> USE DEF TryPublish, Goto, TypeOK, storageVars, logVars, backendVars,
                ProgramCounters, Threads, AfterTry
    <3>1. CASE PublishTrue(msg[t]) /\ pc[t] = "publish"
      <4>1. msg[t] \in Message
        BY <3>1
      <4>2. out' \in Seq(Message) /\ Len(out') = Len(out) + 1
        BY <3>1, <4>1, RangeAppend DEF PublishTrue
      <4>3. sent' \in 0..Len(out') /\ connected' \in BOOLEAN
        BY <3>1, <4>2 DEF PublishTrue
      <4>4. UNCHANGED faults /\ pc' = [pc EXCEPT ![t] = AfterTry(t)]
            /\ msg' = [msg EXCEPT ![t] = None]
        <5>1. ~PublishFalse
          BY <3>1, <4>2 DEF PublishTrue, PublishFalse, clientVars
        <5> QED BY <2>2, <5>1 DEF PublishTrue
      <4> QED BY <2>2, <4>2, <4>3, <4>4, NoneAssumption
    <3>2. CASE PublishFalse
      <4>1. faults' \in [kinds : SUBSET Faults, left : 0..FaultBudget]
        BY <3>2, FaultType DEF PublishFalse
      <4> QED BY <2>2, <3>2, <4>1 DEF PublishTrue, PublishFalse, clientVars
    <3> QED BY <2>2, <3>1, <3>2
  <2>3. ASSUME NEW t \in Threads, TryEnqueue(t) PROVE TypeInv'
    <3>1. faults' \in [kinds : SUBSET Faults, left : 0..FaultBudget]
      BY <2>3, FaultType DEF TryEnqueue, TypeOK
    <3>2. pending' \subseteq Row /\ nextRow' \in Nat
      <4>1. msg[t] \in Message
        BY <2>3 DEF TryEnqueue, Goto
      <4>2. [id |-> nextRow, msg |-> msg[t]] \in Row
        BY <4>1 DEF Row, TypeOK
      <4> QED BY <2>3, <4>2 DEF TryEnqueue, TypeOK, storageVars
    <3> QED
      BY <2>3, <3>1, <3>2, NoneAssumption DEF TryEnqueue, Goto, AfterTry, TypeOK, clientVars,
         logVars, backendVars, ProgramCounters, Threads
  <2>4. ASSUME MainLoop \/ MainNoEvent \/ AuxWake \/ AuxCheck PROVE TypeInv'
    BY <2>4 DEF MainLoop, MainNoEvent, AuxWake, AuxCheck, Goto, TypeOK,
       storageVars, clientVars, logVars, backendVars, ProgramCounters, Threads
  <2>5. ASSUME AuxFetch PROVE TypeInv'
    <3>1. batch' \in Seq(Row)
      <4>1. CASE UNCHANGED batch
        BY <4>1 DEF TypeOK
      <4>2. ASSUME NEW k \in 0..BatchSize, batch' \in [1..k -> pending]
            PROVE  batch' \in Seq(Row)
        BY <4>2, BoundsAssumption DEF TypeOK
      <4> QED BY <2>5, <4>1, <4>2 DEF AuxFetch
    <3>2. faults' \in [kinds : SUBSET Faults, left : 0..FaultBudget]
      BY <2>5, FaultType DEF AuxFetch, TypeOK
    <3> QED
      BY <2>5, <3>1, <3>2 DEF AuxFetch, Goto, TypeOK, storageVars, clientVars,
         logVars, backendVars, ProgramCounters, Threads
  <2>6. ASSUME AuxDrain PROVE TypeInv'
    <3> USE DEF Goto, TypeOK, storageVars, logVars, backendVars,
                ProgramCounters, Threads
    <3>0. UNCHANGED <<logVars, edge, msg, storageVars, inbox, backendVars>>
      BY <2>6 DEF AuxDrain
    <3>1. CASE /\ batch = <<>>
               /\ Goto("aux", "drain", "wait")
               /\ UNCHANGED <<batch, clientVars, faults>>
      BY <3>0, <3>1 DEF clientVars
    <3>2. CASE /\ batch # <<>>
               /\ Goto("aux", "drain", "delete")
               /\ PublishTrue(Head(batch).msg)
               /\ UNCHANGED batch
      <4>1. Head(batch).msg \in Message
        <5>1. Head(batch) \in Row
          BY <3>2, RangeTail
        <5> QED BY <5>1 DEF Row
      <4>2. out' \in Seq(Message) /\ Len(out') = Len(out) + 1
        BY <3>2, <4>1, RangeAppend DEF PublishTrue
      <4>3. sent' \in 0..Len(out') /\ connected' \in BOOLEAN
        BY <3>2, <4>2 DEF PublishTrue
      <4>4. UNCHANGED faults
        BY <3>2 DEF PublishTrue
      <4> QED BY <3>0, <3>2, <4>2, <4>3, <4>4
    <3>3. CASE /\ batch # <<>>
               /\ Goto("aux", "drain", "wait")
               /\ PublishFalse
               /\ batch' = <<>>
      <4>1. faults' \in [kinds : SUBSET Faults, left : 0..FaultBudget]
        BY <3>3, FaultType DEF PublishFalse
      <4>2. UNCHANGED clientVars
        BY <3>3 DEF PublishFalse
      <4> QED BY <3>0, <3>3, <4>1, <4>2 DEF clientVars
    <3> QED BY <2>6, <3>1, <3>2, <3>3 DEF AuxDrain
  <2>7. ASSUME AuxDelete PROVE TypeInv'
    <3>1. batch' \in Seq(Row)
      <4>1. CASE batch' = Tail(batch) /\ pc["aux"] = "delete"
        BY <4>1, RangeTail DEF TypeOK
      <4>2. CASE batch' = <<>>
        BY <4>2
      <4> QED BY <2>7, <4>1, <4>2 DEF AuxDelete, Goto
    <3>2. faults' \in [kinds : SUBSET Faults, left : 0..FaultBudget]
      BY <2>7, FaultType DEF AuxDelete, TypeOK
    <3> QED
      BY <2>7, <3>1, <3>2 DEF AuxDelete, Goto, TypeOK, clientVars, logVars,
         backendVars, ProgramCounters, Threads
  <2> QED
    BY <1>2, <2>1, <2>2, <2>3, <2>4, <2>5, <2>6, <2>7
    DEF ThreadStep, MainEmit, AuxHeartbeat, Bodies, Threads
<1>3. ASSUME ProcessStep PROVE TypeInv'
  <2>1. ASSUME RequestStop PROVE TypeInv'
    <3>1. faults' \in [kinds : SUBSET Faults, left : 0..FaultBudget]
      BY <2>1, FaultType DEF RequestStop
    <3> QED
      BY <2>1, <3>1 DEF RequestStop, TypeOK, storageVars, clientVars, logVars,
         backendVars
  <2>3. ASSUME ProcessStart PROVE TypeInv'
    <3>1. ThreadStart \in [Threads -> {"loop", "wait"}]
      BY DEF ThreadStart, Threads
    <3>2. pc' \in [Threads -> {"loop", "wait"}] /\ batch' = <<>>
          /\ msg' \in [Threads -> {None}] /\ edge' = "up"
      BY <2>3, <3>1 DEF ProcessStart
    <3>3. UNCHANGED <<logVars, storageVars, clientVars, inbox, backendVars, faults>>
      BY <2>3 DEF ProcessStart
    <3> QED
      BY <3>2, <3>3, NoneAssumption DEF TypeOK, storageVars, clientVars,
         logVars, backendVars, ProgramCounters, Threads
  <2>2. ASSUME ProcessExit \/ ProcessCrash PROVE TypeInv'
    <3>1. faults' \in [kinds : SUBSET Faults, left : 0..FaultBudget]
      BY <2>2, FaultType DEF ProcessExit, ProcessCrash, TypeOK
    <3>2. ProcessEnds
      BY <2>2 DEF ProcessExit, ProcessCrash
    <3>3. out' = <<>> /\ sent' \in 0..Len(out') /\ out' \in Seq(Message)
      BY <3>2 DEF ProcessEnds
    <3>4. batch' = <<>> /\ batch' \in Seq(Row)
      BY <3>2 DEF ProcessEnds
    <3> QED
      BY <3>1, <3>2, <3>3, <3>4, NoneAssumption DEF ProcessEnds, TypeOK, storageVars, logVars,
         backendVars, ProgramCounters, Threads
  <2> QED BY <1>3, <2>1, <2>2, <2>3 DEF ProcessStep
<1>4. ASSUME NetworkStep PROVE TypeInv'
  <2> USE DEF TypeOK, threadVars, storageVars, logVars, backendVars
  <2>1. ASSUME OnConnect \/ OnDisconnect PROVE TypeInv'
    <3>1. faults' \in [kinds : SUBSET Faults, left : 0..FaultBudget]
      BY <2>1, FaultType DEF OnConnect, OnDisconnect
    <3>2. out' = out /\ connected' \in BOOLEAN
      BY <2>1 DEF OnConnect, OnDisconnect
    <3>4. sent' = sent \/ sent' = 0
      BY <2>1 DEF OnConnect, OnDisconnect
    <3>3. UNCHANGED <<logVars, threadVars, storageVars, inbox, backendVars>>
      BY <2>1 DEF OnConnect, OnDisconnect
    <3> QED BY <3>1, <3>2, <3>3, <3>4
  <2>2. ASSUME BrokerReceive PROVE TypeInv'
    <3>1. out[sent + 1] \in Message /\ sent' \in 0..Len(out)
      BY <2>2 DEF BrokerReceive
    <3>2. inbox' \in Seq(Message)
      BY <2>2, <3>1, RangeAppend DEF BrokerReceive
    <3> QED BY <2>2, <3>1, <3>2 DEF BrokerReceive
  <2>3. ASSUME PubAck PROVE TypeInv'
    <3>1. out # <<>>
      BY <2>3 DEF PubAck
    <3>2. out' \in Seq(Message) /\ Len(out') = Len(out) - 1
      BY <2>3, <3>1, RangeTail DEF PubAck
    <3>3. sent' \in 0..Len(out')
      BY <2>3, <3>2 DEF PubAck
    <3> QED BY <2>3, <3>2, <3>3 DEF PubAck
  <2> QED BY <1>4, <2>1, <2>2, <2>3 DEF NetworkStep
<1>5. ASSUME BackendStep PROVE TypeInv'
  <2> USE DEF TypeOK, threadVars, storageVars, logVars, clientVars
  <2> DEFINE Stored == [n : 1..MaxEmit, body : Employees \cup {None}]
  <2>1. ASSUME BackendReceive PROVE TypeInv'
    <3>1. Head(inbox) \in Message /\ Tail(inbox) \in Seq(Message)
      BY <2>1, RangeTail DEF BackendReceive
    <3>2. faults' \in [kinds : SUBSET Faults, left : 0..FaultBudget]
      BY <2>1, FaultType DEF BackendReceive
    <3> QED BY <2>1, <3>1, <3>2 DEF BackendReceive
  <2>2. ASSUME BackendHandle PROVE TypeInv'
    <3>1. handling \in Message
      BY <2>2 DEF BackendHandle
    <3>2. Inserted(handling) \in Seq(Stored)
      BY <3>1, InsertedType
    <3>3. stored' \in Seq(Stored)
      BY <2>2, <3>2, ConcatProperties DEF BackendHandle
    <3> QED BY <2>2, <3>3 DEF BackendHandle
  <2>3. ASSUME BackendFail PROVE TypeInv'
    <3>1. faults' \in [kinds : SUBSET Faults, left : 0..FaultBudget]
      BY <2>3, FaultType DEF BackendFail
    <3> QED BY <2>3, <3>1 DEF BackendFail
  <2>4. ASSUME DeleteEmployee PROVE TypeInv'
    <3>1. PICK e \in employees :
            stored' = [i \in DOMAIN stored |->
                         IF stored[i].body = e
                         THEN [stored[i] EXCEPT !.body = None]
                         ELSE stored[i]]
      BY <2>4 DEF DeleteEmployee
    <3>2. stored' \in Seq(Stored)
      <4>1. stored \in Seq(Stored)
        OBVIOUS
      <4>2. ASSUME NEW i \in 1..Len(stored) PROVE stored'[i] \in Stored
        <5>1. stored[i] \in Stored /\ i \in DOMAIN stored
          BY ONLY <4>1, SequenceElement, i \in 1..Len(stored)
        <5>2. [stored[i] EXCEPT !.body = None] \in Stored
          BY <5>1
        <5> QED BY <3>1, <5>1, <5>2
      <4>3. DOMAIN stored = 1..Len(stored) /\ Len(stored) \in Nat
        BY <4>1
      <4>4. stored' \in [1..Len(stored) -> Stored]
        BY <3>1, <4>2, <4>3
      <4> QED BY ONLY <4>3, <4>4, SequenceFunction
    <3>3. faults' \in [kinds : SUBSET Faults, left : 0..FaultBudget]
      BY <2>4, FaultType DEF DeleteEmployee
    <3>4. employees' \subseteq Employees
      BY <2>4 DEF DeleteEmployee
    <3> QED BY <2>4, <3>2, <3>3, <3>4 DEF DeleteEmployee
  <2> QED BY <1>5, <2>1, <2>2, <2>3, <2>4 DEF BackendStep
<1> QED BY <1>1, <1>2, <1>3, <1>4, <1>5 DEF Next

\* The variables keep their types: in particular a thread never publishes,
\* and the drainer never deletes, without a message or a row at hand.
THEOREM TypeCorrect == Spec => []TypeOK
<1>1. Init => TypeInv
  BY TypeInit
<1>2. TypeInv /\ [Next]_vars => TypeInv'
  BY TypeStep
<1>3. TypeInv => TypeOK
  BY DEF TypeInv
<1> QED BY <1>1, <1>2, <1>3, PTL DEF Spec

-----------------------------------------------------------------------------
(* No step loses a message while only the network fails.                   *)

NoLoss == ~Happened(LossFaults)

\* Faults are remembered.
LEMMA NoLossBefore ==
    ASSUME TypeInv, [Next]_vars, NoLoss'
    PROVE  /\ NoLoss
           /\ \A k \in LossFaults : ~Fault(k)
<1>1. faults' = faults \/ \E k : Fault(k)
  BY DEF Next, ThreadStep, ProcessStep, NetworkStep, BackendStep, MainLoop,
     MainNoEvent, MainEmit, Produce, AuxWake, AuxHeartbeat, AuxCheck, AuxFetch,
     AuxDrain, AuxDelete, TryPublish, TryEnqueue, PublishTrue, PublishFalse,
     RequestStop, ProcessExit, ProcessCrash, ProcessStart, OnConnect,
     OnDisconnect, BrokerReceive, PubAck, BackendReceive, BackendHandle,
     BackendFail, DeleteEmployee, vars
<1>2. faults.kinds \subseteq faults'.kinds
  BY <1>1 DEF Fault
<1>3. ASSUME NEW k \in LossFaults, Fault(k) PROVE FALSE
  <2>1. k \in faults'.kinds
    BY <1>3 DEF Fault
  <2> QED BY <2>1 DEF NoLoss, Happened
<1> QED BY <1>2, <1>3 DEF NoLoss, Happened

\* What a step without loss does to the broker's queue and to the backend.
LEMMA BackendEffect ==
    ASSUME TypeInv, [Next]_vars, NoLoss'
    PROVE  \/ UNCHANGED <<inbox, backendVars>>
           \/ BrokerReceive
           \/ BackendReceive
           \/ BackendHandle
<1>1. ~Fault("db") /\ ~Fault("backend_exit") /\ ~Fault("removal")
  BY NoLossBefore DEF LossFaults
<1>2. CASE UNCHANGED vars
  BY <1>2 DEF vars
<1>3. CASE ThreadStep
  BY <1>3 DEF ThreadStep, MainLoop, MainNoEvent, MainEmit, Produce, AuxWake,
     AuxHeartbeat, AuxCheck, AuxFetch, AuxDrain, AuxDelete, TryPublish, TryEnqueue
<1>4. CASE ProcessStep
  BY <1>4 DEF ProcessStep, RequestStop, ProcessExit, ProcessCrash, ProcessStart,
     ProcessEnds
<1>5. CASE NetworkStep
  BY <1>5 DEF NetworkStep, OnConnect, OnDisconnect, PubAck
<1>6. CASE BackendStep
  BY <1>1, <1>6 DEF BackendStep, BackendFail, DeleteEmployee
<1> QED BY <1>2, <1>3, <1>4, <1>5, <1>6 DEF Next

\* What a step without loss does to the queue of libmosquitto.
LEMMA ClientEffect ==
    ASSUME TypeInv, [Next]_vars, NoLoss', edge = "up"
    PROVE  \/ UNCHANGED <<out, sent>>
           \/ UNCHANGED out /\ sent' = 0
           \/ BrokerReceive
           \/ PubAck
           \/ \E m \in Message : out' = Append(out, m) /\ sent' = sent
<1>1. ~Fault("crash")
  BY NoLossBefore DEF LossFaults
<1>2. CASE UNCHANGED vars
  BY <1>2 DEF vars, clientVars
<1>3. CASE ThreadStep
  <2>1. ASSUME NEW t \in Threads, TryPublish(t)
        PROVE  \/ UNCHANGED <<out, sent>>
               \/ \E m \in Message : out' = Append(out, m) /\ sent' = sent
    BY <2>1 DEF TryPublish, PublishTrue, PublishFalse, Goto, TypeInv,
       MessageInHand, clientVars
  <2>2. CASE AuxDrain
    <3>1. batch # <<>> => Head(batch).msg \in Message
      <4>1. batch # <<>> => Head(batch) \in Row
        BY RangeTail DEF TypeInv, TypeOK
      <4> QED BY <4>1 DEF Row
    <3> QED BY <2>2, <3>1 DEF AuxDrain, PublishTrue, PublishFalse, clientVars
  <2> QED
    BY <1>3, <2>1, <2>2 DEF ThreadStep, MainLoop, MainNoEvent, MainEmit,
       Produce, AuxWake, AuxHeartbeat, AuxCheck, AuxFetch, AuxDelete,
       TryEnqueue, clientVars
<1>4. CASE ProcessStep
  <2>1. ~ProcessCrash
    BY <1>1 DEF ProcessCrash
  <2> QED BY <1>4, <2>1 DEF ProcessStep, ProcessExit, ProcessStart,
             RequestStop, clientVars
<1>5. CASE NetworkStep
  BY <1>5 DEF NetworkStep, OnConnect, OnDisconnect
<1>6. CASE BackendStep
  BY <1>6 DEF BackendStep, BackendReceive, BackendHandle, BackendFail,
     DeleteEmployee, clientVars
<1> QED BY <1>2, <1>3, <1>4, <1>5, <1>6 DEF Next

\* Without loss no message that has left the device for good is forgotten: the
\* backend stores what it has received.
LEMMA ArrivedKept ==
    ASSUME TypeInv, [Next]_vars, NoLoss', LastCopyKept,
           NEW m \in Message, Arrived(m)
    PROVE  Arrived(m)'
<1>1. CASE UNCHANGED <<inbox, backendVars>>
  BY <1>1 DEF Arrived, IsStored, backendVars
<1>2. CASE BrokerReceive
  <2>1. out[sent + 1] \in Message
    BY <1>2 DEF BrokerReceive, TypeInv, TypeOK
  <2>2. Range(inbox) \subseteq Range(inbox')
    BY <1>2, <2>1, RangeAppend DEF BrokerReceive, TypeInv, TypeOK
  <2> QED BY <1>2, <2>2 DEF BrokerReceive, Arrived, IsStored, backendVars
<1>3. CASE BackendReceive
  <2>1. Range(inbox) = Range(Tail(inbox)) \cup {Head(inbox)}
    BY <1>3, RangeTail DEF BackendReceive, TypeInv, TypeOK
  <2>2. Range(inbox) \subseteq Range(inbox') \cup {handling'}
    BY <1>3, <2>1 DEF BackendReceive
  <2>3. handling # m
    BY <1>3, NoneAssumption DEF BackendReceive
  <2> QED BY <1>3, <2>2, <2>3 DEF BackendReceive, Arrived, IsStored
<1>4. CASE BackendHandle
  <2> DEFINE new == Inserted(handling)
  <2>1. /\ stored' = stored \o new
        /\ UNCHANGED inbox
        /\ stored \in Seq([n : 1..MaxEmit, body : Employees \cup {None}])
        /\ new \in Seq([n : 1..MaxEmit, body : Employees \cup {None}])
        /\ handling \in Message
    <3>1. handling \in Message
      BY <1>4 DEF BackendHandle, TypeInv, TypeOK
    <3>2. new \in Seq([n : 1..MaxEmit, body : Employees \cup {None}])
      BY <3>1, InsertedType DEF TypeInv
    <3> QED BY <1>4, <3>1, <3>2 DEF BackendHandle, TypeInv, TypeOK
  <2> HIDE DEF new
  <2>2. /\ DOMAIN stored = 1..Len(stored)
        /\ DOMAIN stored' = 1..(Len(stored) + Len(new))
        /\ \A i \in 1..Len(stored) : stored'[i] = stored[i]
        /\ \A i \in 1..Len(new) : stored'[Len(stored) + i] = new[i]
        /\ Len(stored) \in Nat /\ Len(new) \in Nat
    BY <2>1
  <2>3. CASE IsStored(m)
    <3>1. PICK i \in 1..Len(stored) : stored[i].n = m.n
      BY <2>2, <2>3 DEF IsStored
    <3>2. i \in DOMAIN stored' /\ stored'[i].n = m.n
      BY <2>2, <3>1
    <3> QED BY <3>2 DEF Arrived, IsStored
  <2>4. CASE m = handling /\ m.body # Health
    <3>1. Len(new) = 1 /\ new[1].n = m.n
      <4>1. m.body = Unknown \/ m.body \in employees
        BY <2>1, <2>4 DEF Message, Bodies, LastCopyKept
      <4>2. CASE m.body = Unknown
        <5>1. new = <<[m EXCEPT !.body = None]>>
          BY <2>4, <4>2 DEF new, Inserted
        <5> QED BY <5>1 DEF Message
      <4>3. CASE m.body # Unknown /\ m.body \in employees
        <5>1. new = <<m>>
          BY <2>4, <4>3 DEF new, Inserted
        <5> QED BY <5>1
      <4> QED BY <4>1, <4>2, <4>3
    <3>2. 1 \in 1..Len(new) /\ Len(stored) + 1 \in 1..(Len(stored) + Len(new))
      BY <2>2, <3>1
    <3>3. stored'[Len(stored) + 1] = new[1]
      BY ONLY <2>1, <3>1, ConcatOne
    <3>4. Len(stored) + 1 \in DOMAIN stored' /\ stored'[Len(stored) + 1].n = m.n
      BY <2>2, <3>1, <3>2, <3>3
    <3> QED BY <3>4 DEF Arrived, IsStored
  <2>5. CASE m.body = Health \/ m \in Range(inbox)
    BY <2>1, <2>5 DEF Arrived
  <2> QED BY <2>3, <2>4, <2>5 DEF Arrived
<1> QED BY <1>1, <1>2, <1>3, <1>4, BackendEffect

\* Nor is one that libmosquitto has accepted: PUBACK removes only what the
\* broker has.
LEMMA HandedOverKept ==
    ASSUME TypeInv, [Next]_vars, NoLoss', LastCopyKept,
           NEW m \in Message, HandedOver(m)
    PROVE  HandedOver(m)'
<1>1. CASE Arrived(m)
  BY <1>1, ArrivedKept DEF HandedOver
<1>2. CASE m \in Range(out)
  <2>1. CASE UNCHANGED out
    BY <1>2, <2>1 DEF HandedOver
  <2>2. CASE PubAck
    <3>1. out \in Seq(Message) /\ out # <<>> /\ sent \in 1..Len(out)
      BY <2>2 DEF PubAck, TypeInv, TypeOK
    <3>2. Range(out) = Range(out') \cup {out[1]}
      BY <2>2, <3>1, RangeTail DEF PubAck
    <3>3. Arrived(out[1])
      BY <3>1 DEF LastCopyKept
    <3>4. m \in Range(out') \/ Arrived(m)
      BY <1>2, <3>2, <3>3
    <3> QED BY <3>4, ArrivedKept DEF HandedOver
  <2>3. CASE \E x \in Message : out' = Append(out, x)
    BY <1>2, <2>3, RangeAppend DEF HandedOver, TypeInv, TypeOK
  <2>4. edge = "up"
    BY DEF LastCopyKept
  <2> QED BY <2>1, <2>2, <2>3, <2>4, ClientEffect DEF BrokerReceive
<1> QED BY <1>1, <1>2 DEF HandedOver

\* Rows keep their ids: AUTOINCREMENT never gives one out again, and what the
\* drainer holds is still what the table holds under that id.
LEMMA RowStep ==
    ASSUME TypeInv, RowInHand, [Next]_vars
    PROVE  RowInHand'
<1> USE DEF RowInHand
<1>0. TypeInv'
  BY TypeStep
<1>1. pc'["aux"] = "delete" => batch' # <<>>
  BY <1>0 DEF TypeInv
<1>2. CASE UNCHANGED <<storageVars, batch>>
  BY <1>1, <1>2 DEF storageVars
<1>3. CASE UNCHANGED storageVars /\ batch' = <<>>
  BY <1>1, <1>3 DEF storageVars
<1>4. ASSUME NEW t \in Threads, TryEnqueue(t), ~UNCHANGED storageVars
      PROVE  RowInHand'
  <2>1. /\ pending' = pending \cup {[id |-> nextRow, msg |-> msg[t]]}
        /\ nextRow' = nextRow + 1
        /\ batch' = batch
    BY <1>4 DEF TryEnqueue
  <2>2. nextRow \in Nat /\ pending \subseteq Row /\ batch \in Seq(Row)
    BY DEF TypeInv, TypeOK
  <2>3. \A i \in DOMAIN batch : batch[i] \in Row
    BY <2>2
  <2>4. \A q \in pending' : q \in pending \/ q = [id |-> nextRow, msg |-> msg[t]]
    BY <2>1
  <2> QED BY <1>1, <2>1, <2>2, <2>3, <2>4 DEF Row
<1>5. CASE AuxFetch /\ ~UNCHANGED batch
  <2>1. UNCHANGED storageVars
    BY <1>5 DEF AuxFetch
  <2>2. PICK k \in 0..BatchSize : \E rows \in [1..k -> pending] : batch' = rows
    BY <1>5 DEF AuxFetch
  <2>3. \A i \in DOMAIN batch' : batch'[i] \in pending
    BY <2>2
  <2> QED BY <1>1, <2>1, <2>3 DEF storageVars
<1>6. CASE AuxDelete /\ batch' = Tail(batch)
  <2>1. /\ pending' \subseteq pending
        /\ batch' = Tail(batch)
        /\ nextRow' = nextRow
        /\ batch # <<>>
    BY <1>6 DEF AuxDelete, Goto
  <2>2. batch \in Seq(Row)
    BY DEF TypeInv, TypeOK
  <2>3. /\ DOMAIN batch = 1..Len(batch)
        /\ DOMAIN batch' = 1..(Len(batch) - 1)
        /\ \A i \in 1..(Len(batch) - 1) : batch'[i] = batch[i + 1]
        /\ Len(batch) \in Nat \ {0}
    BY <2>1, <2>2, RangeTail
  <2>4. \A i \in DOMAIN batch' : i + 1 \in DOMAIN batch /\ batch'[i] = batch[i + 1]
    BY <2>3
  <2> QED BY <1>1, <2>1, <2>4
<1>7. CASE UNCHANGED vars
  BY <1>2, <1>7 DEF vars, threadVars, storageVars
<1>8. CASE ThreadStep
  <2>1. CASE AuxDrain
    BY <1>2, <1>3, <2>1 DEF AuxDrain
  <2>2. CASE AuxDelete
    BY <1>3, <1>6, <2>2 DEF AuxDelete, storageVars
  <2>3. CASE AuxFetch
    BY <1>2, <1>5, <2>3 DEF AuxFetch
  <2>4. ASSUME NEW t \in Threads, TryPublish(t) \/ TryEnqueue(t)
        PROVE  RowInHand'
    BY <1>2, <1>4, <2>4 DEF TryPublish, TryEnqueue
  <2> QED
    BY <1>2, <1>8, <2>1, <2>2, <2>3, <2>4 DEF ThreadStep, MainLoop,
       MainNoEvent, MainEmit, Produce, AuxWake, AuxHeartbeat, AuxCheck
<1>9. CASE ProcessStep
  BY <1>2, <1>3, <1>9 DEF ProcessStep, RequestStop, ProcessExit, ProcessCrash,
     ProcessStart, ProcessEnds
<1>10. CASE NetworkStep
  BY <1>2, <1>10 DEF NetworkStep, OnConnect, OnDisconnect, BrokerReceive,
     PubAck, threadVars
<1>11. CASE BackendStep
  BY <1>2, <1>11 DEF BackendStep, BackendReceive, BackendHandle, BackendFail,
     DeleteEmployee, threadVars
<1> QED BY <1>7, <1>8, <1>9, <1>10, <1>11 DEF Next

\* Whatever is still held by a thread or by SQLite stays held or is handed
\* over: the row the drainer deletes is the one it published.
LEMMA HeldKept ==
    ASSUME TypeInv, RowInHand, [Next]_vars, NoLoss', LastCopyKept,
           NEW m \in Message,
           m \in {msg[t] : t \in Threads} \cup {r.msg : r \in pending}
    PROVE  \/ m \in ({msg[t] : t \in Threads} \cup {r.msg : r \in pending})'
           \/ HandedOver(m)'
<1> DEFINE Held == {msg[t] : t \in Threads} \cup {r.msg : r \in pending}
<1>0. ~Fault("enqueue") /\ ~Fault("crash") /\ edge = "up" /\ m # None
  BY NoLossBefore, NoneAssumption DEF LossFaults, LastCopyKept
<1>1. CASE UNCHANGED <<msg, pending>>
  BY <1>1
<1>2. ASSUME NEW t \in Threads, NEW from \in {"work", "wait"}, NEW body,
             Produce(t, from, body)
      PROVE  m \in Held'
  <2>1. msg[t] = None
    BY <1>2 DEF Produce, Goto, TypeInv, MessageInHand, TypeOK
  <2>2. \A u \in Threads : msg[u] = m => msg'[u] = m
    BY <1>0, <1>2, <2>1 DEF Produce, TypeInv, TypeOK
  <2>3. pending' = pending
    BY <1>2 DEF Produce, storageVars
  <2> QED BY <2>2, <2>3
<1>3. ASSUME NEW t \in Threads, TryPublish(t)
      PROVE  m \in Held' \/ HandedOver(m)'
  <2>1. CASE PublishFalse /\ UNCHANGED msg
    BY <1>3, <2>1 DEF TryPublish, storageVars
  <2>2. CASE PublishTrue(msg[t]) /\ msg' = [msg EXCEPT ![t] = None] /\ pc[t] = "publish"
    <3>1. pending' = pending
      BY <1>3 DEF TryPublish, storageVars
    <3>2. \A u \in Threads : msg[u] = m => msg'[u] = m \/ u = t
      BY <2>2 DEF TypeInv, TypeOK
    <3>3. msg[t] = m => HandedOver(m)'
      BY <2>2, RangeAppend DEF PublishTrue, HandedOver, TypeInv, TypeOK
    <3> QED BY <3>1, <3>2, <3>3
  <2> QED BY <1>3, <2>1, <2>2 DEF TryPublish, Goto
<1>4. ASSUME NEW t \in Threads, TryEnqueue(t) PROVE m \in Held'
  <2>1. /\ pending' = pending \cup {[id |-> nextRow, msg |-> msg[t]]}
        /\ msg' = [msg EXCEPT ![t] = None]
    BY <1>0, <1>4 DEF TryEnqueue
  <2>2. \A u \in Threads : msg[u] = m => msg'[u] = m \/ u = t
    BY <2>1 DEF TypeInv, TypeOK
  <2>3. /\ [id |-> nextRow, msg |-> msg[t]] \in pending'
        /\ [id |-> nextRow, msg |-> msg[t]].msg = msg[t]
    BY <2>1
  <2>4. msg[t] \in {r.msg : r \in pending'}
    BY <2>3, Zenon
  <2> QED BY <2>1, <2>2, <2>4
<1>5. CASE AuxDelete /\ ~UNCHANGED pending
  <2>1. /\ pending' = {r \in pending : r.id # Head(batch).id}
        /\ UNCHANGED <<msg, clientVars, inbox, backendVars>>
        /\ pc["aux"] = "delete"
    BY <1>5 DEF AuxDelete, Goto
  <2>2. Head(batch) = batch[1] /\ 1 \in DOMAIN batch
    BY <2>1, RangeTail DEF TypeInv, TypeOK
  <2>3. \A r \in pending : r.id = Head(batch).id => r = Head(batch)
    BY <2>2 DEF RowInHand
  <2>4. HandedOver(Head(batch).msg)
    BY <2>1 DEF LastCopyKept
  <2>5. HandedOver(m) => HandedOver(m)'
    BY HandedOverKept
  <2> QED BY <2>1, <2>3, <2>4, <2>5
<1>6. CASE UNCHANGED vars
  BY <1>1, <1>6 DEF vars, threadVars, storageVars
<1>7. CASE ThreadStep
  BY <1>1, <1>2, <1>3, <1>4, <1>5, <1>7 DEF ThreadStep, MainLoop, MainNoEvent,
     MainEmit, AuxWake, AuxHeartbeat, AuxCheck, AuxFetch, AuxDrain, AuxDelete,
     storageVars, Threads
<1>8. CASE ProcessStep
  <2>1. RequestStop
    BY <1>0, <1>8 DEF ProcessStep, ProcessExit, ProcessCrash, ProcessStart
  <2> QED BY <1>1, <2>1 DEF RequestStop, storageVars
<1>9. CASE NetworkStep
  BY <1>1, <1>9 DEF NetworkStep, OnConnect, OnDisconnect, BrokerReceive,
     PubAck, threadVars, storageVars
<1>10. CASE BackendStep
  BY <1>1, <1>10 DEF BackendStep, BackendReceive, BackendHandle, BackendFail,
     DeleteEmployee, threadVars, storageVars
<1> QED BY <1>6, <1>7, <1>8, <1>9, <1>10 DEF Next

\* The copies LastCopyKept relies on are kept by every step without loss.
LEMMA LastCopyStep ==
    ASSUME TypeInv, RowInHand, [Next]_vars, NoLoss', LastCopyKept
    PROVE  LastCopyKept'
<1>0. /\ edge = "up" /\ ~Fault("stop") /\ ~Fault("crash")
      /\ out \in Seq(Message) /\ sent \in 0..Len(out)
      /\ TypeInv'
  BY NoLossBefore, TypeStep DEF LossFaults, LastCopyKept, TypeInv, TypeOK
<1>1. edge' = "up" /\ employees' = Employees
  <2>1. edge' = edge
    BY <1>0 DEF Next, ThreadStep, ProcessStep, NetworkStep, BackendStep, MainLoop,
       MainNoEvent, MainEmit, Produce, AuxWake, AuxHeartbeat, AuxCheck, AuxFetch,
       AuxDrain, AuxDelete, TryPublish, TryEnqueue, RequestStop, ProcessExit,
       ProcessCrash, ProcessStart, OnConnect, OnDisconnect, BrokerReceive,
       PubAck, BackendReceive, BackendHandle, BackendFail, DeleteEmployee, vars,
       threadVars
  <2>2. employees' = employees
    BY BackendEffect DEF backendVars, BrokerReceive, BackendReceive, BackendHandle
  <2> QED BY <1>0, <2>1, <2>2 DEF LastCopyKept
<1>2. ASSUME NEW i \in 1..sent' PROVE Arrived(out[i])'
  <2>0. \A j \in 1..sent : out[j] \in Message /\ Arrived(out[j])
    BY <1>0 DEF LastCopyKept
  <2>1. CASE UNCHANGED <<out, sent>>
    <3>1. i \in 1..sent /\ out'[i] = out[i] /\ out[i] \in Message /\ Arrived(out[i])
      BY <2>0, <2>1
    <3>2. \A m \in Message : Arrived(m) => Arrived(m)'
      BY ArrivedKept
    <3> QED BY <3>1, <3>2 DEF Arrived, IsStored
  <2>2. CASE UNCHANGED out /\ sent' = 0
    BY <2>2
  <2>3. CASE BrokerReceive
    <3>1. out' = out /\ sent' = sent + 1 /\ sent + 1 \in 1..Len(out)
          /\ inbox' = Append(inbox, out[sent + 1])
      BY <1>0, <2>3 DEF BrokerReceive
    <3>2. CASE i = sent + 1
      <4>1. out[sent + 1] \in Message /\ inbox \in Seq(Message)
        BY <1>0, <3>1 DEF TypeInv, TypeOK
      <4>2. out[sent + 1] \in Range(inbox')
        BY <3>1, <4>1, RangeAppend
      <4> QED BY <3>1, <3>2, <4>2 DEF Arrived
    <3>3. CASE i \in 1..sent
      <4>1. out'[i] = out[i] /\ out[i] \in Message /\ Arrived(out[i])
        BY <2>0, <3>1, <3>3
      <4>2. \A m \in Message : Arrived(m) => Arrived(m)'
        BY ArrivedKept
      <4> QED BY <4>1, <4>2 DEF Arrived, IsStored
    <3> QED BY <1>0, <3>1, <3>2, <3>3
  <2>4. CASE PubAck
    <3>1. out' = Tail(out) /\ sent' = sent - 1 /\ sent > 0 /\ out # <<>>
      BY <1>0, <2>4 DEF PubAck
    <3>2. i + 1 \in 1..sent /\ i \in 1..(Len(out) - 1)
      BY <1>0, <3>1
    <3>3. out'[i] = out[i + 1]
      BY <1>0, <3>1, <3>2, RangeTail
    <3>4. \A m \in Message : Arrived(m) => Arrived(m)'
      BY ArrivedKept
    <3>5. out[i + 1] \in Message /\ Arrived(out[i + 1])
      BY <2>0, <3>2
    <3> QED BY <3>3, <3>4, <3>5 DEF Arrived, IsStored
  <2>5. CASE \E m \in Message : out' = Append(out, m) /\ sent' = sent
    <3>1. i \in 1..sent /\ out'[i] = out[i]
      BY <1>0, <2>5, RangeAppend
    <3>2. \A m \in Message : Arrived(m) => Arrived(m)'
      BY ArrivedKept
    <3>3. out[i] \in Message /\ Arrived(out[i])
      BY <2>0, <3>1
    <3> QED BY <3>1, <3>2, <3>3 DEF Arrived, IsStored
  <2> QED BY <1>0, <2>1, <2>2, <2>3, <2>4, <2>5, ClientEffect
<1>3. ASSUME pc'["aux"] = "delete" PROVE HandedOver(Head(batch).msg)'
  <2>1. CASE pc["aux"] = "delete" /\ batch' = batch
    <3>1. HandedOver(Head(batch).msg)
      BY <2>1 DEF LastCopyKept
    <3>2. Head(batch).msg \in Message
      <4>1. Head(batch) \in Row
        BY <2>1, RangeTail DEF TypeInv, TypeOK
      <4> QED BY <4>1 DEF Row
    <3> QED BY <2>1, <3>1, <3>2, HandedOverKept
  <2>2. CASE AuxDrain
    <3>1. /\ batch' = batch
          /\ batch # <<>>
          /\ out' = Append(out, Head(batch).msg)
      BY <1>3, <2>2 DEF AuxDrain, Goto, PublishTrue, TypeInv, TypeOK, Threads
    <3>2. Head(batch).msg \in Message
      <4>1. Head(batch) \in Row
        BY <3>1, RangeTail DEF TypeInv, TypeOK
      <4> QED BY <4>1 DEF Row
    <3>3. Head(batch').msg \in Range(out')
      BY <1>0, <3>1, <3>2, RangeAppend
    <3> QED BY <3>3 DEF HandedOver
  <2>3. CASE ThreadStep /\ ~AuxDrain
    <3>1. pc["aux"] = "delete" /\ batch' = batch
      BY <1>3, <2>3 DEF ThreadStep, MainLoop, MainNoEvent, MainEmit, Produce,
         AuxWake, AuxHeartbeat, AuxCheck, AuxFetch, AuxDelete, TryPublish,
         TryEnqueue, Goto, AfterTry, TypeInv, TypeOK, Threads
    <3> QED BY <2>1, <3>1
  <2>4. CASE UNCHANGED threadVars
    BY <1>3, <2>1, <2>4 DEF threadVars
  <2>5. CASE ProcessStep
    BY <1>0, <2>1, <2>5, <1>3 DEF ProcessStep, RequestStop, ProcessExit,
       ProcessCrash, ProcessStart
  <2>6. CASE NetworkStep \/ BackendStep \/ UNCHANGED vars
    BY <2>4, <2>6 DEF NetworkStep, OnConnect, OnDisconnect, BrokerReceive,
       PubAck, BackendStep, BackendReceive, BackendHandle, BackendFail,
       DeleteEmployee, vars
  <2> QED BY <2>2, <2>3, <2>5, <2>6 DEF Next
<1> QED BY <1>1, <1>2, <1>3 DEF LastCopyKept

\* The inductive step: where a message is before a step without loss, a copy
\* of it is after the step.
LEMMA DeliveryStep == DeliveryInv /\ [Next]_vars => DeliveryInv'
<1> SUFFICES ASSUME DeliveryInv, [Next]_vars PROVE DeliveryInv'
  OBVIOUS
<1>1. TypeInv /\ TypeInv'
  BY TypeStep DEF TypeInv, DeliveryInv, RowInHand
<1>2. RowInHand'
  BY <1>1, RowStep DEF DeliveryInv
<1>3. ASSUME NoLoss' PROVE LastCopyKept'
  BY <1>1, <1>3, NoLossBefore, LastCopyStep DEF DeliveryInv, NoLoss
<1>4. NoLossOnNetworkFailure'
  <2> SUFFICES ASSUME NoLoss', NEW m \in log', m.body # Health
               PROVE  m \in InTransit' \/ IsStored(m)'
    BY DEF NoLossOnNetworkFailure, NoLoss
  <2>1. NoLoss /\ LastCopyKept
    BY <1>1, NoLossBefore DEF DeliveryInv, NoLoss
  <2>2. \A x : HandedOver(x)' => x.body = Health \/ x \in InTransit' \/ IsStored(x)'
    BY DEF HandedOver, Arrived, InTransit
  <2>3. CASE m \in log
    <3>1. m \in Message
      BY <2>3, <1>1 DEF TypeInv, TypeOK
    <3>2. m \in InTransit \/ IsStored(m)
      BY <2>1, <2>3 DEF DeliveryInv, NoLossOnNetworkFailure, NoLoss
    <3>3. CASE HandedOver(m)
      BY <1>1, <2>1, <2>2, <3>1, <3>3, HandedOverKept
    <3>4. CASE m \in {msg[t] : t \in Threads} \cup {r.msg : r \in pending}
      <4>1. \/ m \in ({msg[t] : t \in Threads} \cup {r.msg : r \in pending})'
            \/ HandedOver(m)'
        BY <1>1, <2>1, <3>1, <3>4, HeldKept DEF DeliveryInv
      <4> QED BY <4>1, <2>2 DEF InTransit
    <3> QED BY <3>2, <3>3, <3>4 DEF InTransit, HandedOver, Arrived
  <2>4. CASE m \notin log
    <3>1. PICK t \in Threads, from \in {"work", "wait"}, body \in Bodies :
            Produce(t, from, body)
      BY <2>4 DEF Next, ThreadStep, ProcessStep, NetworkStep, BackendStep,
         MainLoop, MainNoEvent, MainEmit, AuxWake, AuxHeartbeat, AuxCheck,
         AuxFetch, AuxDrain, AuxDelete, TryPublish, TryEnqueue, RequestStop,
         ProcessExit, ProcessCrash, ProcessStart, ProcessEnds, OnConnect,
         OnDisconnect, BrokerReceive, PubAck, BackendReceive, BackendHandle,
         BackendFail, DeleteEmployee, vars, logVars, Bodies, Threads
    <3>2. m = msg'[t]
      BY <2>4, <3>1, <1>1 DEF Produce, TypeInv, TypeOK
    <3> QED BY <3>2 DEF InTransit
  <2> QED BY <2>3, <2>4
<1> QED BY <1>1, <1>2, <1>3, <1>4 DEF DeliveryInv, TypeInv, NoLoss

\* Whatever the network does, as long as the processes live and the databases
\* accept their writes, no access event is lost: try_publish_or_enqueue, the
\* drainer, libmosquitto's resending and the persistent session of the backend
\* together always leave a copy.
THEOREM NoLoss_OnNetworkFailure == Spec => []NoLossOnNetworkFailure
<1>1. Init => DeliveryInv
  <2> SUFFICES ASSUME Init PROVE DeliveryInv
    OBVIOUS
  <2>1. TypeInv
    BY TypeInit
  <2>2. RowInHand
    BY <2>1 DEF Init, RowInHand, TypeInv
  <2>3. LastCopyKept
    BY DEF Init, LastCopyKept, ThreadStart, Threads
  <2>4. NoLossOnNetworkFailure
    BY DEF Init, NoLossOnNetworkFailure
  <2> QED BY <2>1, <2>2, <2>3, <2>4 DEF DeliveryInv, TypeInv
<1>2. DeliveryInv /\ [Next]_vars => DeliveryInv'
  BY DeliveryStep
<1>3. DeliveryInv => NoLossOnNetworkFailure
  BY DEF DeliveryInv
<1> QED BY <1>1, <1>2, <1>3, PTL DEF Spec

-----------------------------------------------------------------------------
(* The drainer takes the oldest row.                                       *)

\* The batch is what fetch_pending_events returned minus the rows deleted
\* since: still in the table, oldest first, and older than all other rows,
\* whichever rows the other thread has inserted in the meantime.
BatchIsOldest ==
    /\ \A i, j \in DOMAIN batch : i < j => batch[i].id < batch[j].id
    /\ Range(batch) \subseteq pending
    /\ \A i \in DOMAIN batch : \A q \in pending \ Range(batch) :
           batch[i].id < q.id

BatchInv == TypeInv /\ RowInHand /\ BatchIsOldest

LEMMA BatchInit == Init => BatchInv
<1> SUFFICES ASSUME Init PROVE BatchInv
  OBVIOUS
<1>1. TypeInv
  BY TypeInit
<1>2. batch = <<>> /\ pending = {} /\ Range(batch) = {}
  BY DEF Init, Range
<1>3. DOMAIN batch = {}
  BY <1>2
<1> QED BY <1>1, <1>2, <1>3 DEF BatchInv, RowInHand, BatchIsOldest, TypeInv

LEMMA BatchNext == BatchInv /\ [Next]_vars => BatchInv'
<1> SUFFICES ASSUME BatchInv, [Next]_vars PROVE BatchIsOldest'
  BY TypeStep, RowStep DEF BatchInv
<1> USE DEF BatchInv
<1>t. /\ batch \in Seq(Row) /\ pending \subseteq Row /\ nextRow \in Nat
  BY DEF TypeInv, TypeOK
<1>1. CASE UNCHANGED <<batch, pending>>
  BY <1>1 DEF BatchIsOldest
<1>2. CASE batch' = <<>>
  <2>1. DOMAIN batch' = {} /\ Range(batch') = {}
    BY <1>2 DEF Range
  <2> QED BY <2>1 DEF BatchIsOldest
\* The new row gets the largest id so far.
<1>3. ASSUME NEW t \in Threads, TryEnqueue(t), ~UNCHANGED storageVars
      PROVE  BatchIsOldest'
  <2> DEFINE row == [id |-> nextRow, msg |-> msg[t]]
  <2>1. pending' = pending \cup {row} /\ batch' = batch
    BY <1>3 DEF TryEnqueue
  <2>2. \A i \in DOMAIN batch : batch[i].id < row.id
    BY DEF RowInHand
  <2> HIDE DEF row
  <2> QED BY <2>1, <2>2 DEF BatchIsOldest
\* fetch_pending_events selects the oldest rows, ordered by id.
<1>4. CASE AuxFetch /\ ~UNCHANGED batch
  <2>1. PICK k \in 0..BatchSize : \E rows \in [1..k -> pending] :
                                     IsFetch(rows) /\ batch' = rows
    BY <1>4 DEF AuxFetch
  <2>2. batch' \in [1..k -> pending] /\ IsFetch(batch') /\ pending' = pending
    BY <1>4, <2>1 DEF AuxFetch, storageVars
  <2>3. Range(batch') \subseteq pending
    BY <2>2 DEF Range
  <2> QED BY <2>2, <2>3 DEF IsFetch, BatchIsOldest
\* delete_pending_event removes the head of the batch from both.
<1>5. CASE /\ Goto("aux", "delete", "drain")
           /\ pending' = {r \in pending : r.id # Head(batch).id}
           /\ batch' = Tail(batch)
  <2>1. /\ pending' = {r \in pending : r.id # Head(batch).id}
        /\ batch # <<>>
    BY <1>5 DEF AuxDelete, Goto, TypeInv
  <2>2. /\ DOMAIN batch = 1..Len(batch)
        /\ DOMAIN batch' = 1..(Len(batch) - 1)
        /\ \A i \in 1..(Len(batch) - 1) : batch'[i] = batch[i + 1]
        /\ Len(batch) \in Nat \ {0}
        /\ Head(batch) = batch[1]
        /\ Range(batch) = Range(batch') \cup {Head(batch)}
    BY <1>5, <2>1, <1>t, RangeTail
  <2>3. \A i \in DOMAIN batch' : i + 1 \in DOMAIN batch /\ batch'[i] = batch[i + 1]
    BY <2>2
  <2>4. \A i, j \in DOMAIN batch' : i < j => batch'[i].id < batch'[j].id
    BY <2>2, <2>3 DEF BatchIsOldest
  <2>5. \A i \in DOMAIN batch' : batch'[i].id # Head(batch).id
    <3> SUFFICES ASSUME NEW i \in DOMAIN batch'
                 PROVE  batch'[i].id # Head(batch).id
      OBVIOUS
    <3>1. 1 < i + 1 /\ 1 \in DOMAIN batch /\ i + 1 \in DOMAIN batch
      BY <2>2
    <3>2. batch[1].id < batch[i + 1].id
      BY <3>1 DEF BatchIsOldest
    <3>3. batch[1].id \in Nat /\ batch[i + 1].id \in Nat
      <4>1. batch[1] \in Row /\ batch[i + 1] \in Row
        BY <3>1, <2>2, <1>t, SequenceElement
      <4> QED BY <4>1 DEF Row
    <3>4. batch[i + 1].id # batch[1].id
      BY <3>2, <3>3
    <3>5. batch'[i] = batch[i + 1] /\ Head(batch) = batch[1]
      BY <2>2, <2>3
    <3> QED BY <3>4, <3>5
  <2>6. Range(batch') \subseteq pending'
    BY <2>1, <2>2, <2>5 DEF BatchIsOldest, Range
  <2>7. pending' \ Range(batch') \subseteq pending \ Range(batch)
    BY <2>1, <2>2
  <2>8. \A i \in DOMAIN batch' : \A q \in pending' \ Range(batch') :
            batch'[i].id < q.id
    BY <2>3, <2>7 DEF BatchIsOldest
  <2> QED BY <2>4, <2>6, <2>8 DEF BatchIsOldest
<1>6. CASE ThreadStep
  <2>1. CASE AuxDrain
    BY <1>1, <1>2, <2>1 DEF AuxDrain, storageVars
  <2>2. CASE AuxDelete
    BY <1>2, <1>5, <2>2 DEF AuxDelete
  <2>3. CASE AuxFetch
    BY <1>1, <1>4, <2>3 DEF AuxFetch, storageVars
  <2>4. ASSUME NEW t \in Threads, TryPublish(t) \/ TryEnqueue(t)
        PROVE  BatchIsOldest'
    BY <1>1, <1>3, <2>4 DEF TryPublish, TryEnqueue, storageVars
  <2> QED
    BY <1>1, <1>6, <2>1, <2>2, <2>3, <2>4 DEF ThreadStep, MainLoop,
       MainNoEvent, MainEmit, Produce, AuxWake, AuxHeartbeat, AuxCheck,
       storageVars
<1>8. CASE ProcessStep
  BY <1>1, <1>2, <1>8 DEF ProcessStep, RequestStop, ProcessExit, ProcessCrash,
     ProcessStart, ProcessEnds, storageVars
<1>9. CASE NetworkStep
  BY <1>1, <1>9 DEF NetworkStep, OnConnect, OnDisconnect, BrokerReceive,
     PubAck, threadVars, storageVars
<1>10. CASE BackendStep
  BY <1>1, <1>10 DEF BackendStep, BackendReceive, BackendHandle, BackendFail,
     DeleteEmployee, threadVars, storageVars
<1>11. CASE UNCHANGED vars
  BY <1>1, <1>11 DEF vars, threadVars, storageVars
<1> QED BY <1>6, <1>8, <1>9, <1>10, <1>11 DEF Next

LEMMA BatchInvariant == Spec => []BatchInv
BY BatchInit, BatchNext, PTL DEF Spec

\* However the two threads interleave and whichever calls throw, a row leaves
\* pending_events only when it is the oldest one there.
THEOREM RowsLeaveInOrder == Spec => DrainInOrder
<1>1. BatchInv /\ [Next]_vars
        => [\A r \in pending \ pending' : \A q \in pending : r.id <= q.id]_pending
  <2> SUFFICES ASSUME BatchInv, Next, NEW r \in pending \ pending',
                      NEW q \in pending
               PROVE  r.id <= q.id
    BY DEF vars, storageVars
  <2>1. AuxDelete
    BY DEF Next, ThreadStep, ProcessStep, NetworkStep, BackendStep, MainLoop,
       MainNoEvent, MainEmit, Produce, AuxWake, AuxHeartbeat, AuxCheck,
       AuxFetch, AuxDrain, TryPublish, TryEnqueue, RequestStop, ProcessExit,
       ProcessCrash, ProcessStart, ProcessEnds, OnConnect, OnDisconnect,
       BrokerReceive, PubAck, BackendReceive, BackendHandle, BackendFail,
       DeleteEmployee, storageVars
  <2>2. r.id = Head(batch).id /\ batch # <<>>
    BY <2>1 DEF AuxDelete, Goto, BatchInv, TypeInv
  <2>3. /\ batch \in Seq(Row)
        /\ pending \subseteq Row
        /\ Head(batch) = batch[1]
        /\ 1 \in DOMAIN batch
    BY <2>2, RangeTail DEF BatchInv, TypeInv, TypeOK
  <2>4. CASE q \in Range(batch)
    <3>1. PICK i \in DOMAIN batch : q = batch[i]
      BY <2>4 DEF Range
    <3>2. i = 1 \/ 1 < i
      BY <2>3
    <3> QED BY <2>2, <2>3, <3>1, <3>2 DEF BatchInv, BatchIsOldest, Row
  <2>5. CASE q \notin Range(batch)
    BY <2>2, <2>3, <2>5 DEF BatchInv, BatchIsOldest, Row
  <2> QED BY <2>4, <2>5
<1> QED BY <1>1, BatchInvariant, PTL DEF Spec, DrainInOrder

-----------------------------------------------------------------------------
(* One copy of each message.                                               *)

DuplicatingFaults == {"link", "drain", "crash", "ack"}

NoDuplicates == ~Happened(DuplicatingFaults)

\* The six places a message passes on its way, as the numbers of the messages
\* there: a thread, a row that is still to be published, the messages
\* libmosquitto has not sent on this connection, the session of the backend,
\* handle_publish, access_events.  What libmosquitto keeps until the PUBACK, and
\* the row the drainer has just published, are copies of a message further on.
ToDeliver == IF pc["aux"] = "delete" THEN pending \ {Head(batch)} ELSE pending
Holders == {t \in Threads : msg[t] \in Message}
Unsent == (sent + 1)..Len(out)

InHand == {msg[t].n : t \in Holders}
InRows == {r.msg.n : r \in ToDeliver}
InOut == {out[i].n : i \in Unsent}
InInbox == {inbox[i].n : i \in DOMAIN inbox}
InHandling == IF handling \in Message THEN {handling.n} ELSE {}
InStored == {stored[i].n : i \in DOMAIN stored}

\* No place holds a message twice.
EachPlaceOnce ==
    /\ \A t, u \in Holders : msg[t].n = msg[u].n => t = u
    /\ \A r, q \in ToDeliver : r.msg.n = q.msg.n => r = q
    /\ \A i, j \in Unsent : out[i].n = out[j].n => i = j
    /\ \A i, j \in DOMAIN inbox : inbox[i].n = inbox[j].n => i = j
    /\ \A i, j \in DOMAIN stored : stored[i].n = stored[j].n => i = j

\* No two places hold the same message.
Apart(hand, rows, unsent, session, handled, rest) ==
    /\ hand \cap (rows \cup unsent \cup session \cup handled \cup rest) = {}
    /\ rows \cap (unsent \cup session \cup handled \cup rest) = {}
    /\ unsent \cap (session \cup handled \cup rest) = {}
    /\ session \cap (handled \cup rest) = {}
    /\ handled \cap rest = {}

PlacesApart == Apart(InHand, InRows, InOut, InInbox, InHandling, InStored)

\* A message that is produced is new in all of them.
NumbersUsed ==
    InHand \cup InRows \cup InOut \cup InInbox \cup InHandling \cup InStored
        \subseteq 1..emitted

OneCopy == EachPlaceOnce /\ PlacesApart /\ NumbersUsed

OneCopyInv == BatchInv /\ (NoDuplicates => OneCopy)

\* What is true of Happened(DuplicatingFaults) for the step: it was false
\* before it too, and none of those faults is this step.
LEMMA NoDuplicatesBefore ==
    ASSUME [Next]_vars, NoDuplicates'
    PROVE  /\ NoDuplicates
           /\ \A k \in DuplicatingFaults : ~Fault(k)
<1>1. faults' = faults \/ \E k : Fault(k)
  BY DEF Next, ThreadStep, ProcessStep, NetworkStep, BackendStep, MainLoop,
     MainNoEvent, MainEmit, Produce, AuxWake, AuxHeartbeat, AuxCheck, AuxFetch,
     AuxDrain, AuxDelete, TryPublish, TryEnqueue, PublishTrue, PublishFalse,
     RequestStop, ProcessExit, ProcessCrash, ProcessStart, OnConnect,
     OnDisconnect, BrokerReceive, PubAck, BackendReceive, BackendHandle,
     BackendFail, DeleteEmployee, vars
<1>2. faults.kinds \subseteq faults'.kinds
  BY <1>1 DEF Fault
<1>3. ASSUME NEW k \in DuplicatingFaults, Fault(k) PROVE FALSE
  <2>1. k \in faults'.kinds
    BY <1>3 DEF Fault
  <2> QED BY <2>1 DEF NoDuplicates, Happened
<1> QED BY <1>2, <1>3 DEF NoDuplicates, Happened

\* A message that moves on to a later place, or is dropped, keeps the places
\* apart: one case per place it can leave, and the one where none moves.
LEMMA MoveKeepsApart ==
    ASSUME PlacesApart, NumbersUsed, emitted' = emitted,
           \/ /\ InHand' \subseteq InHand /\ InRows' \subseteq InRows
              /\ InOut' \subseteq InOut /\ InInbox' \subseteq InInbox
              /\ InHandling' \subseteq InHandling /\ InStored' \subseteq InStored
           \/ \E x \in InHand :
                 /\ InHand' \subseteq InHand \ {x}
                 /\ \/ InRows' \subseteq InRows \cup {x} /\ InOut' \subseteq InOut
                    \/ InRows' \subseteq InRows /\ InOut' \subseteq InOut \cup {x}
                 /\ InInbox' \subseteq InInbox
                 /\ InHandling' \subseteq InHandling
                 /\ InStored' \subseteq InStored
           \/ \E x \in InRows :
                 /\ InHand' \subseteq InHand /\ InRows' \subseteq InRows \ {x}
                 /\ InOut' \subseteq InOut \cup {x} /\ InInbox' \subseteq InInbox
                 /\ InHandling' \subseteq InHandling
                 /\ InStored' \subseteq InStored
           \/ \E x \in InOut :
                 /\ InHand' \subseteq InHand /\ InRows' \subseteq InRows
                 /\ InOut' \subseteq InOut \ {x}
                 /\ InInbox' \subseteq InInbox \cup {x}
                 /\ InHandling' \subseteq InHandling
                 /\ InStored' \subseteq InStored
           \/ \E x \in InInbox :
                 /\ InHand' \subseteq InHand /\ InRows' \subseteq InRows
                 /\ InOut' \subseteq InOut /\ InInbox' \subseteq InInbox \ {x}
                 /\ InHandling' \subseteq InHandling \cup {x}
                 /\ InStored' \subseteq InStored
           \/ \E x \in InHandling :
                 /\ InHand' \subseteq InHand /\ InRows' \subseteq InRows
                 /\ InOut' \subseteq InOut /\ InInbox' \subseteq InInbox
                 /\ InHandling' \subseteq InHandling \ {x}
                 /\ InStored' \subseteq InStored \cup {x}
    PROVE  PlacesApart' /\ NumbersUsed'
BY DEF PlacesApart, Apart, NumbersUsed

\* A step that touches none of the places.
LEMMA PlacesUntouched ==
    ASSUME OneCopy,
           UNCHANGED <<emitted, msg, ToDeliver, out, sent, inbox, handling,
                       stored>>
    PROVE  OneCopy'
<1>1. Holders' = Holders /\ Unsent' = Unsent
  BY DEF Holders, Unsent
<1>2. /\ InHand' = InHand /\ InRows' = InRows /\ InOut' = InOut
      /\ InInbox' = InInbox /\ InHandling' = InHandling /\ InStored' = InStored
  BY <1>1 DEF InHand, InRows, InOut, InInbox, InHandling, InStored
<1>3. PlacesApart' /\ NumbersUsed'
  BY <1>2, MoveKeepsApart DEF OneCopy
<1>4. EachPlaceOnce'
  BY <1>1 DEF OneCopy, EachPlaceOnce
<1> QED BY <1>3, <1>4 DEF OneCopy

\* Publishing puts one message in libmosquitto's queue, behind the others.
LEMMA PublishOut ==
    ASSUME TypeOK, NEW m \in Message, PublishTrue(m), OneCopy, m.n \notin InOut
    PROVE  /\ InOut' \subseteq InOut \cup {m.n}
           /\ (\A i, j \in Unsent : out[i].n = out[j].n => i = j)'
<1>1. /\ out \in Seq(Message) /\ sent \in 0..Len(out) /\ Len(out) \in Nat
      /\ out' = Append(out, m) /\ sent' = sent
  BY DEF TypeOK, PublishTrue
<1>2. /\ Unsent' = Unsent \cup {Len(out) + 1}
      /\ Len(out) + 1 \notin Unsent
      /\ \A i \in Unsent : out'[i] = out[i]
      /\ out'[Len(out) + 1] = m
  <2>1. Len(out') = Len(out) + 1 /\ \A i \in 1..Len(out) : out'[i] = out[i]
    BY <1>1, RangeAppend
  <2>2. out'[Len(out) + 1] = m
    BY <1>1
  <2> QED BY <1>1, <2>1, <2>2 DEF Unsent
<1>3. InOut' \subseteq InOut \cup {m.n}
  BY <1>2 DEF InOut
<1>4. \A i \in Unsent : out[i].n # m.n
  BY DEF InOut
<1>5. \A i, j \in Unsent : out[i].n = out[j].n => i = j
  BY DEF OneCopy, EachPlaceOnce
<1>6. \A i, j \in Unsent' : out'[i].n = out'[j].n => i = j
  BY <1>2, <1>4, <1>5
<1> QED BY <1>3, <1>6

\* A thread that has handed its message over holds none.
LEMMA HandEmptied ==
    ASSUME TypeOK, OneCopy, NEW t \in Threads, msg[t] \in Message,
           msg' = [msg EXCEPT ![t] = None]
    PROVE  /\ msg[t].n \in InHand
           /\ InHand' \subseteq InHand \ {msg[t].n}
           /\ (\A v, u \in Holders : msg[v].n = msg[u].n => v = u)'
<1>1. \A u \in Threads : msg'[u] = IF u = t THEN None ELSE msg[u]
  BY DEF TypeOK
<1>2. Holders' \subseteq Holders \ {t} /\ t \in Holders
  BY <1>1, NoneAssumption DEF Holders
<1>3. \A u \in Holders' : msg'[u] = msg[u]
  BY <1>1, <1>2 DEF Holders
<1>4. \A v, u \in Holders : msg[v].n = msg[u].n => v = u
  BY DEF OneCopy, EachPlaceOnce
<1>5. \A v, u \in Holders' : msg'[v].n = msg'[u].n => v = u
  BY <1>2, <1>3, <1>4
<1> QED BY <1>2, <1>3, <1>4, <1>5 DEF InHand

LEMMA PublishStep ==
    ASSUME BatchInv, OneCopy, NEW t \in Threads, TryPublish(t)
    PROVE  OneCopy'
<1>t. TypeOK /\ pc[t] = "publish" /\ msg[t] \in Message
  BY DEF BatchInv, TypeInv, MessageInHand, TryPublish, Goto
<1>0. /\ UNCHANGED <<emitted, pending, batch, inbox, handling, stored>>
      /\ pc'["aux"] = "delete" <=> pc["aux"] = "delete"
  BY <1>t DEF TryPublish, Goto, AfterTry, TypeOK, Threads, logVars, storageVars,
     backendVars
<1>1. ToDeliver' = ToDeliver
  BY <1>0 DEF ToDeliver
<1>2. CASE PublishFalse /\ UNCHANGED msg
  BY <1>0, <1>1, <1>2, PlacesUntouched DEF PublishFalse, clientVars
<1>3. CASE PublishTrue(msg[t]) /\ msg' = [msg EXCEPT ![t] = None]
  <2>1. /\ msg[t].n \in InHand
        /\ InHand' \subseteq InHand \ {msg[t].n}
        /\ (\A v, u \in Holders : msg[v].n = msg[u].n => v = u)'
    BY <1>t, <1>3, HandEmptied
  <2>2. msg[t].n \notin InOut
    BY <2>1 DEF OneCopy, PlacesApart, Apart
  <2>3. /\ InOut' \subseteq InOut \cup {msg[t].n}
        /\ (\A i, j \in Unsent : out[i].n = out[j].n => i = j)'
    BY <1>t, <1>3, <2>2, PublishOut
  <2>4. /\ InRows' = InRows /\ InInbox' = InInbox
        /\ InHandling' = InHandling /\ InStored' = InStored
    BY <1>0, <1>1 DEF InRows, InInbox, InHandling, InStored
  <2>5. PlacesApart' /\ NumbersUsed'
    BY <1>0, <2>1, <2>3, <2>4, MoveKeepsApart DEF OneCopy
  <2>6. EachPlaceOnce'
    BY <1>0, <1>1, <2>1, <2>3 DEF OneCopy, EachPlaceOnce
  <2> QED BY <2>5, <2>6 DEF OneCopy
<1> QED BY <1>2, <1>3 DEF TryPublish

LEMMA EnqueueStep ==
    ASSUME BatchInv, OneCopy, NEW t \in Threads, TryEnqueue(t)
    PROVE  OneCopy'
<1>t. TypeOK /\ pc[t] = "enqueue" /\ msg[t] \in Message
  BY DEF BatchInv, TypeInv, MessageInHand, TryEnqueue, Goto
<1>0. /\ UNCHANGED <<emitted, batch, out, sent, inbox, handling, stored>>
      /\ msg' = [msg EXCEPT ![t] = None]
      /\ pc'["aux"] = "delete" <=> pc["aux"] = "delete"
  BY <1>t DEF TryEnqueue, Goto, AfterTry, TypeOK, Threads, logVars, clientVars,
     backendVars
<1>1. /\ msg[t].n \in InHand
      /\ InHand' \subseteq InHand \ {msg[t].n}
      /\ (\A v, u \in Holders : msg[v].n = msg[u].n => v = u)'
  BY <1>t, <1>0, HandEmptied
<1>2. Unsent' = Unsent
  BY <1>0 DEF Unsent
<1>3. /\ InOut' = InOut /\ InInbox' = InInbox
      /\ InHandling' = InHandling /\ InStored' = InStored
  BY <1>0, <1>2 DEF InOut, InInbox, InHandling, InStored
<1>4. CASE UNCHANGED storageVars
  <2>1. ToDeliver' = ToDeliver
    BY <1>0, <1>4 DEF ToDeliver, storageVars
  <2>2. InRows' = InRows
    BY <2>1 DEF InRows
  <2>3. PlacesApart' /\ NumbersUsed'
    BY <1>0, <1>1, <1>3, <2>2, MoveKeepsApart DEF OneCopy
  <2>4. EachPlaceOnce'
    BY <1>0, <1>1, <1>2, <2>1 DEF OneCopy, EachPlaceOnce
  <2> QED BY <2>3, <2>4 DEF OneCopy
<1>5. CASE pending' = pending \cup {[id |-> nextRow, msg |-> msg[t]]}
  <2> DEFINE row == [id |-> nextRow, msg |-> msg[t]]
  <2>1. row.msg = msg[t]
    OBVIOUS
  <2>r. pending' = pending \cup {row}
    BY <1>5
  <2> HIDE DEF row
  <2>2. ToDeliver' \subseteq ToDeliver \cup {row}
    BY <1>0, <2>r DEF ToDeliver
  <2>3. InRows' \subseteq InRows \cup {msg[t].n}
    BY <2>1, <2>2 DEF InRows
  <2>4. msg[t].n \notin InRows
    BY <1>1 DEF OneCopy, PlacesApart, Apart
  <2>5. \A r \in ToDeliver : r.msg.n # row.msg.n
    BY <2>1, <2>4 DEF InRows
  <2>6. \A r, q \in ToDeliver' : r.msg.n = q.msg.n => r = q
    BY <2>2, <2>5 DEF OneCopy, EachPlaceOnce
  <2>7. PlacesApart' /\ NumbersUsed'
    BY <1>0, <1>1, <1>3, <2>3, MoveKeepsApart DEF OneCopy
  <2>8. EachPlaceOnce'
    BY <1>0, <1>1, <1>2, <2>6 DEF OneCopy, EachPlaceOnce
  <2> QED BY <2>7, <2>8 DEF OneCopy
<1> QED BY <1>4, <1>5 DEF TryEnqueue

\* A new message has a number no other one has.
LEMMA ProduceStep ==
    ASSUME BatchInv, OneCopy, NEW t \in Threads, NEW from \in {"work", "wait"},
           NEW body \in Bodies, Produce(t, from, body)
    PROVE  OneCopy'
<1> DEFINE new == [n |-> emitted + 1, body |-> body]
<1>t. TypeOK /\ msg[t] \notin Message /\ pc[t] = from
  BY DEF BatchInv, TypeInv, MessageInHand, Produce, Goto
<1>0. /\ UNCHANGED <<batch, pending, out, sent, inbox, handling, stored>>
      /\ msg' = [msg EXCEPT ![t] = new] /\ new.n = emitted + 1
      /\ emitted' = emitted + 1 /\ emitted \in Nat
      /\ pc'["aux"] = "delete" <=> pc["aux"] = "delete"
  BY <1>t, BoundsAssumption DEF Produce, Goto, TypeOK, Threads, storageVars,
     clientVars, backendVars
<1> HIDE DEF new
<1>1. ToDeliver' = ToDeliver /\ Unsent' = Unsent
  BY <1>0 DEF ToDeliver, Unsent
<1>2. /\ InRows' = InRows /\ InOut' = InOut /\ InInbox' = InInbox
      /\ InHandling' = InHandling /\ InStored' = InStored
  BY <1>0, <1>1 DEF InRows, InOut, InInbox, InHandling, InStored
<1>3. \A u \in Threads : msg'[u] = IF u = t THEN new ELSE msg[u]
  BY <1>0, <1>t DEF TypeOK
<1>4. Holders' \subseteq Holders \cup {t} /\ t \notin Holders
  BY <1>3, <1>t DEF Holders
<1>5. \A u \in Holders : msg'[u] = msg[u] /\ msg[u].n # emitted + 1
  <2>1. \A u \in Holders : msg[u].n \in 1..emitted
    BY DEF OneCopy, NumbersUsed, InHand
  <2> QED BY <2>1, <1>0, <1>3, <1>4 DEF Holders
<1>6. InHand' \subseteq InHand \cup {emitted + 1}
  BY <1>0, <1>3, <1>4, <1>5 DEF InHand, Holders
<1>7. emitted + 1 \notin InRows \cup InOut \cup InInbox \cup InHandling \cup InStored
  BY <1>0 DEF OneCopy, NumbersUsed
<1>8. PlacesApart'
  BY <1>2, <1>6, <1>7 DEF OneCopy, PlacesApart, Apart
<1>9. NumbersUsed'
  <2>1. 1..emitted \subseteq 1..emitted' /\ emitted + 1 \in 1..emitted'
    BY <1>0
  <2> QED BY <1>2, <1>6, <2>1 DEF OneCopy, NumbersUsed
<1>10. EachPlaceOnce'
  <2>1. \A v, u \in Holders : msg[v].n = msg[u].n => v = u
    BY DEF OneCopy, EachPlaceOnce
  <2>2. \A v, u \in Holders' : msg'[v].n = msg'[u].n => v = u
    <3>1. t \in Threads => msg'[t].n = emitted + 1
      BY <1>0, <1>3
    <3> QED BY <1>4, <1>5, <2>1, <3>1
  <2> QED BY <1>0, <1>1, <2>2 DEF OneCopy, EachPlaceOnce
<1> QED BY <1>8, <1>9, <1>10 DEF OneCopy

\* The row the drainer publishes is in libmosquitto's queue from then on; the
\* table keeps a second copy until AuxDelete.
LEMMA DrainStep ==
    ASSUME BatchInv, OneCopy, AuxDrain
    PROVE  OneCopy'
<1>t. TypeOK /\ pc["aux"] = "drain"
  BY DEF BatchInv, TypeInv, AuxDrain, Goto
<1>0. UNCHANGED <<emitted, msg, pending, inbox, handling, stored>>
  BY DEF AuxDrain, logVars, storageVars, backendVars
<1>1. CASE Goto("aux", "drain", "wait") /\ UNCHANGED clientVars
  <2>1. ToDeliver' = ToDeliver
    BY <1>t, <1>0, <1>1 DEF Goto, ToDeliver, TypeOK, Threads
  <2> QED BY <1>0, <1>1, <2>1, PlacesUntouched DEF clientVars
<1>2. CASE /\ batch # <<>>
           /\ Goto("aux", "drain", "delete")
           /\ PublishTrue(Head(batch).msg)
           /\ UNCHANGED batch
  <2> DEFINE row == Head(batch)
  <2>1. row \in pending /\ row.msg \in Message
    <3>1. row \in Range(batch) /\ row \in Row
      BY <1>t, <1>2, RangeTail DEF TypeOK
    <3> QED BY <3>1 DEF BatchInv, BatchIsOldest, Row
  <2>2. ToDeliver = pending /\ ToDeliver' = pending \ {row}
    BY <1>t, <1>0, <1>2 DEF Goto, ToDeliver, TypeOK, Threads
  <2>p. PublishTrue(row.msg)
    BY <1>2
  <2> HIDE DEF row
  <2>3. row.msg.n \in InRows
    BY <2>1, <2>2 DEF InRows
  <2>4. \A r, q \in pending : r.msg.n = q.msg.n => r = q
    BY <2>2 DEF OneCopy, EachPlaceOnce
  <2>5. InRows' \subseteq InRows \ {row.msg.n}
    BY <2>1, <2>2, <2>4 DEF InRows
  <2>6. row.msg.n \notin InOut
    BY <2>3 DEF OneCopy, PlacesApart, Apart
  <2>7. /\ InOut' \subseteq InOut \cup {row.msg.n}
        /\ (\A i, j \in Unsent : out[i].n = out[j].n => i = j)'
    BY <1>t, <2>p, <2>1, <2>6, PublishOut
  <2>h. Holders' = Holders
    BY <1>0 DEF Holders
  <2>8. /\ InHand' = InHand /\ InInbox' = InInbox
        /\ InHandling' = InHandling /\ InStored' = InStored
    BY <1>0, <2>h DEF InHand, InInbox, InHandling, InStored
  <2>9. PlacesApart' /\ NumbersUsed'
    BY <1>0, <2>3, <2>5, <2>7, <2>8, MoveKeepsApart DEF OneCopy
  <2>10. EachPlaceOnce'
    BY <1>0, <2>h, <2>2, <2>4, <2>7 DEF OneCopy, EachPlaceOnce
  <2> QED BY <2>9, <2>10 DEF OneCopy
<1> QED BY <1>1, <1>2 DEF AuxDrain, PublishFalse

\* Deleting it removes that copy and no other row.
LEMMA DeleteStep ==
    ASSUME BatchInv, OneCopy, AuxDelete, ~Fault("drain")
    PROVE  OneCopy'
<1>1. /\ Goto("aux", "delete", "drain")
      /\ pending' = {r \in pending : r.id # Head(batch).id}
      /\ UNCHANGED <<emitted, msg, out, sent, inbox, handling, stored>>
  BY DEF AuxDelete, logVars, clientVars, backendVars
<1>2. Head(batch) \in pending
  <2>1. Head(batch) \in Range(batch)
    BY <1>1, RangeTail DEF BatchInv, TypeInv, TypeOK, Goto
  <2> QED BY <2>1 DEF BatchInv, BatchIsOldest
<1>3. pending' = pending \ {Head(batch)}
  BY <1>1, <1>2 DEF BatchInv, RowInHand
<1>4. ToDeliver' = ToDeliver
  BY <1>1, <1>3 DEF Goto, ToDeliver, BatchInv, TypeInv, TypeOK, Threads
<1> QED BY <1>1, <1>4, PlacesUntouched

\* What is sent on this connection counts as being at the broker.
LEMMA ReceiveStep ==
    ASSUME BatchInv, OneCopy, BrokerReceive
    PROVE  OneCopy'
<1> DEFINE m == out[sent + 1]
<1>t. /\ out \in Seq(Message) /\ inbox \in Seq(Message)
      /\ sent \in Nat /\ Len(out) \in Nat /\ sent + 1 \in Unsent
      /\ m \in Message
  BY DEF BatchInv, TypeInv, TypeOK, BrokerReceive, Unsent
<1>0. /\ UNCHANGED <<emitted, msg, pc, batch, pending, out, handling, stored>>
      /\ inbox' = Append(inbox, m) /\ sent' = sent + 1
  BY DEF BrokerReceive, logVars, threadVars, storageVars, backendVars
<1>1. /\ ToDeliver' = ToDeliver /\ Holders' = Holders
      /\ Unsent' = Unsent \ {sent + 1}
  BY <1>0, <1>t DEF ToDeliver, Holders, Unsent
<1>2. m.n \in InOut
  BY <1>t DEF InOut
<1>3. \A i, j \in Unsent : out[i].n = out[j].n => i = j
  BY DEF OneCopy, EachPlaceOnce
<1>4. InOut' \subseteq InOut \ {m.n}
  BY <1>0, <1>1, <1>3, <1>t DEF InOut
<1>5. /\ DOMAIN inbox = 1..Len(inbox) /\ DOMAIN inbox' = 1..(Len(inbox) + 1)
      /\ \A i \in 1..Len(inbox) : inbox'[i] = inbox[i]
      /\ inbox'[Len(inbox) + 1] = m
      /\ Len(inbox) \in Nat
  <2> HIDE DEF m
  <2> QED BY <1>0, <1>t
<1> HIDE DEF m
<1>6. InInbox' \subseteq InInbox \cup {m.n}
  BY <1>5 DEF InInbox
<1>7. \A i \in DOMAIN inbox : inbox[i].n # m.n
  BY <1>2 DEF OneCopy, PlacesApart, Apart, InInbox
<1>8. \A i, j \in DOMAIN inbox' : inbox'[i].n = inbox'[j].n => i = j
  <2>1. \A i, j \in DOMAIN inbox : inbox[i].n = inbox[j].n => i = j
    BY DEF OneCopy, EachPlaceOnce
  <2> QED BY <2>1, <1>5, <1>7
<1>9. /\ InHand' = InHand /\ InRows' = InRows
      /\ InHandling' = InHandling /\ InStored' = InStored
  BY <1>0, <1>1 DEF InHand, InRows, InHandling, InStored
<1>10. PlacesApart' /\ NumbersUsed'
  BY <1>0, <1>2, <1>4, <1>6, <1>9, MoveKeepsApart DEF OneCopy
<1>11. EachPlaceOnce'
  BY <1>0, <1>1, <1>3, <1>8 DEF OneCopy, EachPlaceOnce
<1> QED BY <1>10, <1>11 DEF OneCopy

\* An acknowledged message was a copy.
LEMMA AckStep ==
    ASSUME BatchInv, OneCopy, PubAck
    PROVE  OneCopy'
<1>t. /\ out \in Seq(Message) /\ out # <<>>
      /\ sent \in 1..Len(out) /\ Len(out) \in Nat
  BY DEF BatchInv, TypeInv, TypeOK, PubAck
<1>0. /\ UNCHANGED <<emitted, msg, pc, batch, pending, inbox, handling, stored>>
      /\ out' = Tail(out) /\ sent' = sent - 1
  BY DEF PubAck, logVars, threadVars, storageVars, backendVars
<1>1. ToDeliver' = ToDeliver /\ Holders' = Holders
  BY <1>0 DEF ToDeliver, Holders
<1>2. /\ \A i \in Unsent' : i + 1 \in Unsent /\ out'[i] = out[i + 1]
      /\ Unsent' \subseteq Nat
  <2>1. Len(out') = Len(out) - 1
    BY <1>t, <1>0, RangeTail
  <2>2. Unsent' = sent..(Len(out) - 1)
    BY <1>0, <1>t, <2>1 DEF Unsent
  <2>3. \A i \in 1..(Len(out) - 1) : out'[i] = out[i + 1]
    BY <1>t, <1>0, RangeTail
  <2>4. Unsent = (sent + 1)..Len(out)
    BY DEF Unsent
  <2> QED BY <2>2, <2>3, <2>4, <1>t
<1>3. InOut' \subseteq InOut
  BY <1>2 DEF InOut
<1>4. \A i, j \in Unsent' : out'[i].n = out'[j].n => i = j
  <2>1. \A i, j \in Unsent : out[i].n = out[j].n => i = j
    BY DEF OneCopy, EachPlaceOnce
  <2> SUFFICES ASSUME NEW i \in Unsent', NEW j \in Unsent',
                      out'[i].n = out'[j].n
               PROVE  i = j
    OBVIOUS
  <2>2. i + 1 = j + 1
    BY <2>1, <1>2
  <2> QED BY <2>2, <1>2
<1>5. /\ InHand' = InHand /\ InRows' = InRows /\ InInbox' = InInbox
      /\ InHandling' = InHandling /\ InStored' = InStored
  BY <1>0, <1>1 DEF InHand, InRows, InInbox, InHandling, InStored
<1>6. PlacesApart' /\ NumbersUsed'
  BY <1>0, <1>3, <1>5, MoveKeepsApart DEF OneCopy
<1>7. EachPlaceOnce'
  BY <1>0, <1>1, <1>4 DEF OneCopy, EachPlaceOnce
<1> QED BY <1>6, <1>7 DEF OneCopy

\* A step of the backend leaves the device and the broker's link alone.
LEMMA BackendLeavesDevice ==
    ASSUME BackendStep
    PROVE  /\ UNCHANGED emitted
           /\ ToDeliver' = ToDeliver /\ Holders' = Holders /\ Unsent' = Unsent
           /\ UNCHANGED <<msg, out>>
           /\ InHand' = InHand /\ InRows' = InRows /\ InOut' = InOut
<1>1. UNCHANGED <<emitted, msg, pc, batch, pending, out, sent>>
  BY DEF BackendStep, BackendReceive, BackendHandle, BackendFail,
     DeleteEmployee, logVars, threadVars, storageVars, clientVars
<1>2. ToDeliver' = ToDeliver /\ Holders' = Holders /\ Unsent' = Unsent
  BY <1>1 DEF ToDeliver, Holders, Unsent
<1> QED BY <1>1, <1>2 DEF InHand, InRows, InOut

LEMMA SessionStep ==
    ASSUME BatchInv, OneCopy, BackendReceive, ~Fault("ack")
    PROVE  OneCopy'
<1>0. /\ inbox # <<>> /\ handling' = Head(inbox) /\ inbox' = Tail(inbox)
      /\ UNCHANGED stored /\ inbox \in Seq(Message)
  BY DEF BackendReceive, BatchInv, TypeInv, TypeOK
<1>b. BackendStep
  BY DEF BackendStep
<1>1. /\ DOMAIN inbox = 1..Len(inbox) /\ DOMAIN inbox' = 1..(Len(inbox) - 1)
      /\ \A i \in 1..(Len(inbox) - 1) : inbox'[i] = inbox[i + 1]
      /\ Head(inbox) = inbox[1] /\ Head(inbox) \in Message
      /\ Len(inbox) \in Nat \ {0}
  BY <1>0, RangeTail
<1>2. \A i, j \in DOMAIN inbox : inbox[i].n = inbox[j].n => i = j
  BY DEF OneCopy, EachPlaceOnce
<1>3. \A i \in DOMAIN inbox' : /\ i + 1 \in DOMAIN inbox /\ i + 1 # 1
                               /\ inbox'[i] = inbox[i + 1]
  BY <1>1
<1>4. Head(inbox).n \in InInbox /\ 1 \in DOMAIN inbox
  BY <1>1 DEF InInbox
<1>5. InInbox' \subseteq InInbox \ {Head(inbox).n}
  BY <1>1, <1>2, <1>3, <1>4 DEF InInbox
<1>6. \A i, j \in DOMAIN inbox' : inbox'[i].n = inbox'[j].n => i = j
  <2> SUFFICES ASSUME NEW i \in DOMAIN inbox', NEW j \in DOMAIN inbox',
                      inbox'[i].n = inbox'[j].n
               PROVE  i = j
    OBVIOUS
  <2>1. i + 1 = j + 1
    BY <1>2, <1>3
  <2>2. i \in Nat /\ j \in Nat
    BY <1>1
  <2> QED BY <2>1, <2>2
<1>7. InHandling' \subseteq InHandling \cup {Head(inbox).n}
  BY <1>0 DEF InHandling
<1>8. InStored' = InStored
  BY <1>0 DEF InStored
<1>9. PlacesApart' /\ NumbersUsed'
  BY <1>4, <1>5, <1>7, <1>8, <1>b, BackendLeavesDevice, MoveKeepsApart
     DEF OneCopy
<1>10. EachPlaceOnce'
  BY <1>0, <1>6, <1>b, BackendLeavesDevice DEF OneCopy, EachPlaceOnce
<1> QED BY <1>9, <1>10 DEF OneCopy

\* handle_publish inserts one row for the message it works on, or none.
LEMMA HandleStep ==
    ASSUME BatchInv, OneCopy, BackendHandle
    PROVE  OneCopy'
<1> DEFINE Stored == [n : 1..MaxEmit, body : Employees \cup {None}]
<1> DEFINE new == Inserted(handling)
<1>0. /\ stored' = stored \o new /\ handling' = None /\ UNCHANGED inbox
      /\ handling \in Message /\ stored \in Seq(Stored)
  BY DEF BackendHandle, BatchInv, TypeInv, TypeOK
<1>b. BackendStep
  BY DEF BackendStep
<1>1. new \in Seq(Stored)
  BY <1>0, InsertedType DEF BatchInv, TypeInv
<1>2. new = <<>> \/ (Len(new) = 1 /\ new[1].n = handling.n)
  <2>1. [handling EXCEPT !.body = None].n = handling.n
    BY <1>0 DEF Message
  <2> QED BY <2>1 DEF Inserted
<1> HIDE DEF new, Stored
<1>3. handling.n \in InHandling /\ InHandling' = {}
  BY <1>0, NoneAssumption DEF InHandling
<1>4. /\ InStored' \subseteq InStored \cup {handling.n}
      /\ \A i, j \in DOMAIN stored' : stored'[i].n = stored'[j].n => i = j
  <2>1. CASE new = <<>>
    <3>1. stored' = stored
      BY <1>0, <2>1
    <3> QED BY <3>1 DEF InStored, OneCopy, EachPlaceOnce
  <2>2. CASE Len(new) = 1 /\ new[1].n = handling.n
    <3>1. /\ DOMAIN stored = 1..Len(stored)
          /\ DOMAIN stored' = 1..(Len(stored) + 1)
          /\ \A i \in 1..Len(stored) : stored'[i] = stored[i]
          /\ Len(stored) \in Nat
      <4>1. Len(stored \o new) = Len(stored) + Len(new)
        BY <1>0, <1>1, ConcatProperties
      <4>2. \A i \in 1..Len(stored) : (stored \o new)[i] = stored[i]
        BY <1>0, <1>1
      <4>3. Len(stored) \in Nat /\ DOMAIN stored = 1..Len(stored)
        BY <1>0
      <4>4. stored \o new \in Seq(Stored)
        BY <1>0, <1>1
      <4>5. DOMAIN (stored \o new) = 1..Len(stored \o new)
        BY <4>4
      <4> QED BY <1>0, <2>2, <4>1, <4>2, <4>3, <4>5
    <3>2. stored'[Len(stored) + 1].n = handling.n
      BY <1>0, <1>1, <2>2, ConcatOne
    <3>3. \A i \in DOMAIN stored : stored[i].n # handling.n
      BY <1>3 DEF OneCopy, PlacesApart, Apart, InStored
    <3>4. \A i, j \in DOMAIN stored : stored[i].n = stored[j].n => i = j
      BY DEF OneCopy, EachPlaceOnce
    <3>5. \A i \in DOMAIN stored' : i \in DOMAIN stored \/ i = Len(stored) + 1
      BY <3>1
    <3>6. InStored' \subseteq InStored \cup {handling.n}
      BY <3>1, <3>2, <3>5 DEF InStored
    <3> QED BY <3>1, <3>2, <3>3, <3>4, <3>5, <3>6
  <2> QED BY <1>2, <2>1, <2>2
<1>5. InInbox' = InInbox
  BY <1>0 DEF InInbox
<1>6. PlacesApart' /\ NumbersUsed'
  BY <1>3, <1>4, <1>5, <1>b, BackendLeavesDevice, MoveKeepsApart DEF OneCopy
<1>7. EachPlaceOnce'
  BY <1>0, <1>4, <1>b, BackendLeavesDevice DEF OneCopy, EachPlaceOnce
<1> QED BY <1>6, <1>7 DEF OneCopy

\* Failing drops a message, deleting an employee only changes owners.
LEMMA BackendOtherStep ==
    ASSUME BatchInv, OneCopy, BackendFail \/ DeleteEmployee
    PROVE  OneCopy'
<1>b. BackendStep
  BY DEF BackendStep
<1>0. /\ UNCHANGED inbox
      /\ handling' = None \/ UNCHANGED handling
  BY DEF BackendFail, DeleteEmployee
<1>1. /\ DOMAIN stored' = DOMAIN stored
      /\ \A i \in DOMAIN stored : stored'[i].n = stored[i].n
  <2>1. CASE BackendFail
    BY <2>1 DEF BackendFail
  <2>2. CASE DeleteEmployee
    <3>1. PICK e \in employees :
            stored' = [i \in DOMAIN stored |->
                         IF stored[i].body = e
                         THEN [stored[i] EXCEPT !.body = None]
                         ELSE stored[i]]
      BY <2>2 DEF DeleteEmployee
    <3> DEFINE Stored == [n : 1..MaxEmit, body : Employees \cup {None}]
    <3>2. \A i \in DOMAIN stored : stored[i] \in Stored
      <4>1. stored \in Seq(Stored)
        BY DEF BatchInv, TypeInv, TypeOK
      <4> HIDE DEF Stored
      <4> QED BY <4>1
    <3>3. \A x \in Stored : [x EXCEPT !.body = None].n = x.n
      OBVIOUS
    <3> QED BY <3>1, <3>2, <3>3
  <2> QED BY <2>1, <2>2
<1>2. InStored' = InStored
  BY <1>1 DEF InStored
<1>3. InHandling' \subseteq InHandling /\ InInbox' = InInbox
  BY <1>0, NoneAssumption DEF InHandling, InInbox
<1>4. PlacesApart' /\ NumbersUsed'
  BY <1>2, <1>3, <1>b, BackendLeavesDevice, MoveKeepsApart DEF OneCopy
<1>5. \A i, j \in DOMAIN stored' : stored'[i].n = stored'[j].n => i = j
  BY <1>1 DEF OneCopy, EachPlaceOnce
<1>6. EachPlaceOnce'
  BY <1>0, <1>5, <1>b, BackendLeavesDevice DEF OneCopy, EachPlaceOnce
<1> QED BY <1>4, <1>6 DEF OneCopy

\* A process that ends normally has no row in the drainer's hands; what it
\* still held itself is gone.
LEMMA ProcessStepKeepsOne ==
    ASSUME BatchInv, OneCopy, ProcessStep, ~Fault("crash"),
           edge = "down" => pc["aux"] = "done"
    PROVE  OneCopy'
<1>t. TypeOK /\ TypeOK'
  BY TypeStep DEF BatchInv, TypeInv, Next
<1>1. CASE RequestStop
  <2>1. ToDeliver' = ToDeliver
    BY <1>1 DEF RequestStop, storageVars, ToDeliver
  <2> QED BY <1>1, <2>1, PlacesUntouched DEF RequestStop, logVars, storageVars,
             clientVars, backendVars
<1>2. CASE ProcessExit \/ ProcessStart
  <2>1. /\ pc["aux"] # "delete" /\ pc'["aux"] # "delete"
        /\ UNCHANGED <<emitted, pending, inbox, handling, stored>>
        /\ msg' = [t \in Threads |-> None]
        /\ UNCHANGED <<out, sent>> \/ out' = <<>>
    BY <1>2 DEF ProcessExit, ProcessEnds, ProcessStart, ThreadStart, Threads,
       logVars, storageVars, clientVars, backendVars
  <2>2. ToDeliver' = ToDeliver /\ Holders' = {}
    BY <2>1, NoneAssumption DEF ToDeliver, Holders
  <2>3. /\ Unsent' \subseteq Unsent
        /\ \A i \in Unsent' : out'[i] = out[i]
    <3>1. CASE UNCHANGED <<out, sent>>
      BY <3>1 DEF Unsent
    <3>2. CASE out' = <<>>
      <4>1. sent' = 0 /\ Len(out') = 0
        BY <3>2, <1>t DEF TypeOK
      <4>2. Unsent' = {}
        BY <4>1 DEF Unsent
      <4> QED BY <4>2
    <3> QED BY <2>1, <3>1, <3>2
  <2>4. InHand' = {} /\ InOut' \subseteq InOut /\ InRows' = InRows
    BY <2>2, <2>3 DEF InHand, InOut, InRows
  <2>5. InInbox' = InInbox /\ InHandling' = InHandling /\ InStored' = InStored
    BY <2>1 DEF InInbox, InHandling, InStored
  <2>6. PlacesApart' /\ NumbersUsed'
    BY <2>1, <2>4, <2>5, MoveKeepsApart DEF OneCopy
  <2>7. EachPlaceOnce'
    BY <2>1, <2>2, <2>3 DEF OneCopy, EachPlaceOnce
  <2> QED BY <2>6, <2>7 DEF OneCopy
<1> QED BY <1>1, <1>2 DEF ProcessStep, ProcessCrash

\* The steps of the threads that move no message.
LEMMA QuietStep ==
    ASSUME BatchInv, OneCopy, ~Fault("drain"),
           MainLoop \/ MainNoEvent \/ AuxWake \/ AuxCheck \/ AuxFetch
    PROVE  OneCopy'
<1>1. UNCHANGED <<emitted, msg, pending, out, sent, inbox, handling, stored>>
  BY DEF MainLoop, MainNoEvent, AuxWake, AuxCheck, AuxFetch, logVars,
     storageVars, clientVars, backendVars
<1>2. /\ pc["aux"] = "delete" => batch' = batch
      /\ pc'["aux"] = "delete" <=> pc["aux"] = "delete"
  BY DEF MainLoop, MainNoEvent, AuxWake, AuxCheck, AuxFetch, Goto, BatchInv,
     TypeInv, TypeOK, Threads
<1>3. ToDeliver' = ToDeliver
  BY <1>1, <1>2 DEF ToDeliver
<1> QED BY <1>1, <1>3, PlacesUntouched

LEMMA OneCopyStep ==
    ASSUME BatchInv, OneCopy, [Next]_vars, NoDuplicates',
           edge = "down" => pc["aux"] = "done"
    PROVE  OneCopy'
<1>0. ~Fault("link") /\ ~Fault("drain") /\ ~Fault("crash") /\ ~Fault("ack")
  BY NoDuplicatesBefore DEF DuplicatingFaults
<1>1. CASE ThreadStep
  <2>1. CASE MainEmit \/ AuxHeartbeat
    BY <2>1, ProduceStep DEF MainEmit, AuxHeartbeat, Threads, Bodies
  <2>2. CASE \E t \in Threads : TryPublish(t) \/ TryEnqueue(t)
    BY <2>2, PublishStep, EnqueueStep
  <2>3. CASE AuxDrain \/ AuxDelete
    BY <1>0, <2>3, DrainStep, DeleteStep
  <2> QED BY <1>0, <1>1, <2>1, <2>2, <2>3, QuietStep DEF ThreadStep
<1>2. CASE ProcessStep
  BY <1>0, <1>2, ProcessStepKeepsOne
<1>3. CASE NetworkStep
  <2>1. CASE OnConnect
    <3>1. ToDeliver' = ToDeliver
      BY <2>1 DEF OnConnect, threadVars, storageVars, ToDeliver
    <3> QED BY <2>1, <3>1, PlacesUntouched DEF OnConnect, logVars, threadVars,
               storageVars, backendVars
  <2> QED BY <1>0, <1>3, <2>1, ReceiveStep, AckStep DEF NetworkStep, OnDisconnect
<1>4. CASE BackendStep
  BY <1>0, <1>4, SessionStep, HandleStep, BackendOtherStep DEF BackendStep
<1>5. CASE UNCHANGED vars
  <2>1. ToDeliver' = ToDeliver
    BY <1>5 DEF vars, threadVars, storageVars, ToDeliver
  <2> QED BY <1>5, <2>1, PlacesUntouched DEF vars, logVars, threadVars,
             storageVars, clientVars, backendVars
<1> QED BY <1>1, <1>2, <1>3, <1>4, <1>5 DEF Next

\* Nothing runs while the process is down.
LEMMA DownInvariant == Spec => [](edge = "down" => pc["aux"] = "done")
<1>1. Init => (edge = "down" => pc["aux"] = "done")
  BY DEF Init
<1>2. (edge = "down" => pc["aux"] = "done") /\ [Next]_vars
        => (edge = "down" => pc["aux"] = "done")'
  BY DEF Next, ThreadStep, ProcessStep, NetworkStep, BackendStep, MainLoop,
     MainNoEvent, MainEmit, Produce, AuxWake, AuxHeartbeat, AuxCheck, AuxFetch,
     AuxDrain, AuxDelete, TryPublish, TryEnqueue, Goto, RequestStop,
     ProcessExit, ProcessCrash, ProcessStart, ProcessEnds, OnConnect,
     OnDisconnect, BrokerReceive, PubAck, BackendReceive, BackendHandle,
     BackendFail, DeleteEmployee, vars, threadVars, Threads
<1> QED BY <1>1, <1>2, PTL DEF Spec

\* A message is stored twice only after a lost connection, a lost PUBACK, a
\* failed delete of the drainer or a crash: neither the interleaving of the two
\* threads, nor a refused send, a row on its way through the drainer, a clean
\* stop or a restart of the backend ever delivers one twice.
THEOREM EventsStoredOnce == Spec => []StoredOnce
<1>1. Init => OneCopyInv
  <2> SUFFICES ASSUME Init PROVE BatchInv /\ OneCopy
    BY DEF OneCopyInv
  <2>1. /\ out = <<>> /\ sent = 0 /\ inbox = <<>> /\ handling = None
        /\ stored = <<>> /\ pending = {} /\ msg = [t \in Threads |-> None]
        /\ pc["aux"] # "delete"
    BY DEF Init, ThreadStart, Threads
  <2>2. /\ Unsent = {} /\ Holders = {} /\ ToDeliver = {}
        /\ DOMAIN inbox = {} /\ DOMAIN stored = {}
    BY <2>1, NoneAssumption DEF Unsent, Holders, ToDeliver
  <2>3. /\ InHand = {} /\ InRows = {} /\ InOut = {} /\ InInbox = {}
        /\ InHandling = {} /\ InStored = {}
    BY <2>1, <2>2, NoneAssumption DEF InHand, InRows, InOut, InInbox,
       InHandling, InStored
  <2>4. PlacesApart /\ NumbersUsed
    BY <2>3 DEF PlacesApart, Apart, NumbersUsed
  <2>5. EachPlaceOnce
    BY <2>2 DEF EachPlaceOnce
  <2> QED BY <2>4, <2>5, BatchInit DEF OneCopy
<1>2. OneCopyInv /\ (edge = "down" => pc["aux"] = "done") /\ [Next]_vars
        => OneCopyInv'
  BY BatchNext, NoDuplicatesBefore, OneCopyStep DEF OneCopyInv
<1>3. OneCopyInv => StoredOnce
  BY DEF OneCopyInv, OneCopy, EachPlaceOnce, StoredOnce, NoDuplicates,
     DuplicatingFaults
<1> QED BY <1>1, <1>2, <1>3, DownInvariant, PTL DEF Spec
=============================================================================
