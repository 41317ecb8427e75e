----------------------------- MODULE Employees -----------------------------
(***************************************************************************)
(* PATCH /employees/:id: the handler reads the row, changes the copy and   *)
(* writes both fields back, in two statements without a transaction.       *)
(* Other requests, and DELETE /employees/:id, may come in between.         *)
(***************************************************************************)
EXTENDS Naturals

CONSTANTS
    Requests,   \* PATCH requests
    Names,      \* names, trimmed
    Shifts,     \* shifts
    Absent,     \* a key the body does not have
    Null,       \* null
    Empty       \* a name of blanks

\* UpdateEmployee; a null name reads like an absent one.
Bodies == [name : Names \cup {Absent, Empty}, shift : Shifts \cup {Absent, Null}]
Rows == [name : Names, shift : Shifts \cup {Null}]
Missing == Absent

ASSUME EmployeesAssumption ==
    /\ {Absent, Empty} \cap Names = {}
    /\ {Absent, Null} \cap Shifts = {}
    /\ Absent # Null /\ Absent # Empty
    /\ Missing \notin Rows

VARIABLES
    row,      \* the row of the employee, or Missing
    request,  \* what each handler does next
    body,     \* its body
    copy,     \* its emp
    answered, \* the status of its answer
    intended, \* history: the row if each PATCH had been one statement
    overlap   \* history: a request wrote between the two statements of another

employeesVars == <<row, request, body, copy, answered, intended, overlap>>

EmployeesTypeOK ==
    /\ row \in Rows \cup {Missing}
    /\ request \in [Requests -> {"none", "save", "done"}]
    /\ body \in [Requests -> Bodies]
    /\ copy \in [Requests -> Rows \cup {Missing}]
    /\ answered \in [Requests -> {0, 200, 400, 404, 500}]
    /\ intended \in Rows \cup {Missing}
    /\ overlap \in BOOLEAN
    /\ \A r \in Requests : request[r] = "done" <=> answered[r] # 0

EmployeesInit ==
    /\ row \in Rows
    /\ request = [r \in Requests |-> "none"]
    /\ body \in [Requests -> Bodies]
    /\ copy = [r \in Requests |-> Missing]
    /\ answered = [r \in Requests |-> 0]
    /\ intended = row
    /\ overlap = FALSE

\* A plausible bug: null leaves the shift alone (COALESCE).
Applied_Coalesce(b, emp) ==
    [name |-> IF b.name = Absent THEN emp.name ELSE b.name,
     shift |-> IF b.shift \in {Absent, Null} THEN emp.shift ELSE b.shift]

\* The body's fields over the row; null clears the shift.
Applied(b, emp) ==
    [name |-> IF b.name = Absent THEN emp.name ELSE b.name,
     shift |-> IF b.shift = Absent THEN emp.shift ELSE b.shift]

\* What the request asks for, as the body says: the keys it has.
Intended(r) ==
    [key \in DOMAIN intended |->
        IF body[r][key] = Absent THEN intended[key] ELSE body[r][key]]

Answer(r, status) ==
    /\ request' = [request EXCEPT ![r] = "done"]
    /\ answered' = [answered EXCEPT ![r] = status]

\* SELECT, then the body applied to the copy.
Read(r) ==
    /\ request[r] = "none"
    /\ \/ row = Missing /\ Answer(r, 404) /\ UNCHANGED copy
       \/ row # Missing /\ body[r].name = Empty /\ Answer(r, 400) /\ UNCHANGED copy
       \/ /\ row # Missing /\ body[r].name # Empty
          /\ copy' = [copy EXCEPT ![r] = Applied(body[r], row)]
          /\ request' = [request EXCEPT ![r] = "save"]
          /\ UNCHANGED answered
    /\ UNCHANGED <<row, body, intended, overlap>>

Saving(r) == request[r] = "save"

\* A plausible bug: the row is inserted if it is not there.
Save_Inserts(r) ==
    /\ Saving(r)
    /\ row' = copy[r]
    /\ intended' = IF intended = Missing THEN Missing ELSE Intended(r)
    /\ overlap' = (overlap \/ \E o \in Requests \ {r} : Saving(o))
    /\ Answer(r, 200)
    /\ UNCHANGED <<body, copy>>

\* UPDATE ... RETURNING, whose fetch_one fails if the row is gone.
Save(r) ==
    /\ Saving(r)
    /\ IF row = Missing
       THEN Answer(r, 500) /\ UNCHANGED <<row, intended, overlap>>
       ELSE /\ row' = copy[r]
            /\ intended' = Intended(r)
            /\ overlap' = (overlap \/ \E o \in Requests \ {r} : Saving(o))
            /\ Answer(r, 200)
    /\ UNCHANGED <<body, copy>>

\* A database error of either statement.
Fails(r) ==
    /\ request[r] \in {"none", "save"}
    /\ Answer(r, 500)
    /\ UNCHANGED <<row, body, copy, intended, overlap>>

\* delete; what it does to the embeddings is EmbeddingSync.
Delete ==
    /\ row # Missing
    /\ row' = Missing
    /\ intended' = Missing
    /\ UNCHANGED <<request, body, copy, answered, overlap>>

EmployeesNext ==
    \/ \E r \in Requests : Read(r) \/ Save(r) \/ Fails(r)
    \/ Delete
    \/ (\A r \in Requests : request[r] = "done") /\ UNCHANGED employeesVars

EmployeesSpec == EmployeesInit /\ [][EmployeesNext]_employeesVars

-----------------------------------------------------------------------------
(* Properties.                                                             *)

\* Every update answered with 200 is in the row, field by field, unless a
\* request wrote between the two statements of another; a deleted employee
\* never comes back by an update that had read her before.
UpdatesKept ==
    /\ ~overlap => row = intended
    /\ intended = Missing => row = Missing

=============================================================================
