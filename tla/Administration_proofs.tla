------------------------ MODULE Administration_proofs ------------------------
(***************************************************************************)
(* Proofs about the parts around the gate: updates of an employee, the     *)
(* enrolment wizard, the two writers of the embeddings table, the reports. *)
(***************************************************************************)
EXTENDS MCAdministration, FiniteSetTheorems, SequenceTheorems, WellFoundedInduction, TLAPS

-----------------------------------------------------------------------------
(* Employees: an update is lost only to one that overlaps.                 *)

\* Without an overlap the copy of a handler is the row with its body's
\* fields, until the row is deleted.
CopiesAreFresh ==
    ~overlap =>
        \A r \in Requests :
            Saving(r) /\ row # Missing => copy[r] = Applied(body[r], row)

\* A handler has validated the name before it has a copy to save.
CopiesAreRows ==
    \A r \in Requests : Saving(r) => copy[r] \in Rows /\ body[r].name # Empty

UpdateInv ==
    /\ EmployeesTypeOK
    /\ CopiesAreRows
    /\ CopiesAreFresh
    /\ ~overlap => row = intended
    /\ intended = Missing <=> row = Missing

LEMMA AppliedIsRow ==
    ASSUME NEW b \in Bodies, NEW emp \in Rows, b.name # Empty
    PROVE  Applied(b, emp) \in Rows
BY EmployeesAssumption DEF Bodies, Rows, Applied

LEMMA IntendedIsApplied ==
    ASSUME EmployeesTypeOK, intended \in Rows, NEW r \in Requests
    PROVE  Intended(r) = Applied(body[r], intended)
<1>1. DOMAIN intended = {"name", "shift"}
  BY DEF Rows
<1>2. Intended(r) = [name |-> IF body[r].name = Absent THEN intended.name ELSE body[r].name,
                     shift |-> IF body[r].shift = Absent THEN intended.shift ELSE body[r].shift]
  BY <1>1 DEF Intended
<1> QED BY <1>2 DEF Applied

LEMMA UpdateInit == EmployeesInit => UpdateInv
<1> SUFFICES ASSUME EmployeesInit PROVE UpdateInv
  OBVIOUS
<1>1. EmployeesTypeOK
  BY DEF EmployeesInit, EmployeesTypeOK
<1>2. \A r \in Requests : ~Saving(r)
  BY DEF EmployeesInit, Saving
<1>3. intended = row
  BY DEF EmployeesInit
<1> QED BY <1>1, <1>2, <1>3 DEF UpdateInv, CopiesAreRows, CopiesAreFresh

LEMMA AnswerTyped ==
    ASSUME EmployeesTypeOK, NEW r \in Requests, NEW status \in {200, 400, 404, 500},
           Answer(r, status)
    PROVE  /\ request' \in [Requests -> {"none", "save", "done"}]
           /\ answered' \in [Requests -> {0, 200, 400, 404, 500}]
           /\ \A o \in Requests : request'[o] = "done" <=> answered'[o] # 0
           /\ request'[r] = "done"
           /\ \A o \in Requests : o # r => request'[o] = request[o]
BY DEF Answer, EmployeesTypeOK

LEMMA UpdateNext == UpdateInv /\ [EmployeesNext]_employeesVars => UpdateInv'
<1> SUFFICES ASSUME UpdateInv, [EmployeesNext]_employeesVars PROVE UpdateInv'
  OBVIOUS
<1> USE DEF UpdateInv
<1>t. EmployeesTypeOK
  OBVIOUS
<1>m. row # Missing => row \in Rows
  BY <1>t DEF EmployeesTypeOK
<1>1. ASSUME NEW r \in Requests, Read(r) PROVE UpdateInv'
  <2>1. UNCHANGED <<row, body, intended, overlap>> /\ request[r] = "none"
    BY <1>1 DEF Read
  <2>2. CASE \E status \in {400, 404} : Answer(r, status) /\ UNCHANGED copy
    <3>1. PICK status \in {400, 404} : Answer(r, status) /\ UNCHANGED copy
      BY <2>2
    <3>2. /\ EmployeesTypeOK'
          /\ \A o \in Requests : Saving(o)' => Saving(o)
      BY <2>1, <3>1, AnswerTyped DEF EmployeesTypeOK, Saving
    <3> QED BY <2>1, <3>1, <3>2 DEF CopiesAreRows, CopiesAreFresh
  <2>3. CASE /\ row # Missing /\ body[r].name # Empty
             /\ copy' = [copy EXCEPT ![r] = Applied(body[r], row)]
             /\ request' = [request EXCEPT ![r] = "save"]
             /\ UNCHANGED answered
    <3>1. body[r] \in Bodies /\ Applied(body[r], row) \in Rows
      BY <1>m, <2>3, <1>t, AppliedIsRow DEF EmployeesTypeOK
    <3>2. EmployeesTypeOK'
      <4>1. copy' \in [Requests -> Rows \cup {Missing}]
        BY <2>3, <3>1, <1>t DEF EmployeesTypeOK
      <4>2. /\ request' \in [Requests -> {"none", "save", "done"}]
            /\ \A o \in Requests : request'[o] = "done" <=> answered'[o] # 0
        BY <2>1, <2>3, <1>t DEF EmployeesTypeOK
      <4> QED BY <2>1, <2>3, <4>1, <4>2, <1>t DEF EmployeesTypeOK
    <3>3. /\ copy'[r] = Applied(body[r], row)
          /\ \A o \in Requests : o # r => copy'[o] = copy[o] /\ request'[o] = request[o]
      BY <2>3, <1>t DEF EmployeesTypeOK
    <3>4. CopiesAreRows' /\ CopiesAreFresh'
      BY <2>1, <2>3, <3>1, <3>3 DEF CopiesAreRows, CopiesAreFresh, Saving
    <3> QED BY <2>1, <3>2, <3>4
  <2> QED BY <1>1, <2>2, <2>3 DEF Read
<1>2. ASSUME NEW r \in Requests, Save(r) PROVE UpdateInv'
  <2>1. Saving(r) /\ UNCHANGED <<body, copy>>
    BY <1>2 DEF Save
  <2>2. CASE row = Missing
    <3>1. Answer(r, 500) /\ UNCHANGED <<row, intended, overlap>>
      BY <1>2, <2>2 DEF Save
    <3>2. /\ EmployeesTypeOK'
          /\ \A o \in Requests : Saving(o)' => Saving(o)
      BY <2>1, <3>1, <1>t, AnswerTyped DEF EmployeesTypeOK, Saving
    <3> QED BY <2>1, <3>1, <3>2 DEF CopiesAreRows, CopiesAreFresh
  <2>3. CASE row # Missing
    <3>1. /\ row' = copy[r]
          /\ intended' = Intended(r)
          /\ overlap' = (overlap \/ \E o \in Requests \ {r} : Saving(o))
          /\ Answer(r, 200)
      BY <1>2, <2>3 DEF Save
    <3>2. copy[r] \in Rows /\ body[r].name # Empty /\ body[r] \in Bodies
      BY <2>1, <1>t DEF CopiesAreRows, EmployeesTypeOK
    <3>3. intended \in Rows
      BY <2>3, <1>t DEF EmployeesTypeOK
    <3>4. Intended(r) = Applied(body[r], intended) /\ Intended(r) \in Rows
      BY <1>t, <3>2, <3>3, IntendedIsApplied, AppliedIsRow
    <3>5. Missing \notin Rows
      BY EmployeesAssumption
    <3>6. /\ EmployeesTypeOK'
          /\ ~Saving(r)'
          /\ \A o \in Requests : Saving(o)' => Saving(o)
      <4>1. overlap' \in BOOLEAN
        BY <3>1
      <4> QED BY <2>1, <3>1, <3>2, <3>4, <4>1, <1>t, AnswerTyped DEF EmployeesTypeOK, Saving
    <3>7. CopiesAreRows'
      BY <2>1, <3>6 DEF CopiesAreRows
    <3>8. CopiesAreFresh'
      BY <3>1, <3>6 DEF CopiesAreFresh
    <3>9. ~overlap' => row' = intended'
      BY <2>1, <2>3, <3>1, <3>4 DEF CopiesAreFresh
    <3>10. row' # Missing /\ intended' # Missing
      BY <3>1, <3>2, <3>4, <3>5
    <3> QED BY <3>6, <3>7, <3>8, <3>9, <3>10
  <2> QED BY <2>2, <2>3
<1>3. ASSUME NEW r \in Requests, Fails(r) PROVE UpdateInv'
  <2>1. Answer(r, 500) /\ UNCHANGED <<row, body, copy, intended, overlap>>
    BY <1>3 DEF Fails
  <2>2. /\ EmployeesTypeOK'
        /\ \A o \in Requests : Saving(o)' => Saving(o)
    BY <2>1, <1>t, AnswerTyped DEF EmployeesTypeOK, Saving
  <2> QED BY <2>1, <2>2 DEF CopiesAreRows, CopiesAreFresh
<1>4. ASSUME Delete PROVE UpdateInv'
  BY <1>4 DEF Delete, EmployeesTypeOK, CopiesAreRows, CopiesAreFresh, Saving
<1>5. ASSUME UNCHANGED employeesVars PROVE UpdateInv'
  BY <1>5 DEF employeesVars, EmployeesTypeOK, CopiesAreRows, CopiesAreFresh, Saving
<1> QED BY <1>1, <1>2, <1>3, <1>4, <1>5 DEF EmployeesNext

\* UpdatesKept for any employees, names, shifts and number of requests: what
\* a request answered with 200 has written is in the row, unless a request
\* wrote between the two statements of another; nobody deleted comes back.
THEOREM UpdatesAreKept == EmployeesSpec => []UpdatesKept
<1>1. UpdateInv => UpdatesKept
  BY DEF UpdateInv, UpdatesKept
<1> QED BY <1>1, UpdateInit, UpdateNext, PTL DEF EmployeesSpec

-----------------------------------------------------------------------------
(* EnrollmentWizard: the uploads add up.                                   *)

Stored == {s \in Shots : rowsOf[s] > 0}

\* What submit copied is what captures() begins with while it uploads and
\* when it has completed; only the capture that was being processed at the
\* click may come after it.
ShotsKept ==
    uploading \/ wizard = "completed" =>
        /\ Len(shots) <= Len(captures)
        /\ Len(captures) <= Len(shots) + 1
        /\ Len(captures) > Len(shots) => ~processing
        /\ \A i \in 1..Len(shots) : captures[i] = shots[i]

\* Every request answered without an error has stored its capture.
ProgressIsStored ==
    /\ uploading => wizard = "open" /\ \A i \in 1..progress : shots[i] \in Stored
    /\ wizard = "completed" =>
           /\ ~uploading
           /\ reported = Len(shots)
           /\ \A i \in 1..Len(shots) : shots[i] \in Stored

WizardTypes ==
    /\ WizardTypeOK
    /\ captures \in Seq(Shots)
    /\ shots \in Seq(Shots)
    /\ IsInjective(shots)
    /\ shooting \subseteq Shots \ ToSet(captures)
    /\ progress \in Nat
    /\ IsFiniteSet(Stored)

WizardInv == WizardTypes /\ ShotsKept /\ ProgressIsStored /\ OncePerAttempt

LEMMA RemoveAtFacts ==
    ASSUME NEW S, NEW s \in Seq(S), IsInjective(s), NEW i \in 1..Len(s)
    PROVE  /\ RemoveAt(s, i) \in Seq(S)
           /\ IsInjective(RemoveAt(s, i))
           /\ ToSet(RemoveAt(s, i)) \subseteq ToSet(s)
<1> DEFINE t == RemoveAt(s, i)
<1>1. /\ SubSeq(s, 1, i - 1) \in Seq(S) /\ Len(SubSeq(s, 1, i - 1)) = i - 1
      /\ SubSeq(s, i + 1, Len(s)) \in Seq(S)
      /\ Len(SubSeq(s, i + 1, Len(s))) = Len(s) - i
      /\ \A j \in 1..(i - 1) : SubSeq(s, 1, i - 1)[j] = s[j]
      /\ \A j \in 1..(Len(s) - i) : SubSeq(s, i + 1, Len(s))[j] = s[i + j]
  OBVIOUS
<1>2. /\ t \in Seq(S) /\ Len(t) = Len(s) - 1
      /\ \A j \in 1..Len(t) : t[j] = IF j < i THEN s[j] ELSE s[j + 1]
  <2> DEFINE left == SubSeq(s, 1, i - 1)
             right == SubSeq(s, i + 1, Len(s))
  <2>1. t = left \o right
    BY DEF RemoveAt
  <2>2. /\ left \in Seq(S) /\ right \in Seq(S)
        /\ Len(left) = i - 1 /\ Len(right) = Len(s) - i
        /\ \A j \in 1..(i - 1) : left[j] = s[j]
        /\ \A j \in 1..(Len(s) - i) : right[j] = s[i + j]
    BY <1>1
  <2> HIDE DEF left, right, t
  <2>3. /\ t \in Seq(S) /\ Len(t) = Len(left) + Len(right)
        /\ \A j \in 1..Len(t) :
               t[j] = IF j <= Len(left) THEN left[j] ELSE right[j - Len(left)]
    <3>1. left \in Seq(S) /\ right \in Seq(S)
      BY <2>2
    <3> QED BY <2>1, <3>1
  <2>4. /\ i \in Nat /\ Len(s) \in Nat /\ Len(t) = Len(s) - 1
    BY <2>2, <2>3
  <2>5. ASSUME NEW j \in 1..Len(t) PROVE t[j] = IF j < i THEN s[j] ELSE s[j + 1]
    <3>1. CASE j < i
      BY <2>2, <2>3, <2>4, <3>1
    <3>2. CASE ~(j < i)
      <4>1. j - (i - 1) \in 1..(Len(s) - i) /\ i + (j - (i - 1)) = j + 1
        BY <2>4, <3>2
      <4> QED BY <2>2, <2>3, <2>4, <3>2, <4>1
    <3> QED BY <3>1, <3>2
  <2> QED BY <2>3, <2>4, <2>5
<1>4. DOMAIN t = 1..Len(t) /\ DOMAIN s = 1..Len(s)
  BY <1>2
<1>5. ToSet(t) \subseteq ToSet(s)
  <2> SUFFICES ASSUME NEW j \in 1..Len(t) PROVE \E k \in 1..Len(s) : t[j] = s[k]
    BY <1>4 DEF ToSet
  <2> QED BY <1>2
<1>6. IsInjective(t)
  <2> SUFFICES ASSUME NEW j \in 1..Len(t), NEW k \in 1..Len(t), t[j] = t[k]
               PROVE  j = k
    BY <1>4 DEF IsInjective
  <2>1. \A a, b \in 1..Len(s) : s[a] = s[b] => a = b
    BY <1>4 DEF IsInjective
  <2> QED BY <1>2, <2>1
<1> QED BY <1>2, <1>5, <1>6

LEMMA AppendFacts ==
    ASSUME NEW S, NEW s \in Seq(S), IsInjective(s), NEW e \in S, e \notin ToSet(s)
    PROVE  /\ Append(s, e) \in Seq(S)
           /\ IsInjective(Append(s, e))
           /\ Len(Append(s, e)) = Len(s) + 1
           /\ \A i \in 1..Len(s) : Append(s, e)[i] = s[i]
           /\ ToSet(Append(s, e)) = ToSet(s) \cup {e}
<1> DEFINE t == Append(s, e)
<1>1. /\ t \in Seq(S) /\ Len(t) = Len(s) + 1
      /\ \A i \in 1..Len(s) : t[i] = s[i]
      /\ t[Len(s) + 1] = e
      /\ DOMAIN t = 1..(Len(s) + 1) /\ DOMAIN s = 1..Len(s)
  OBVIOUS
<1>2. \A i \in 1..Len(s) : s[i] # e
  BY <1>1 DEF ToSet
<1>3. IsInjective(t)
  BY <1>1, <1>2 DEF IsInjective
<1>4. ToSet(t) = ToSet(s) \cup {e}
  <2> HIDE DEF t
  <2> QED BY <1>1 DEF ToSet
<1> QED BY <1>1, <1>3, <1>4

\* What one request more stores.
LEMMA PostedFacts ==
    ASSUME WizardInv, uploading, ~Uploaded
    PROVE  /\ progress + 1 \in 1..Len(shots)
           /\ Posted \in [Shots -> Nat]
           /\ Posted[shots[progress + 1]] > 0
           /\ \A s \in Shots : rowsOf[s] <= Posted[s] /\ Posted[s] <= attempts
           /\ \A i \in (progress + 2)..Len(shots) : Posted[shots[i]] < attempts
           /\ IsFiniteSet({s \in Shots : Posted[s] > 0})
<1> DEFINE x == shots[progress + 1]
<1>1. /\ progress + 1 \in 1..Len(shots) /\ Len(shots) \in Nat
      /\ rowsOf \in [Shots -> Nat] /\ attempts \in Nat
  BY WizardAssumption DEF WizardInv, WizardTypes, WizardTypeOK, Uploaded
<1>2. x \in Shots /\ \A i \in 1..Len(shots) : shots[i] \in Shots
  BY <1>1 DEF WizardInv, WizardTypes
<1>3. /\ Posted \in [Shots -> Nat]
      /\ Posted[x] = rowsOf[x] + 1
      /\ \A s \in Shots : s # x => Posted[s] = rowsOf[s]
  BY <1>1, <1>2 DEF Posted
<1>4. /\ \A s \in Shots : rowsOf[s] <= attempts
      /\ \A i \in (progress + 1)..Len(shots) : rowsOf[shots[i]] < attempts
  BY DEF WizardInv, OncePerAttempt
<1>5. rowsOf[x] < attempts
  BY <1>1, <1>4
<1>6. \A s \in Shots : rowsOf[s] \in Nat /\ Posted[s] \in Nat
  BY <1>1, <1>3
<1>7. \A i \in (progress + 2)..Len(shots) : Posted[shots[i]] < attempts
  <2> SUFFICES ASSUME NEW i \in (progress + 2)..Len(shots)
               PROVE  Posted[shots[i]] < attempts
    OBVIOUS
  <2>1. /\ i \in 1..Len(shots) /\ i # progress + 1 /\ i \in (progress + 1)..Len(shots)
        /\ DOMAIN shots = 1..Len(shots)
    BY <1>1 DEF WizardInv, WizardTypes
  <2>2. shots[i] # x
    BY <1>1, <2>1 DEF WizardInv, WizardTypes, IsInjective
  <2> QED BY <1>2, <1>3, <1>4, <2>1, <2>2
<1>8. {s \in Shots : Posted[s] > 0} = Stored \cup {x}
  BY <1>2, <1>3, <1>6 DEF Stored
<1>9. IsFiniteSet(Stored \cup {x})
  BY FS_AddElement DEF WizardInv, WizardTypes
<1>10. Posted[x] > 0 /\ Posted[x] <= attempts
  BY <1>1, <1>2, <1>3, <1>5, <1>6
<1>11. \A s \in Shots : rowsOf[s] <= Posted[s] /\ Posted[s] <= attempts
  BY <1>2, <1>3, <1>4, <1>6, <1>10
<1>12. IsFiniteSet({s \in Shots : Posted[s] > 0})
  BY <1>8, <1>9
<1> HIDE DEF x
<1> QED BY <1>1, <1>3, <1>7, <1>10, <1>11, <1>12 DEF x

LEMMA WizardStart == WizardInit => WizardInv
<1> SUFFICES ASSUME WizardInit PROVE WizardInv
  OBVIOUS
<1>1. captures = <<>> /\ shots = <<>> /\ Len(shots) = 0 /\ DOMAIN captures = {}
  BY DEF WizardInit
<1>2. ToSet(captures) = {} /\ IsInjective(captures) /\ IsInjective(shots)
  BY <1>1 DEF ToSet, IsInjective
<1>3. Stored = {}
  BY DEF WizardInit, Stored
<1>4. IsFiniteSet(Stored)
  BY <1>3, FS_EmptySet
<1>5. WizardTypeOK
  <2>1. processing <=> shooting # {}
    BY Zenon DEF WizardInit
  <2>2. rowsOf \in [Shots -> Nat] /\ attempts \in 0..MaxAttempts
    BY WizardAssumption DEF WizardInit
  <2>3. /\ uploading \in BOOLEAN /\ wizard \in {"open", "completed", "cancelled"}
        /\ progress = 0
    BY DEF WizardInit
  <2>4. ToSet(captures) \subseteq Shots /\ progress <= Len(shots)
    BY <1>1, <1>2, <2>3
  <2> QED BY <1>2, <2>1, <2>2, <2>3, <2>4, Zenon DEF WizardTypeOK
<1>6. WizardTypes
  BY <1>1, <1>2, <1>4, <1>5 DEF WizardInit, WizardTypes
<1> QED BY <1>6 DEF WizardInit, WizardInv, ShotsKept, ProgressIsStored, OncePerAttempt

LEMMA WizardStep == WizardInv /\ [WizardNext]_wizardVars => WizardInv'
<1> SUFFICES ASSUME WizardInv, [WizardNext]_wizardVars PROVE WizardInv'
  OBVIOUS
<1>t. /\ WizardTypes /\ WizardTypeOK /\ ShotsKept /\ ProgressIsStored /\ OncePerAttempt
      /\ captures \in Seq(Shots) /\ shots \in Seq(Shots)
      /\ rowsOf \in [Shots -> Nat] /\ attempts \in Nat /\ progress \in Nat
      /\ Len(shots) \in Nat /\ Len(captures) \in Nat
  BY WizardAssumption DEF WizardInv, WizardTypes, WizardTypeOK
<1>1. ASSUME NEW s \in Shots, Capture(s) PROVE WizardInv'
  <2>1. /\ ~uploading /\ wizard = "open" /\ s \notin ToSet(captures)
        /\ processing' = TRUE /\ shooting' = {s}
        /\ UNCHANGED <<captures, uploading, shots, progress, wizard, reported, attempts,
                       rowsOf>>
    BY <1>1 DEF Capture
  <2> QED BY <1>t, <2>1
          DEF WizardInv, WizardTypes, WizardTypeOK, ShotsKept, ProgressIsStored,
              OncePerAttempt, Stored
<1>2. ASSUME Captured PROVE WizardInv'
  <2>1. /\ processing /\ processing' = FALSE /\ shooting' = {}
        /\ UNCHANGED <<uploading, shots, progress, wizard, reported, attempts, rowsOf>>
    BY <1>2 DEF Captured
  <2>2. Stored' = Stored /\ ProgressIsStored' /\ OncePerAttempt'
    BY <1>t, <2>1 DEF Stored, ProgressIsStored, OncePerAttempt
  <2>3. CASE UNCHANGED captures
    BY <1>t, <2>1, <2>2, <2>3 DEF WizardInv, WizardTypes, WizardTypeOK, ShotsKept
  <2>4. CASE \E s \in shooting : captures' = Append(captures, s)
    <3>1. PICK s \in shooting : captures' = Append(captures, s)
      BY <2>4
    <3>2. s \in Shots /\ s \notin ToSet(captures) /\ IsInjective(captures)
      BY <1>t DEF WizardTypes, WizardTypeOK
    <3>3. /\ captures' \in Seq(Shots)
          /\ IsInjective(captures')
          /\ Len(captures') = Len(captures) + 1
          /\ \A i \in 1..Len(captures) : captures'[i] = captures[i]
          /\ ToSet(captures') = ToSet(captures) \cup {s}
      BY <1>t, <3>1, <3>2, AppendFacts
    <3>4. WizardTypes'
      BY <1>t, <2>1, <2>2, <3>2, <3>3 DEF WizardTypes, WizardTypeOK
    <3>5. ShotsKept'
      <4> SUFFICES ASSUME uploading \/ wizard = "completed"
                   PROVE  /\ Len(shots) <= Len(captures')
                          /\ Len(captures') <= Len(shots) + 1
                          /\ \A i \in 1..Len(shots) : captures'[i] = shots[i]
        BY <2>1 DEF ShotsKept
      <4>1. Len(captures) = Len(shots) /\ \A i \in 1..Len(shots) : captures[i] = shots[i]
        BY <1>t, <2>1 DEF ShotsKept
      <4> QED BY <1>t, <3>3, <4>1
    <3> QED BY <2>2, <3>4, <3>5 DEF WizardInv
  <2> QED BY <1>2, <2>3, <2>4 DEF Captured
<1>3. ASSUME NEW i \in DOMAIN captures, RemoveCapture(i) PROVE WizardInv'
  <2>1. /\ ~uploading /\ wizard = "open" /\ captures' = RemoveAt(captures, i)
        /\ UNCHANGED <<processing, shooting, uploading, shots, progress, wizard, reported,
                       attempts, rowsOf>>
    BY <1>3 DEF RemoveCapture
  <2>2. i \in 1..Len(captures) /\ IsInjective(captures)
    BY <1>t DEF WizardTypeOK
  <2>3. /\ captures' \in Seq(Shots) /\ IsInjective(captures')
        /\ ToSet(captures') \subseteq ToSet(captures)
    BY <1>t, <2>1, <2>2, RemoveAtFacts
  <2>4. WizardTypes'
    BY <1>t, <2>1, <2>3 DEF WizardTypes, WizardTypeOK, Stored
  <2> QED BY <1>t, <2>1, <2>4
          DEF WizardInv, ShotsKept, ProgressIsStored, OncePerAttempt, Stored
<1>4. ASSUME Submit PROVE WizardInv'
  <2>1. /\ wizard = "open" /\ ~uploading /\ attempts < MaxAttempts
        /\ attempts' = attempts + 1 /\ uploading' = TRUE /\ shots' = captures
        /\ progress' = 0
        /\ UNCHANGED <<captures, processing, shooting, wizard, reported, rowsOf>>
    BY <1>4 DEF Submit
  <2>2. attempts' \in 0..MaxAttempts
    BY <2>1, <1>t, WizardAssumption
  <2>3. WizardTypes'
    BY <1>t, <2>1, <2>2 DEF WizardTypes, WizardTypeOK, Stored
  <2>4. ShotsKept' /\ ProgressIsStored'
    BY <1>t, <2>1 DEF ShotsKept, ProgressIsStored
  <2>5. \A s \in Shots : rowsOf[s] < attempts + 1
    BY <1>t DEF OncePerAttempt
  <2>6. \A j \in 1..Len(captures) : captures[j] \in Shots
    BY <1>t
  <2>7. OncePerAttempt'
    BY <1>t, <2>1, <2>5, <2>6 DEF OncePerAttempt
  <2> QED BY <2>3, <2>4, <2>7 DEF WizardInv
<1>5. ASSUME UploadSucceeds PROVE WizardInv'
  <2>1. /\ uploading /\ ~Uploaded /\ progress' = progress + 1 /\ rowsOf' = Posted
        /\ UNCHANGED <<captures, processing, shooting, uploading, shots, wizard, reported,
                       attempts>>
    BY <1>5 DEF UploadSucceeds
  <2>2. /\ progress + 1 \in 1..Len(shots)
        /\ Posted \in [Shots -> Nat]
        /\ Posted[shots[progress + 1]] > 0
        /\ \A s \in Shots : rowsOf[s] <= Posted[s] /\ Posted[s] <= attempts
        /\ \A i \in (progress + 2)..Len(shots) : Posted[shots[i]] < attempts
        /\ IsFiniteSet({s \in Shots : Posted[s] > 0})
    BY <2>1, PostedFacts
  <2>3. /\ Stored' = {s \in Shots : Posted[s] > 0} /\ IsFiniteSet(Stored')
    BY <2>1, <2>2 DEF Stored
  <2>4. WizardTypes'
    <3>1. progress' \in Nat /\ progress' <= Len(shots')
      BY <2>1, <2>2
    <3>2. WizardTypeOK'
      BY <1>t, <2>1, <2>2, <3>1 DEF WizardTypes, WizardTypeOK
    <3> QED BY <1>t, <2>1, <2>3, <3>1, <3>2 DEF WizardTypes
  <2>5. ShotsKept'
    BY <1>t, <2>1 DEF ShotsKept
  <2>6. ProgressIsStored'
    <3>1. \A i \in 1..Len(shots) : shots[i] \in Shots
      BY <1>t
    <3>2. \A s \in Shots : s \in Stored => s \in Stored'
      BY <1>t, <2>2, <2>3 DEF Stored
    <3>3. wizard = "open" /\ \A i \in 1..progress : shots[i] \in Stored
      BY <1>t, <2>1 DEF ProgressIsStored
    <3>4. \A i \in 1..(progress + 1) : shots[i] \in Stored'
      BY <1>t, <2>2, <2>3, <3>1, <3>2, <3>3
    <3> QED BY <2>1, <3>3, <3>4 DEF ProgressIsStored
  <2>7. OncePerAttempt'
    BY <1>t, <2>1, <2>2 DEF OncePerAttempt
  <2> QED BY <2>4, <2>5, <2>6, <2>7 DEF WizardInv
<1>6. ASSUME UploadFails PROVE WizardInv'
  <2>1. /\ uploading /\ ~Uploaded /\ uploading' = FALSE
        /\ rowsOf' = rowsOf \/ rowsOf' = Posted
        /\ UNCHANGED <<captures, processing, shooting, shots, progress, wizard, reported,
                       attempts>>
    BY <1>6 DEF UploadFails
  <2>2. /\ Posted \in [Shots -> Nat]
        /\ \A s \in Shots : Posted[s] <= attempts
        /\ IsFiniteSet({s \in Shots : Posted[s] > 0})
    BY <2>1, PostedFacts
  <2>3. /\ rowsOf' \in [Shots -> Nat]
        /\ \A s \in Shots : rowsOf'[s] <= attempts
        /\ IsFiniteSet(Stored')
    BY <1>t, <2>1, <2>2 DEF OncePerAttempt, Stored, WizardTypes
  <2>4. wizard = "open"
    BY <1>t, <2>1 DEF ProgressIsStored
  <2>5. WizardTypes'
    BY <1>t, <2>1, <2>3 DEF WizardTypes, WizardTypeOK
  <2> QED BY <2>1, <2>3, <2>4, <2>5
          DEF WizardInv, ShotsKept, ProgressIsStored, OncePerAttempt
<1>7. ASSUME Complete PROVE WizardInv'
  <2>1. /\ uploading /\ progress = Len(shots) /\ uploading' = FALSE
        /\ wizard' = "completed" /\ reported' = Len(shots)
        /\ UNCHANGED <<captures, processing, shooting, shots, progress, attempts, rowsOf>>
    BY <1>7 DEF Complete, Uploaded
  <2>2. WizardTypes'
    BY <1>t, <2>1 DEF WizardTypes, WizardTypeOK, Stored
  <2> QED BY <1>t, <2>1, <2>2
          DEF WizardInv, ShotsKept, ProgressIsStored, OncePerAttempt, Stored
<1>8. ASSUME Cancel PROVE WizardInv'
  <2>1. /\ wizard = "open" /\ ~uploading /\ wizard' = "cancelled"
        /\ UNCHANGED <<captures, processing, shooting, uploading, shots, progress,
                       reported, attempts, rowsOf>>
    BY <1>8 DEF Cancel
  <2> QED BY <1>t, <2>1
          DEF WizardInv, WizardTypes, WizardTypeOK, ShotsKept, ProgressIsStored,
              OncePerAttempt, Stored
<1>9. ASSUME UNCHANGED wizardVars PROVE WizardInv'
  BY <1>t, <1>9
     DEF wizardVars, WizardInv, WizardTypes, WizardTypeOK, ShotsKept, ProgressIsStored,
         OncePerAttempt, Stored
<1> QED BY <1>1, <1>2, <1>3, <1>4, <1>5, <1>6, <1>7, <1>8, <1>9 DEF WizardNext

\* As many captures are stored as the wizard reports.
LEMMA ReportedAreDistinct ==
    ASSUME WizardInv, wizard = "completed"
    PROVE  reported <= Cardinality(Stored)
<1>1. /\ Len(shots) \in Nat /\ shots \in [1..Len(shots) -> Shots]
      /\ IsInjective(shots) /\ IsFiniteSet(Stored)
      /\ reported = Len(shots) /\ \A i \in 1..Len(shots) : shots[i] \in Stored
  BY DEF WizardInv, WizardTypes, ProgressIsStored
<1>2. shots \in Injection(1..Len(shots), Stored)
  <2>1. shots \in [1..Len(shots) -> Stored]
    BY <1>1
  <2> QED BY <1>1, <2>1 DEF Injection, IsInjective
<1>3. Cardinality(1..Len(shots)) <= Cardinality(Stored)
  BY <1>1, <1>2, FS_Injection
<1>4. Cardinality(1..Len(shots)) = Len(shots)
  <2>1. 1 \in Int /\ Len(shots) \in Int /\ Len(shots) >= 0
    BY <1>1
  <2>2. Cardinality(1..Len(shots)) = IF 1 > Len(shots) THEN 0 ELSE Len(shots) - 1 + 1
    BY <2>1, FS_Interval
  <2> QED BY <2>1, <2>2
<1> QED BY <1>1, <1>3, <1>4

\* UploadsAddUp for any number of captures and attempts: what the wizard
\* reports as stored is stored, whatever failed on the way, and no capture is
\* stored more often than an attempt has sent it.
THEOREM WizardUploadsAddUp == WizardSpec => []UploadsAddUp
<1>1. WizardInv => UploadsAddUp
  <2> SUFFICES ASSUME WizardInv PROVE ReportedAreStored
    BY DEF UploadsAddUp, WizardInv
  <2> SUFFICES ASSUME wizard = "completed"
               PROVE  /\ reported <= Cardinality(Stored)
                      /\ \A i \in DOMAIN captures :
                             i <= reported => rowsOf[captures[i]] > 0
                      /\ Len(captures) <= reported + 1
    BY DEF ReportedAreStored, Stored
  <2>1. reported <= Cardinality(Stored)
    BY ReportedAreDistinct
  <2>2. /\ reported = Len(shots) /\ Len(captures) <= Len(shots) + 1
        /\ \A i \in 1..Len(shots) : captures[i] = shots[i] /\ shots[i] \in Stored
        /\ DOMAIN captures = 1..Len(captures)
    BY DEF WizardInv, WizardTypes, ShotsKept, ProgressIsStored
  <2>3. Len(shots) \in Nat /\ Len(captures) \in Nat
    BY DEF WizardInv, WizardTypes
  <2> QED BY <2>1, <2>2, <2>3 DEF Stored
<1> QED BY <1>1, WizardStart, WizardStep, PTL DEF WizardSpec

-----------------------------------------------------------------------------
(* Enrollment: how far the two writers of the table diverge.               *)

LEMMA NaturalsAreWellFounded ==
    IsWellFoundedOn({pair \in Nat \X Nat : pair[1] < pair[2]}, Nat)
<1>1. OpToRel(<, Nat) = {pair \in Nat \X Nat : pair[1] < pair[2]}
  BY DEF OpToRel
<1> QED BY <1>1, NatLessThanWellFounded

\* Max of the community module is what its name says.
LEMMA MaxIsGreatest ==
    ASSUME NEW n \in Nat, NEW S \in SUBSET (1..n), S # {}
    PROVE  Max(S) \in S /\ \A y \in S : y <= Max(S)
<1> DEFINE Below == {pair \in Nat \X Nat : pair[1] < pair[2]}
           Complements == {n - i : i \in S}
<1>1. \A i \in S : n - i \in Nat
  OBVIOUS
<1>2. Complements \subseteq Nat /\ Complements # {}
  BY <1>1
<1>3. \E x \in Complements : \A y \in Complements : <<y, x>> \notin Below
  <2> HIDE DEF Complements
  <2> QED BY <1>2, NaturalsAreWellFounded, WFMin
<1>4. PICK i \in S : \A j \in S : <<n - j, n - i>> \notin Below
  BY <1>3
<1>5. \A j \in S : ~(n - j < n - i)
  BY <1>1, <1>4
<1>6. \A j \in S : i >= j
  BY <1>5
<1> QED BY <1>6 DEF Max

\* The rowid SQLite gives is free.
LEMMA NextIdIsFree ==
    ASSUME EnrollmentTypeOK
    PROVE  NextId \in Nat \ {0} /\ NextId \notin Used
<1>1. CASE Used = {}
  BY <1>1 DEF NextId
<1>2. CASE Used # {}
  <2>1. Used \in SUBSET (1..MaxId) /\ MaxId \in Nat
    BY EnrollmentAssumption DEF Used, RowIds
  <2>2. Max(Used) \in Used /\ \A y \in Used : y <= Max(Used)
    BY <1>2, <2>1, MaxIsGreatest
  <2>3. Max(Used) \in Nat \ {0} /\ NextId = Max(Used) + 1
    <3>1. Max(Used) \in 1..MaxId
      BY <2>1, <2>2
    <3>2. \A k \in 1..MaxId : k \in Nat \ {0}
      BY <2>1
    <3>3. NextId = Max(Used) + 1
      BY <1>2 DEF NextId
    <3> QED BY <3>1, <3>2, <3>3
  <2>4. NextId \notin Used
    <3> SUFFICES ASSUME NextId \in Used PROVE FALSE
      OBVIOUS
    <3>1. NextId <= Max(Used)
      BY <2>2
    <3> QED BY <2>3, <3>1
  <2> QED BY <2>3, <2>4
<1> QED BY <1>1, <1>2

\* The row in hand is in the table unless the enrolment program has touched it
\* since, which is then recorded.
EnrollmentInv ==
    /\ EnrollmentTypeOK
    /\ TwoWritersApart
    /\ enroll # "none" => employee \in Staff
    /\ syncing.id \in RowIds \ touched => table[syncing.id] = syncing.row

LEMMA InsertedIsFinite ==
    ASSUME EnrollmentTypeOK
    PROVE  /\ IsFiniteSet(inserted) /\ Cardinality(inserted) \in Nat
           /\ captured \in Nat /\ replaced \in Nat /\ Photos \in Nat
<1>1. MaxId \in Nat /\ inserted \in SUBSET (1..MaxId)
  BY EnrollmentAssumption DEF EnrollmentTypeOK, RowIds
<1>2. 1 \in Int /\ MaxId \in Int
  BY <1>1
<1>3. IsFiniteSet(1..MaxId)
  BY <1>2, FS_Interval
<1>4. IsFiniteSet(inserted)
  BY <1>1, <1>3, FS_Subset
<1> QED BY <1>4, FS_CardinalityType, EnrollmentAssumption DEF EnrollmentTypeOK

\* The cardinalities when facegate takes a row of the enrolment.
LEMMA TakenIsCounted ==
    ASSUME EnrollmentInv, NEW i, Take(i)
    PROVE  /\ Cardinality(inserted') + replaced' = captured
           /\ replaced' \in 0..Photos
           /\ inserted' \subseteq inserted /\ i \notin inserted'
<1>1. /\ IsFiniteSet(inserted) /\ Cardinality(inserted) \in Nat
      /\ captured \in Nat /\ captured <= Photos /\ replaced \in Nat /\ Photos \in Nat
      /\ Cardinality(inserted) + replaced = captured
  BY InsertedIsFinite
     DEF EnrollmentInv, EnrollmentTypeOK, TwoWritersApart, SavedUnlessReplaced
<1>2. /\ inserted' = inserted \ {i}
      /\ replaced' = IF i \in inserted THEN replaced + 1 ELSE replaced
  BY DEF Take
<1>3. /\ IsFiniteSet(inserted')
      /\ Cardinality(inserted') = IF i \in inserted THEN Cardinality(inserted) - 1
                                  ELSE Cardinality(inserted)
  BY <1>1, <1>2, FS_RemoveElement
<1>4. PICK n \in Nat : Cardinality(inserted') = n
  BY <1>3, FS_CardinalityType
<1>5. PICK k \in Nat : replaced' = k
  BY <1>1, <1>2
<1> QED BY <1>1, <1>2, <1>3, <1>4, <1>5

LEMMA EnrollmentStart == EnrollmentInit => EnrollmentInv
<1> SUFFICES ASSUME EnrollmentInit PROVE EnrollmentInv
  OBVIOUS
<1>1. Cardinality({}) = 0
  BY FS_EmptySet
<1>2. Photos \in Nat
  BY EnrollmentAssumption
<1>3. EnrollmentTypeOK
  <2>1. NoRow \in Row
    BY DEF Row
  <2>2. [i \in RowIds |-> NoRow] \in [RowIds -> Row]
    BY <2>1
  <2>3. assigned \in [1..MaxSynced -> Staff \cup {Nobody}]
    BY DEF EnrollmentInit
  <2>4. captured \in 0..Photos /\ replaced \in 0..Photos
    BY <1>2 DEF EnrollmentInit
  <2>5. daemon = FALSE /\ cache = [i \in RowIds |-> NoRow] /\ table = cache
    BY DEF EnrollmentInit
  <2>6. /\ enroll \in {"none", "open", "capture", "done"}
        /\ employee \in Staff \cup {Nobody}
        /\ inserted \subseteq RowIds /\ touched \subseteq RowIds
    BY DEF EnrollmentInit
  <2>7. syncing = Nothing /\ Nothing \in [id : 0..MaxSynced, row : Row]
    BY <2>1, EnrollmentAssumption DEF EnrollmentInit, Nothing
  <2> QED BY <2>2, <2>3, <2>4, <2>5, <2>6, <2>7 DEF EnrollmentTypeOK
<1>4. CacheFollowsTable
  BY DEF EnrollmentInit, CacheFollowsTable
<1>5. SavedUnlessReplaced
  BY <1>1 DEF EnrollmentInit, SavedUnlessReplaced
<1>6. syncing.id \notin RowIds
  BY EnrollmentAssumption DEF EnrollmentInit, Nothing, RowIds
<1> QED BY <1>3, <1>4, <1>5, <1>6 DEF EnrollmentInv, TwoWritersApart, EnrollmentInit

LEMMA EnrollmentStep == EnrollmentInv /\ [EnrollmentNext]_enrollmentVars => EnrollmentInv'
<1> SUFFICES ASSUME EnrollmentInv, [EnrollmentNext]_enrollmentVars PROVE EnrollmentInv'
  OBVIOUS
<1>t. /\ EnrollmentTypeOK /\ CacheFollowsTable /\ SavedUnlessReplaced
      /\ table \in [RowIds -> Row] /\ cache \in [RowIds -> Row]
      /\ MaxId \in Nat /\ MaxSynced \in Nat /\ MaxSynced <= MaxId
      /\ Photos \in Nat /\ Nobody \notin Staff /\ NoRow \in Row
      /\ captured \in 0..Photos
      /\ Cardinality({}) = 0
  BY EnrollmentAssumption, FS_EmptySet
     DEF EnrollmentInv, TwoWritersApart, EnrollmentTypeOK, Row
<1>n. Nothing.id \notin RowIds /\ Nothing \in [id : 0..MaxSynced, row : Row]
  BY <1>t DEF Nothing, RowIds
<1>h. syncing.id \in RowIds \ touched => table[syncing.id] = syncing.row
  BY DEF EnrollmentInv
<1>1. ASSUME NEW e \in Staff, NEW append \in BOOLEAN, EnrollStarts(e, append)
      PROVE  EnrollmentInv'
  <2>1. /\ enroll' = "open" /\ employee' = e /\ captured' = 0 /\ inserted' = {}
        /\ replaced' = 0 /\ UNCHANGED <<cache, daemon, syncing, assigned>>
    BY <1>1 DEF EnrollStarts
  <2>2. SavedUnlessReplaced'
    BY <2>1, <1>t DEF SavedUnlessReplaced
  <2>3. Of(e) \subseteq RowIds
    BY DEF Of
  <2>4. /\ table' \in [RowIds -> Row]
        /\ touched \subseteq touched' /\ touched' \subseteq RowIds
        /\ \A i \in RowIds \ touched' : table'[i] = table[i]
    BY <1>1, <1>t, <2>3 DEF EnrollStarts, EnrollmentTypeOK
  <2>5. CacheFollowsTable'
    BY <1>t, <2>1, <2>4 DEF CacheFollowsTable
  <2>6. EnrollmentTypeOK'
    BY <1>t, <2>1, <2>4 DEF EnrollmentTypeOK
  <2>7. syncing'.id \in RowIds \ touched' => table'[syncing'.id] = syncing'.row
    BY <1>h, <2>1, <2>4
  <2> QED BY <2>1, <2>2, <2>5, <2>6, <2>7 DEF EnrollmentInv, TwoWritersApart
<1>2. ASSUME EnrollOpens PROVE EnrollmentInv'
  BY <1>t, <1>2
     DEF EnrollOpens, EnrollmentInv, TwoWritersApart, EnrollmentTypeOK, CacheFollowsTable,
         SavedUnlessReplaced
<1>3. ASSUME EnrollEnds PROVE EnrollmentInv'
  BY <1>t, <1>3
     DEF EnrollEnds, EnrollmentInv, TwoWritersApart, EnrollmentTypeOK, CacheFollowsTable,
         SavedUnlessReplaced
<1>4. ASSUME Insert PROVE EnrollmentInv'
  <2> DEFINE new == [owner |-> employee, by |-> "enroll"]
  <2>1. /\ enroll = "capture" /\ captured < Photos /\ NextId <= MaxId
        /\ captured' = captured + 1
        /\ table' = [table EXCEPT ![NextId] = new]
        /\ inserted' = inserted \cup {NextId}
        /\ touched' = touched \cup {NextId}
        /\ UNCHANGED <<cache, daemon, syncing, enroll, employee, assigned, replaced>>
    BY <1>4 DEF Insert, More
  <2>2. /\ employee \in Staff /\ new # NoRow /\ new \in Row
        /\ NextId \in RowIds /\ NextId \notin Used
    <3>1. employee \in Staff
      BY <2>1 DEF EnrollmentInv
    <3>2. new.owner # NoRow.owner
      BY <1>t, <3>1 DEF NoRow
    <3>3. new \in Row
      BY <3>1 DEF Row
    <3>4. NextId \in RowIds /\ NextId \notin Used
      BY <1>t, <2>1, NextIdIsFree DEF RowIds
    <3> QED BY <3>1, <3>2, <3>3, <3>4
  <2>3. inserted \subseteq Used
    BY <1>t, <2>2 DEF SavedUnlessReplaced, Used, EnrollmentTypeOK
  <2>4. /\ table' \in [RowIds -> Row]
        /\ table'[NextId] = new
        /\ \A i \in RowIds : i # NextId => table'[i] = table[i]
    BY <1>t, <2>1, <2>2
  <2>5. Cardinality(inserted') = Cardinality(inserted) + 1
    BY <2>1, <2>2, <2>3, <1>t, InsertedIsFinite, FS_AddElement
  <2>6. Cardinality(inserted') + replaced' = captured'
    BY <1>t, <2>1, <2>5, InsertedIsFinite DEF SavedUnlessReplaced
  <2>7. SavedUnlessReplaced'
    BY <1>t, <2>1, <2>2, <2>4, <2>6 DEF SavedUnlessReplaced, EnrollmentTypeOK
  <2>8. CacheFollowsTable'
    BY <1>t, <2>1, <2>4 DEF CacheFollowsTable
  <2>9. captured' \in 0..Photos
    BY <1>t, <2>1
  <2>10. EnrollmentTypeOK'
    BY <1>t, <2>1, <2>2, <2>4, <2>9 DEF EnrollmentTypeOK
  <2>11. syncing'.id \in RowIds \ touched' => table'[syncing'.id] = syncing'.row
    BY <1>h, <2>1, <2>4
  <2> QED BY <2>1, <2>2, <2>7, <2>8, <2>10, <2>11 DEF EnrollmentInv, TwoWritersApart
<1>5. ASSUME EnrollDone PROVE EnrollmentInv'
  BY <1>t, <1>5
     DEF EnrollDone, EnrollmentInv, TwoWritersApart, EnrollmentTypeOK, CacheFollowsTable,
         SavedUnlessReplaced
<1>6. ASSUME DaemonStarts PROVE EnrollmentInv'
  <2>1. /\ daemon' = TRUE /\ cache' = table /\ touched' = {}
        /\ UNCHANGED <<table, syncing, enroll, employee, captured, assigned, inserted,
                       replaced>>
    BY <1>6 DEF DaemonStarts
  <2>2. syncing'.id \notin RowIds
    BY <1>6, <1>t, <1>n, <2>1 DEF DaemonStarts, EnrollmentTypeOK
  <2>3. EnrollmentTypeOK'
    BY <1>t, <2>1 DEF EnrollmentTypeOK
  <2>4. CacheFollowsTable' /\ SavedUnlessReplaced'
    BY <1>t, <2>1 DEF CacheFollowsTable, SavedUnlessReplaced
  <2> QED BY <2>1, <2>2, <2>3, <2>4 DEF EnrollmentInv, TwoWritersApart
<1>7. ASSUME DaemonStops PROVE EnrollmentInv'
  <2>1. /\ daemon' = FALSE /\ cache' = [i \in RowIds |-> NoRow] /\ syncing' = Nothing
        /\ UNCHANGED <<table, enroll, employee, captured, assigned, inserted, replaced,
                       touched>>
    BY <1>7 DEF DaemonStops
  <2>2. cache' \in [RowIds -> Row]
    BY <1>t, <2>1
  <2>3. EnrollmentTypeOK'
    BY <1>t, <1>n, <2>1, <2>2 DEF EnrollmentTypeOK
  <2>4. CacheFollowsTable' /\ SavedUnlessReplaced'
    BY <1>t, <2>1 DEF CacheFollowsTable, SavedUnlessReplaced
  <2> QED BY <1>n, <2>1, <2>3, <2>4 DEF EnrollmentInv, TwoWritersApart
<1>8. ASSUME NEW e \in Staff, Assign(e) PROVE EnrollmentInv'
  <2>1. UNCHANGED <<table, cache, daemon, syncing, enroll, employee, captured, inserted,
                    replaced, touched>>
    BY <1>8 DEF Assign
  <2>2. assigned' \in [1..MaxSynced -> Staff \cup {Nobody}]
    BY <1>t, <1>8 DEF Assign, EnrollmentTypeOK
  <2> QED BY <1>t, <2>1, <2>2
          DEF EnrollmentInv, TwoWritersApart, EnrollmentTypeOK, CacheFollowsTable,
              SavedUnlessReplaced
<1>9. ASSUME NEW i \in 1..MaxSynced, NEW new \in Row, Store(i, new)
      PROVE  EnrollmentInv'
  <2>1. i \in RowIds /\ i \in 0..MaxSynced
    BY <1>t DEF RowIds
  <2>2. /\ table' \in [RowIds -> Row]
        /\ table'[i] = new
        /\ \A j \in RowIds : j # i => table'[j] = table[j]
    BY <1>t, <1>9, <2>1 DEF Store
  <2>3. /\ Cardinality(inserted') + replaced' = captured
        /\ replaced' \in 0..Photos
        /\ inserted' \subseteq inserted /\ i \notin inserted'
    BY <1>9, TakenIsCounted DEF Store
  <2>4. SavedUnlessReplaced'
    BY <1>t, <1>9, <2>2, <2>3 DEF Store, SavedUnlessReplaced, EnrollmentTypeOK
  <2>5. /\ syncing = Nothing /\ syncing' = [id |-> i, row |-> new]
        /\ touched' = touched \ {i} /\ cache' = cache /\ daemon
    BY <1>9 DEF Store
  <2>6. syncing.id \notin RowIds
    BY <1>n, <2>5
  <2>7. CacheFollowsTable'
    BY <1>t, <2>2, <2>5, <2>6 DEF CacheFollowsTable
  <2>8. EnrollmentTypeOK'
    BY <1>t, <1>9, <2>1, <2>2, <2>3, <2>5 DEF Store, EnrollmentTypeOK
  <2>9. enroll' # "none" => employee' \in Staff
    BY <1>9 DEF Store, EnrollmentInv
  <2> QED BY <2>2, <2>4, <2>5, <2>7, <2>8, <2>9 DEF EnrollmentInv, TwoWritersApart
<1>10. ASSUME NEW i \in 1..MaxSynced, SyncUpsert(i) PROVE EnrollmentInv'
  <2>1. [owner |-> assigned[i], by |-> "sync"] \in Row
    BY <1>t, <1>10 DEF SyncUpsert, Store, EnrollmentTypeOK, Row
  <2> QED BY <1>9, <1>10, <2>1 DEF SyncUpsert
<1>11. ASSUME NEW i \in 1..MaxSynced, SyncRemove(i) PROVE EnrollmentInv'
  BY <1>t, <1>9, <1>11 DEF SyncRemove
<1>13. ASSUME SyncMatcher PROVE EnrollmentInv'
  <2>1. /\ cache' = [cache EXCEPT ![syncing.id] = syncing.row]
        /\ syncing' = Nothing /\ syncing # Nothing
        /\ UNCHANGED <<table, daemon, enroll, employee, captured, assigned, inserted,
                       replaced, touched>>
    BY <1>13 DEF SyncMatcher
  <2>2. syncing.row \in Row /\ daemon
    BY <2>1, <1>t DEF EnrollmentTypeOK
  <2>4. cache' \in [RowIds -> Row]
    BY <1>t, <2>1, <2>2
  <2>5. \A i \in RowIds :
            cache'[i] = IF i = syncing.id THEN syncing.row ELSE cache[i]
    BY <1>t, <2>1
  <2>6. CacheFollowsTable'
    BY <1>t, <2>1, <2>5 DEF CacheFollowsTable, EnrollmentInv
  <2>7. EnrollmentTypeOK'
    BY <1>t, <1>n, <2>1, <2>2, <2>4 DEF EnrollmentTypeOK
  <2>8. SavedUnlessReplaced'
    BY <1>t, <2>1 DEF SavedUnlessReplaced
  <2> QED BY <1>n, <2>1, <2>6, <2>7, <2>8 DEF EnrollmentInv, TwoWritersApart
<1>12. ASSUME UNCHANGED enrollmentVars PROVE EnrollmentInv'
  BY <1>t, <1>12
     DEF enrollmentVars, EnrollmentInv, TwoWritersApart, EnrollmentTypeOK,
         CacheFollowsTable, SavedUnlessReplaced
<1> QED BY <1>1, <1>2, <1>3, <1>4, <1>5, <1>6, <1>7, <1>8, <1>10, <1>11, <1>12,
       <1>13
        DEF EnrollmentNext

\* TwoWritersApart for any table, number of photos, staff and embeddings of
\* the backend: matcher and table differ only in rows the enrolment program
\* wrote or deleted and in the row in hand, and what it reports as saved is there but for rows that
\* facegate has replaced, each of which is counted.
THEOREM WritersDivergeNoFurther == EnrollmentSpec => []TwoWritersApart
<1>1. EnrollmentInv => TwoWritersApart
  BY DEF EnrollmentInv
<1> QED BY <1>1, EnrollmentStart, EnrollmentStep, PTL DEF EnrollmentSpec

-----------------------------------------------------------------------------
(* Analytics: the delay is from the nearest start of the shift.            *)

LEMMA Division ==
    ASSUME NEW x \in Int, NEW d \in Int, d > 0
    PROVE  /\ x % d \in 0..(d - 1)
           /\ x \div d \in Int
           /\ x >= 0 => x \div d \in Nat
           /\ x = (x \div d) * d + (x % d)
<1>1. x % d \in 0..(d - 1) /\ x \div d \in Int
  OBVIOUS
<1>2. x >= 0 => x \div d \in Nat
  OBVIOUS
<1>3. x % d = x - d * (x \div d)
  BY SMT
<1> QED BY <1>1, <1>2, <1>3

LEMMA HalfOf ==
    ASSUME NEW d \in Int, d > 0
    PROVE  d \div 2 \in Nat /\ d % 2 = d - 2 * (d \div 2)
<1>1. d % 2 = d - 2 * (d \div 2)
  BY SMT
<1>2. d \div 2 \in Nat
  BY SMT
<1> QED BY <1>1, <1>2

LEMMA Quotient ==
    ASSUME NEW x \in Int, NEW d \in Int, d > 0, NEW k \in Int,
           0 <= x - d * k, x - d * k < d
    PROVE  x % d = x - d * k
<1>1. x \div d = k
  BY SMT
<1>2. x % d = x - d * (x \div d)
  BY SMT
<1> QED BY <1>1, <1>2

\* A multiple of a number is no smaller than it.
LEMMA Multiples ==
    ASSUME NEW d \in Nat \ {0}, NEW j \in Int
    PROVE  /\ j * d \in Int
           /\ j >= 1 => j * d >= d
           /\ j <= -1 => j * d <= -d
<1>1. j * d \in Int
  OBVIOUS
<1>2. ASSUME j >= 1 PROVE j * d >= d
  BY <1>2, Z3
<1>3. ASSUME j <= -1 PROVE j * d <= -d
  BY <1>3, Z3
<1> QED BY <1>1, <1>2, <1>3

\* The delay, as an entry m seconds into a day and a shift that starts s
\* seconds into it have it: the difference, brought into half a day around 0.
LEMMA DelayIsNear ==
    ASSUME NEW e \in Events, ShiftStart[e.who] \in 0..(Day - 1)
    PROVE  /\ Delay(e) \in Int
           /\ 0 - (Day \div 2) <= Delay(e) /\ Delay(e) < Day \div 2
           /\ \E k \in {-1, 0, 1} :
                  Delay(e) = (e.time % Day) - ShiftStart[e.who] + k * Day
<1> DEFINE m == e.time % Day
           s == ShiftStart[e.who]
           h == Day \div 2
           x == m - s + h + Day
<1>1. Day \in Nat \ {0} /\ Day % 2 = 0 /\ e.time \in Nat
  BY AnalyticsAssumption
<1>2. /\ m \in 0..(Day - 1) /\ s \in 0..(Day - 1) /\ h \in Nat /\ Day = h + h
  <2>0. /\ Day \in Int /\ Day > 0 /\ Day >= 0 /\ 2 \in Int /\ 2 > 0
        /\ e.time \in Int /\ e.time >= 0
    BY <1>1
  <2>1. m \in 0..(Day - 1)
    BY <2>0, Division
  <2>2. h \in Nat /\ Day % 2 = Day - 2 * h
    BY <2>0, HalfOf
  <2>3. s \in 0..(Day - 1)
    OBVIOUS
  <2> HIDE DEF m, s, h
  <2> QED BY <1>1, <2>1, <2>2, <2>3
<1>3. Delay(e) = (x % Day) - h
  <2>1. x >= 0
    BY <1>1, <1>2
  <2> QED BY <2>1 DEF Delay, SqlMod
<1> HIDE DEF m, s, h
<1>4. x \in Int /\ 0 <= x /\ x < 3 * Day
  BY <1>1, <1>2
<1>5. PICK j \in {0, 1, 2} : 0 <= x - j * Day /\ x - j * Day < Day
  BY <1>1, <1>4
<1>6. x % Day = x - j * Day
  <2> HIDE DEF x
  <2>1. Day * j = j * Day /\ 0 <= x - Day * j /\ x - Day * j < Day /\ j \in Int
    BY <1>1, <1>4, <1>5
  <2>2. Day \in Int /\ Day > 0
    BY <1>1
  <2> QED BY <1>4, <2>1, <2>2, Quotient
<1>7. Delay(e) = m - s + (1 - j) * Day
  BY <1>1, <1>2, <1>3, <1>6
<1>8. Delay(e) = x - j * Day - h
  BY <1>1, <1>2, <1>3, <1>6
<1>9. Delay(e) \in Int /\ 0 - h <= Delay(e) /\ Delay(e) < h
  BY <1>1, <1>2, <1>4, <1>5, <1>8
<1>10. 1 - j \in {-1, 0, 1}
  BY <1>5
<1> QED BY <1>7, <1>9, <1>10 DEF m, s, h

LEMMA NearestStart ==
    ASSUME NEW e \in Events, ShiftStart[e.who] \in 0..(Day - 1)
    PROVE  LET starts == {ShiftStart[e.who] + d * Day : d \in -1..(e.time \div Day + 1)}
           IN  /\ e.time - Delay(e) \in starts
               /\ \A s \in starts : Distance(e.time, s) >= Distance(Delay(e), 0)
<1> DEFINE n == e.time \div Day
           m == e.time % Day
           s == ShiftStart[e.who]
           h == Day \div 2
           starts == {s + d * Day : d \in -1..(n + 1)}
<1>1. Day \in Nat \ {0} /\ Day % 2 = 0 /\ e.time \in Nat
  BY AnalyticsAssumption
<1>2. /\ m \in 0..(Day - 1) /\ n \in Nat /\ e.time = n * Day + m
      /\ s \in 0..(Day - 1) /\ h \in Nat /\ Day = h + h
  <2>0. /\ Day \in Int /\ Day > 0 /\ Day >= 0 /\ 2 \in Int /\ 2 > 0
        /\ e.time \in Int /\ e.time >= 0
    BY <1>1
  <2>1. m \in 0..(Day - 1) /\ n \in Nat /\ e.time = n * Day + m
    BY <2>0, Division
  <2>2. h \in Nat /\ Day % 2 = Day - 2 * h
    BY <2>0, HalfOf
  <2>3. s \in 0..(Day - 1)
    OBVIOUS
  <2> HIDE DEF m, n, s, h
  <2> QED BY <1>1, <2>1, <2>2, <2>3
<1>3. PICK k \in {-1, 0, 1} :
        /\ Delay(e) \in Int /\ 0 - h <= Delay(e) /\ Delay(e) < h
        /\ Delay(e) = m - s + k * Day
  BY DelayIsNear
<1> HIDE DEF n, m, s, h
<1>4. /\ n - k \in -1..(n + 1)
      /\ e.time - Delay(e) = s + (n - k) * Day
  BY <1>1, <1>2, <1>3
<1>5. ASSUME NEW d \in -1..(n + 1)
      PROVE  Distance(e.time, s + d * Day) >= Distance(Delay(e), 0)
  <2> DEFINE j == n - k - d
  <2>1. j \in Int /\ d \in Int
    BY <1>2, <1>3
  <2>2. e.time - (s + d * Day) = Delay(e) + j * Day
    BY <1>1, <1>2, <1>3, <2>1
  <2>3. s + d * Day \in Int /\ e.time \in Int
    BY <1>1, <1>2, <2>1
  <2> HIDE DEF j
  <2>4. /\ j * Day \in Int
        /\ j >= 1 => j * Day >= Day
        /\ j <= -1 => j * Day <= -Day
        /\ j = 0 => j * Day = 0
    BY <1>1, <2>1, Multiples
  <2>5. j >= 1 \/ j <= -1 \/ j = 0
    BY <2>1
  <2> DEFINE t == s + d * Day
             v == j * Day
  <2>6. /\ t \in Int /\ v \in Int /\ e.time - t = Delay(e) + v
        /\ v >= Day \/ v <= -Day \/ v = 0
    BY <2>2, <2>3, <2>4, <2>5
  <2> HIDE DEF t, v
  <2>7. Distance(e.time, t) >= Distance(Delay(e), 0)
    BY <1>2, <1>3, <2>3, <2>6 DEF Distance
  <2> QED BY <2>7 DEF t
<1>6. e.time - Delay(e) \in starts
  BY <1>4
<1>7. \A t \in starts : Distance(e.time, t) >= Distance(Delay(e), 0)
  BY <1>5
<1> QED BY <1>6, <1>7 DEF n, s

\* DelayFromNearestStart for any events, days and shifts: the delay of an
\* employee's first entry of a day is its distance from the nearest start of
\* her shift, on that day or a neighbour.
THEOREM DelaysAreFromNearestStart == AnalyticsSpec => []DelayFromNearestStart
<1> DEFINE Known == stored \subseteq Events
<1>1. AnalyticsInit => Known
  BY DEF AnalyticsInit
<1>2. Known /\ [AnalyticsNext]_analyticsVars => Known'
  BY DEF AnalyticsNext, Arrive, SubmitExport, Page, LastPage, ExportFails, analyticsVars
<1>3. Known => DelayFromNearestStart
  <2> SUFFICES ASSUME stored \subseteq Events, NEW who \in Employees,
                      NEW e \in FirstEntries(who)
               PROVE  LET starts == {ShiftStart[who] + d * Day :
                                        d \in -1..(e.time \div Day + 1)}
                      IN  /\ e.time - Delay(e) \in starts
                          /\ \A s \in starts :
                                 Distance(e.time, s) >= Distance(Delay(e), 0)
    BY DEF DelayFromNearestStart
  <2>1. e \in Events /\ e.who = who
    BY DEF FirstEntries, Entries
  <2>2. ShiftStart[e.who] \in 0..(Day - 1)
    BY <2>1, AnalyticsAssumption
  <2> QED BY <2>1, <2>2, NearestStart
<1> QED BY <1>1, <1>2, <1>3, PTL DEF AnalyticsSpec

-----------------------------------------------------------------------------
(* Analytics: the export misses nothing although the pages shift.          *)

\* The rows of a set as new as a time; how many they are is the place of the
\* last of them in every answer.
Since(rows, time) == {f \in rows : f.time >= time}
Rank(rows, e) == Cardinality(Since(rows, e.time))

Untied(rows, e) == ~\E f \in rows \ {e} : f.time = e.time

\* The entries of a sequence as new as a time.
Newer(s, time) == {j \in DOMAIN s : s[j].time >= time}

LEMMA SinceIsFinite ==
    ASSUME NEW rows, IsFiniteSet(rows), NEW time
    PROVE  /\ IsFiniteSet(Since(rows, time))
           /\ Cardinality(Since(rows, time)) \in Nat
           /\ \A more : rows \subseteq more /\ IsFiniteSet(more) =>
                  Cardinality(Since(rows, time)) <= Cardinality(Since(more, time))
<1>1. ASSUME NEW x, IsFiniteSet(x) PROVE IsFiniteSet(Since(x, time))
  <2>1. Since(x, time) \in SUBSET x
    BY DEF Since
  <2> QED BY <1>1, <2>1, FS_Subset
<1>2. ASSUME NEW more, rows \subseteq more, IsFiniteSet(more)
      PROVE  Cardinality(Since(rows, time)) <= Cardinality(Since(more, time))
  <2>1. Since(rows, time) \in SUBSET Since(more, time) /\ IsFiniteSet(Since(more, time))
    BY <1>1, <1>2 DEF Since
  <2> QED BY <2>1, FS_Subset
<1>3. IsFiniteSet(Since(rows, time))
  BY <1>1
<1>4. Cardinality(Since(rows, time)) \in Nat
  BY <1>3, FS_CardinalityType
<1> QED BY <1>2, <1>3, <1>4

LEMMA CountTo ==
    ASSUME NEW n \in Nat
    PROVE  IsFiniteSet(1..n) /\ Cardinality(1..n) = n
<1>1. 1 \in Int /\ n \in Int
  OBVIOUS
<1>2. IsFiniteSet(1..n) /\ Cardinality(1..n) = IF 1 > n THEN 0 ELSE n - 1 + 1
  BY <1>1, FS_Interval
<1> QED BY <1>2

\* An answer holds every row once.
LEMMA AnswersAreOrders ==
    ASSUME NEW rows, IsFiniteSet(rows), NEW s \in SetToSeqs(rows)
    PROVE  /\ s \in [1..Cardinality(rows) -> rows]
           /\ \A i, j \in 1..Cardinality(rows) : s[i] = s[j] => i = j
           /\ \A e \in rows : \E i \in 1..Cardinality(rows) : s[i] = e
           /\ s \in Seq(rows) /\ Len(s) = Cardinality(rows)
<1> DEFINE n == Cardinality(rows)
<1>1. n \in Nat
  BY FS_CardinalityType
<1>2. /\ s \in [1..n -> rows]
      /\ \A i, j \in 1..n : s[i] = s[j] => i = j
  BY DEF SetToSeqs
<1>3. IsFiniteSet(1..n) /\ Cardinality(1..n) = n
  BY <1>1, CountTo
<1> HIDE DEF n
<1>4. s \in Injection(1..n, rows)
  BY <1>2 DEF Injection, IsInjective
<1>5. s \in Surjection(1..n, rows)
  BY <1>3, <1>4, FS_Injection DEF n
<1>6. \A e \in rows : \E i \in 1..n : s[i] = e
  BY <1>5 DEF Surjection
<1>7. s \in Seq(rows) /\ Len(s) = n
  BY <1>1, <1>2
<1> QED BY <1>2, <1>6, <1>7 DEF n

\* A row is at its rank or before it, and at it if no other has its time.
LEMMA PlaceInAnswer ==
    ASSUME NEW rows, IsFiniteSet(rows), \A f \in rows : f.time \in Nat,
           NEW s \in SetToSeqs(rows), NewestFirst(s),
           NEW i \in 1..Cardinality(rows)
    PROVE  /\ i <= Rank(rows, s[i])
           /\ Untied(rows, s[i]) => Rank(rows, s[i]) = i
<1> DEFINE n == Cardinality(rows)
           e == s[i]
           Newest == Since(rows, e.time)
<1>1. /\ s \in [1..n -> rows]
      /\ \A j, k \in 1..n : s[j] = s[k] => j = k
      /\ \A f \in rows : \E j \in 1..n : s[j] = f
      /\ n \in Nat
  BY AnswersAreOrders, FS_CardinalityType
<1>2. \A j, k \in 1..n : j < k => s[j].time >= s[k].time
  BY <1>1 DEF NewestFirst
<1>3. e \in rows /\ e.time \in Nat /\ IsFiniteSet(Newest)
  BY <1>1, SinceIsFinite
<1>4. IsFiniteSet(1..i) /\ Cardinality(1..i) = i /\ i \in Nat /\ i <= n
  BY <1>1, CountTo
<1> DEFINE first == [j \in 1..i |-> s[j]]
<1> HIDE DEF n
<1>5. first \in [1..i -> Newest]
  <2> SUFFICES ASSUME NEW j \in 1..i PROVE s[j] \in rows /\ s[j].time >= e.time
    BY DEF Since
  <2>1. j \in 1..n /\ i \in 1..n /\ (j < i \/ j = i)
    BY <1>1, <1>4
  <2> QED BY <1>1, <1>2, <1>3, <2>1
<1>6. first \in Injection(1..i, Newest)
  <2>1. \A j, k \in 1..i : first[j] = first[k] => j = k
    BY <1>1, <1>4
  <2>2. DOMAIN first = 1..i
    OBVIOUS
  <2> QED BY <1>5, <2>1, <2>2 DEF Injection, IsInjective
<1>7. i <= Cardinality(Newest)
  BY <1>3, <1>4, <1>6, FS_Injection
<1>8. ASSUME Untied(rows, e) PROVE Cardinality(Newest) = i
  <2>1. ASSUME NEW f \in Newest PROVE \E j \in 1..i : first[j] = f
    <3>1. f \in rows /\ f.time \in Nat /\ f.time >= e.time
      BY <2>1 DEF Since
    <3>2. PICK j \in 1..n : s[j] = f
      BY <1>1, <3>1
    <3>3. j > i => s[i].time >= f.time
      BY <1>1, <1>2, <1>4, <3>2
    <3>4. ~(j > i)
      <4> SUFFICES ASSUME j > i PROVE FALSE
        OBVIOUS
      <4>1. f.time = e.time
        BY <1>3, <3>1, <3>3
      <4>2. f = e
        BY <1>8, <3>1, <4>1 DEF Untied
      <4>3. j = i
        BY <1>1, <1>4, <3>2, <4>2
      <4> QED BY <1>4, <4>3
    <3>5. j \in 1..i
      BY <1>4, <3>2, <3>4
    <3> QED BY <3>2, <3>5
  <2>2. first \in Surjection(1..i, Newest)
    BY <1>5, <2>1 DEF Surjection
  <2>3. Cardinality(Newest) <= i
    BY <1>4, <2>2, FS_Surjection
  <2>4. Cardinality(Newest) \in Nat
    BY <1>3, FS_CardinalityType
  <2> QED BY <1>4, <1>7, <2>3, <2>4
<1> QED BY <1>7, <1>8 DEF Rank

\* What LIMIT and OFFSET leave of an answer.
LEMMA SliceFacts ==
    ASSUME NEW S, NEW s \in Seq(S), NEW start \in Nat, start <= Len(s),
           NEW limit \in Nat
    PROVE  /\ Slice(s, start + 1, limit) \in Seq(S)
           /\ Len(Slice(s, start + 1, limit))
                 = IF limit < Len(s) - start THEN limit ELSE Len(s) - start
           /\ \A k \in 1..Len(Slice(s, start + 1, limit)) :
                 Slice(s, start + 1, limit)[k] = s[start + k]
<1> DEFINE last == IF start + 1 + limit - 1 < Len(s) THEN start + 1 + limit - 1
                   ELSE Len(s)
           piece == SubSeq(s, start + 1, last)
<1>1. /\ Len(s) \in Nat /\ last \in Nat /\ last <= Len(s)
      /\ last - start = IF limit < Len(s) - start THEN limit ELSE Len(s) - start
  OBVIOUS
<1> HIDE DEF last
<1>2. /\ piece \in Seq(S) /\ Len(piece) = last - start
      /\ \A k \in 1..Len(piece) : piece[k] = s[start + k]
  <2>1. /\ last >= start /\ \A k \in (start + 1)..last : s[k] \in S
        /\ last - start \in Nat
    BY <1>1
  <2>2. piece = [k \in 1..(last - start) |-> s[start + k]]
    BY <1>1, <2>1
  <2>3. \A k \in 1..(last - start) : s[start + k] \in S
    BY <1>1, <2>1
  <2> DEFINE g == [k \in 1..(last - start) |-> s[start + k]]
  <2>4. g \in Seq(S) /\ Len(g) = last - start
    BY <2>1, <2>3
  <2>5. \A k \in 1..(last - start) : g[k] = s[start + k]
    OBVIOUS
  <2>6. piece = g
    BY <2>2
  <2> HIDE DEF piece, g
  <2> QED BY <2>4, <2>5, <2>6
<1>3. Slice(s, start + 1, limit) = piece
  BY DEF Slice, last
<1> QED BY <1>1, <1>2, <1>3

\* The pages there may be of the rows behind the first ones.
NextPages(rows, start, limit) ==
    {Slice(s, start + 1, limit) : s \in {o \in SetToSeqs(rows) : NewestFirst(o)}}

\* A page: it is where it was asked for, and what it leaves out is newer than
\* that or older than its last row.
LEMMA BatchFacts ==
    ASSUME NEW rows, IsFiniteSet(rows), \A f \in rows : f.time \in Nat,
           NEW start \in Nat, start <= Cardinality(rows), NEW limit \in Nat,
           NEW b \in NextPages(rows, start, limit)
    PROVE  /\ b \in Seq(rows) /\ Len(b) <= limit
           /\ start + Len(b) <= Cardinality(rows)
           /\ Len(b) < limit => start + Len(b) = Cardinality(rows)
           /\ \A k \in 1..Len(b) : start + k <= Rank(rows, b[k])
           /\ \A e \in rows :
                  Untied(rows, e) =>
                      \/ Rank(rows, e) <= start
                      \/ e \in ToSet(b)
                      \/ Rank(rows, e) > start + Len(b)
<1>s. PICK s \in SetToSeqs(rows) : NewestFirst(s) /\ b = Slice(s, start + 1, limit)
  BY DEF NextPages
<1> DEFINE n == Cardinality(rows)
<1>1. /\ s \in Seq(rows) /\ Len(s) = n /\ n \in Nat
      /\ \A e \in rows : \E i \in 1..n : s[i] = e
  BY AnswersAreOrders, FS_CardinalityType
<1>2. /\ b \in Seq(rows)
      /\ Len(b) = IF limit < Len(s) - start THEN limit ELSE Len(s) - start
      /\ \A k \in 1..Len(b) : b[k] = s[start + k]
  <2> HIDE DEF n
  <2>1. s \in Seq(rows) /\ start <= Len(s)
    BY <1>1 DEF n
  <2>2. /\ Slice(s, start + 1, limit) \in Seq(rows)
        /\ Len(Slice(s, start + 1, limit))
              = IF limit < Len(s) - start THEN limit ELSE Len(s) - start
        /\ \A k \in 1..Len(Slice(s, start + 1, limit)) :
              Slice(s, start + 1, limit)[k] = s[start + k]
    BY <2>1, SliceFacts
  <2> QED BY <1>s, <2>2
<1>3. Len(b) \in Nat /\ Len(b) <= limit /\ start + Len(b) <= n
  BY <1>1, <1>2
<1>4. \A i \in 1..n : /\ i <= Rank(rows, s[i])
                      /\ Untied(rows, s[i]) => Rank(rows, s[i]) = i
  BY <1>s, PlaceInAnswer
<1> HIDE DEF n
<1>5. Len(b) < limit => start + Len(b) = n
  BY <1>1, <1>2, <1>3
<1>6. ASSUME NEW k \in 1..Len(b) PROVE start + k <= Rank(rows, b[k])
  <2>1. start + k \in 1..n
    BY <1>1, <1>3
  <2> QED BY <1>2, <1>4, <2>1
<1>7. ASSUME NEW e \in rows, Untied(rows, e),
             ~(Rank(rows, e) <= start), ~(Rank(rows, e) > start + Len(b))
      PROVE  e \in ToSet(b)
  <2>1. PICK i \in 1..n : s[i] = e
    BY <1>1
  <2>2. Rank(rows, e) = i /\ i \in Nat
    BY <1>1, <1>4, <1>7, <2>1
  <2>3. i - start \in 1..Len(b) /\ start + (i - start) = i
    BY <1>3, <1>7, <2>2
  <2>4. b[i - start] = e
    BY <1>2, <2>1, <2>3
  <2>5. DOMAIN b = 1..Len(b)
    BY <1>2
  <2> QED BY <2>3, <2>4, <2>5 DEF ToSet
<1> QED BY <1>2, <1>3, <1>5, <1>6, <1>7 DEF n

\* Rows fetched at their rank or before it are no more than there are.
LEMMA FetchedAreCounted ==
    ASSUME NEW rows, IsFiniteSet(rows), \A f \in rows : f.time \in Nat,
           NEW s \in Seq(rows), \A j \in 1..Len(s) : j <= Rank(rows, s[j]),
           NEW time \in Nat
    PROVE  /\ IsFiniteSet(Newer(s, time))
           /\ Cardinality(Newer(s, time)) \in Nat
           /\ Cardinality(Newer(s, time)) <= Cardinality(Since(rows, time))
<1> DEFINE c == Cardinality(Since(rows, time))
<1>1. c \in Nat /\ IsFiniteSet(Since(rows, time))
  BY SinceIsFinite
<1>2. Newer(s, time) \subseteq 1..c
  <2> SUFFICES ASSUME NEW j \in 1..Len(s), s[j].time >= time
               PROVE  j \in 1..c
    BY DEF Newer
  <2>1. s[j] \in rows /\ s[j].time \in Nat
    OBVIOUS
  <2>2. Since(rows, s[j].time) \in SUBSET Since(rows, time)
    BY <2>1 DEF Since
  <2>3. Rank(rows, s[j]) <= c /\ Rank(rows, s[j]) \in Nat
    BY <1>1, <2>2, FS_Subset, FS_CardinalityType DEF Rank
  <2> QED BY <1>1, <2>3
<1> HIDE DEF c
<1>3. IsFiniteSet(1..c) /\ Cardinality(1..c) = c
  BY <1>1, CountTo
<1>4. IsFiniteSet(Newer(s, time)) /\ Cardinality(Newer(s, time)) <= c
  BY <1>2, <1>3, FS_Subset
<1> QED BY <1>4, FS_CardinalityType DEF c

LEMMA NewerOfConcatenation ==
    ASSUME NEW S, NEW a \in Seq(S), NEW b \in Seq(S), NEW time,
           IsFiniteSet(Newer(a, time)), IsFiniteSet(Newer(b, time))
    PROVE  /\ IsFiniteSet(Newer(a \o b, time))
           /\ Cardinality(Newer(a \o b, time))
                  <= Cardinality(Newer(a, time)) + Cardinality(Newer(b, time))
<1> DEFINE shifted == {Len(a) + j : j \in Newer(b, time)}
           shift == [j \in Newer(b, time) |-> Len(a) + j]
<1>1. shift \in Surjection(Newer(b, time), shifted)
  BY DEF Surjection
<1>2. IsFiniteSet(shifted) /\ Cardinality(shifted) <= Cardinality(Newer(b, time))
  BY <1>1, FS_Surjection
<1>3. Newer(a \o b, time) \subseteq Newer(a, time) \cup shifted
  <2> SUFFICES ASSUME NEW j \in 1..Len(a \o b), (a \o b)[j].time >= time
               PROVE  j \in Newer(a, time) \/ \E k \in Newer(b, time) : j = Len(a) + k
    BY DEF Newer
  <2>1. CASE j <= Len(a)
    BY <2>1 DEF Newer
  <2>2. CASE ~(j <= Len(a))
    <3>1. j - Len(a) \in 1..Len(b) /\ j = Len(a) + (j - Len(a))
      BY <2>2
    <3>2. (a \o b)[j] = b[j - Len(a)]
      BY <2>2
    <3> QED BY <3>1, <3>2 DEF Newer
  <2> QED BY <2>1, <2>2
<1>4. /\ IsFiniteSet(Newer(a, time) \cup shifted)
      /\ Cardinality(Newer(a, time) \cup shifted)
            <= Cardinality(Newer(a, time)) + Cardinality(shifted)
  <2> HIDE DEF shifted
  <2>1. /\ IsFiniteSet(Newer(a, time) \cup shifted)
        /\ Cardinality(Newer(a, time) \cup shifted)
              = Cardinality(Newer(a, time)) + Cardinality(shifted)
                  - Cardinality(Newer(a, time) \cap shifted)
    BY <1>2, FS_Union
  <2>2. IsFiniteSet(Newer(a, time) \cap shifted)
    BY FS_Intersection
  <2>3. /\ Cardinality(Newer(a, time)) \in Nat /\ Cardinality(shifted) \in Nat
        /\ Cardinality(Newer(a, time) \cap shifted) \in Nat
    BY <1>2, <2>2, FS_CardinalityType
  <2> QED BY <2>1, <2>3
<1> HIDE DEF shifted, shift
<1>5. /\ IsFiniteSet(Newer(a \o b, time))
      /\ Cardinality(Newer(a \o b, time)) <= Cardinality(Newer(a, time) \cup shifted)
  BY <1>3, <1>4, FS_Subset
<1>6. /\ Cardinality(Newer(a \o b, time)) \in Nat
      /\ Cardinality(Newer(a, time) \cup shifted) \in Nat
      /\ Cardinality(Newer(a, time)) \in Nat /\ Cardinality(shifted) \in Nat
      /\ Cardinality(Newer(b, time)) \in Nat
  BY <1>2, <1>4, <1>5, FS_CardinalityType
<1> QED BY <1>2, <1>4, <1>5, <1>6

\* The file keeps a row that has no more than the limit before it.
LEMMA TopKeeps ==
    ASSUME NEW S, NEW rows \in Seq(S), \A f \in S : f.time \in Nat, max \in Nat
    PROVE  /\ Len(Top(rows)) <= max
           /\ \A i \in 1..Len(rows) :
                  Cardinality(Newer(rows, rows[i].time)) <= max
                      => rows[i] \in ToSet(Top(rows))
<1> DEFINE n == Len(rows)
           Up(i) == {j \in 1..n : \/ rows[j].time > rows[i].time
                                  \/ rows[j].time = rows[i].time /\ j <= i}
<1>1. /\ n \in Nat /\ DOMAIN rows = 1..n
      /\ \A i \in 1..n : rows[i].time \in Nat
  OBVIOUS
<1>2. \A i : Place(rows, i) = Cardinality(Up(i))
  BY <1>1 DEF Place
<1> HIDE DEF n
<1>3. IsFiniteSet(1..n) /\ Cardinality(1..n) = n
  BY <1>1, CountTo
<1>4. ASSUME NEW i \in 1..n
      PROVE  /\ IsFiniteSet(Up(i)) /\ Cardinality(Up(i)) \in 1..n
             /\ i \in Up(i)
  <2>1. Up(i) \in SUBSET (1..n) /\ i \in Up(i)
    BY <1>1
  <2> HIDE DEF Up
  <2>2. IsFiniteSet(Up(i)) /\ Cardinality(Up(i)) <= n
    BY <1>3, <2>1, FS_Subset
  <2>3. Cardinality(Up(i)) \in Nat /\ Cardinality(Up(i)) # 0
    BY <2>1, <2>2, FS_CardinalityType, FS_EmptySet
  <2> QED BY <1>1, <2>1, <2>2, <2>3
<1>5. ASSUME NEW i \in 1..n, NEW k \in 1..n,
             rows[i].time > rows[k].time \/ (rows[i].time = rows[k].time /\ i < k)
      PROVE  Cardinality(Up(i)) < Cardinality(Up(k))
  <2>1. Up(i) \in SUBSET (Up(k) \ {k})
    BY <1>1, <1>5
  <2>2. k \in Up(k) /\ IsFiniteSet(Up(k))
    BY <1>4
  <2> HIDE DEF Up
  <2>3. Cardinality(Up(i)) \in Nat /\ Cardinality(Up(k)) \in Nat
    BY <1>1, <1>4
  <2>4. /\ IsFiniteSet(Up(k) \ {k})
        /\ Cardinality(Up(k) \ {k}) = Cardinality(Up(k)) - 1
    BY <2>2, FS_RemoveElement
  <2>5. Cardinality(Up(i)) <= Cardinality(Up(k) \ {k})
    BY <2>1, <2>4, FS_Subset
  <2> QED BY <2>3, <2>4, <2>5
<1>6. ASSUME NEW i \in 1..n, NEW k \in 1..n, Cardinality(Up(i)) = Cardinality(Up(k))
      PROVE  i = k
  <2>1. i \in Nat /\ k \in Nat /\ rows[i].time \in Nat /\ rows[k].time \in Nat
    BY <1>1
  <2>2. \/ rows[i].time > rows[k].time \/ (rows[i].time = rows[k].time /\ i < k)
        \/ rows[k].time > rows[i].time \/ (rows[i].time = rows[k].time /\ k < i)
        \/ i = k
    BY <2>1
  <2> HIDE DEF Up
  <2>3. Cardinality(Up(i)) \in Nat /\ Cardinality(Up(k)) \in Nat
    BY <1>1, <1>4
  <2> QED BY <1>5, <1>6, <2>2, <2>3
<1> HIDE DEF Up
<1>7. ASSUME NEW i \in 1..n PROVE Sorted(rows)[Cardinality(Up(i))] = rows[i]
  <2>1. \A k \in 1..n : Place(rows, k) = Cardinality(Up(i)) <=> k = i
    BY <1>2, <1>6
  <2>2. (CHOOSE k \in 1..n : Place(rows, k) = Cardinality(Up(i))) = i
    BY <2>1
  <2> QED BY <1>1, <1>4, <2>2 DEF Sorted
<1> DEFINE T == {Sorted(rows)[k] : k \in 1..n}
<1>8. Sorted(rows) \in Seq(T) /\ Len(Sorted(rows)) = n
  <2>1. Sorted(rows) = [k \in 1..n |-> Sorted(rows)[k]]
    BY <1>1 DEF Sorted
  <2> DEFINE g == [k \in 1..n |-> Sorted(rows)[k]]
  <2>2. g \in [1..n -> T]
    OBVIOUS
  <2> HIDE DEF T, g
  <2>3. g \in Seq(T) /\ Len(g) = n
    BY <1>1, <2>2
  <2> QED BY <2>1, <2>3 DEF g
<1>9. /\ Top(rows) \in Seq(T)
      /\ Len(Top(rows)) = IF max < n THEN max ELSE n
      /\ \A k \in 1..Len(Top(rows)) : Top(rows)[k] = Sorted(rows)[k]
  <2> HIDE DEF T
  <2>1. 0 \in Nat /\ 0 <= Len(Sorted(rows)) /\ 0 + 1 = 1
    BY <1>1, <1>8
  <2>2. Top(rows) = Slice(Sorted(rows), 0 + 1, max)
    BY <2>1 DEF Top
  <2> DEFINE order == Sorted(rows)
             start == 0
  <2>3. /\ order \in Seq(T) /\ start \in Nat /\ start <= Len(order)
    BY <1>8, <2>1
  <2> HIDE DEF order, start
  <2>4. /\ Slice(order, start + 1, max) \in Seq(T)
        /\ Len(Slice(order, start + 1, max))
              = IF max < Len(order) - start THEN max ELSE Len(order) - start
        /\ \A k \in 1..Len(Slice(order, start + 1, max)) :
              Slice(order, start + 1, max)[k] = order[start + k]
    BY <2>3, SliceFacts
  <2>5. /\ Top(rows) \in Seq(T)
        /\ Len(Top(rows)) = IF max < Len(Sorted(rows)) - 0 THEN max
                            ELSE Len(Sorted(rows)) - 0
        /\ \A k \in 1..Len(Top(rows)) : Top(rows)[k] = Sorted(rows)[0 + k]
    BY <2>2, <2>4 DEF order, start
  <2>6. \A k \in 1..Len(Top(rows)) : 0 + k = k
    OBVIOUS
  <2> QED BY <1>1, <1>8, <2>5, <2>6
<1> HIDE DEF T
<1>10. ASSUME NEW i \in 1..n, Cardinality(Newer(rows, rows[i].time)) <= max
       PROVE  rows[i] \in ToSet(Top(rows))
  <2>1. Up(i) \in SUBSET Newer(rows, rows[i].time)
    BY <1>1 DEF Up, Newer
  <2>2. Newer(rows, rows[i].time) \in SUBSET (1..n)
    BY <1>1 DEF Newer
  <2>3. IsFiniteSet(Newer(rows, rows[i].time))
    BY <1>3, <2>2, FS_Subset
  <2>4. /\ Cardinality(Up(i)) <= Cardinality(Newer(rows, rows[i].time))
        /\ Cardinality(Newer(rows, rows[i].time)) \in Nat
    BY <2>1, <2>3, FS_Subset, FS_CardinalityType
  <2>5. Cardinality(Up(i)) \in 1..Len(Top(rows))
    BY <1>1, <1>4, <1>9, <1>10, <2>4
  <2>6. Top(rows)[Cardinality(Up(i))] = rows[i]
    BY <1>7, <1>9, <2>5
  <2>7. DOMAIN Top(rows) = 1..Len(Top(rows))
    BY <1>9
  <2> QED BY <2>5, <2>6, <2>7 DEF ToSet
<1>11. Len(Top(rows)) <= max
  BY <1>1, <1>9
<1> QED BY <1>10, <1>11 DEF n

\* Events that arrive only push a row back.
LEMMA RowsOnlyFallBack ==
    ASSUME NEW rows, NEW more, rows \subseteq more, IsFiniteSet(more), NEW e
    PROVE  /\ Untied(more, e) => Untied(rows, e)
           /\ Rank(rows, e) \in Nat /\ Rank(more, e) \in Nat
           /\ Rank(rows, e) <= Rank(more, e)
<1>1. IsFiniteSet(rows)
  BY FS_Subset
<1>2. /\ Rank(rows, e) \in Nat /\ Rank(more, e) \in Nat
      /\ Rank(rows, e) <= Rank(more, e)
  BY <1>1, SinceIsFinite DEF Rank
<1>3. Untied(more, e) => Untied(rows, e)
  BY DEF Untied
<1> QED BY <1>2, <1>3

LEMMA ConcatenationFacts ==
    ASSUME NEW S, NEW a \in Seq(S), NEW b \in Seq(S)
    PROVE  /\ a \o b \in Seq(S) /\ Len(a \o b) = Len(a) + Len(b)
           /\ \A j \in 1..Len(a) : (a \o b)[j] = a[j]
           /\ \A j \in 1..Len(b) : (a \o b)[Len(a) + j] = b[j]
           /\ ToSet(a \o b) = ToSet(a) \cup ToSet(b)
<1>1. /\ a \o b \in Seq(S) /\ Len(a \o b) = Len(a) + Len(b)
      /\ \A j \in 1..Len(a) : (a \o b)[j] = a[j]
      /\ Len(a) \in Nat /\ Len(b) \in Nat
      /\ DOMAIN a = 1..Len(a) /\ DOMAIN b = 1..Len(b)
      /\ DOMAIN (a \o b) = 1..(Len(a) + Len(b))
  OBVIOUS
<1>2. \A j \in 1..Len(b) : (a \o b)[Len(a) + j] = b[j]
  OBVIOUS
<1>3. ASSUME NEW j \in 1..(Len(a) + Len(b))
      PROVE  j \in 1..Len(a) \/ \E k \in 1..Len(b) : j = Len(a) + k
  <2>1. j > Len(a) => j - Len(a) \in 1..Len(b) /\ j = Len(a) + (j - Len(a))
    BY <1>1
  <2>2. ~(j > Len(a)) => j \in 1..Len(a)
    BY <1>1
  <2> QED BY <2>1, <2>2
<1>4. ASSUME NEW j \in 1..Len(b) PROVE Len(a) + j \in 1..(Len(a) + Len(b))
  BY <1>1
<1>5. ASSUME NEW j \in 1..Len(a) PROVE j \in 1..(Len(a) + Len(b))
  BY <1>1
<1> DEFINE c == a \o b
<1>6. /\ \A j \in 1..Len(a) : c[j] = a[j]
      /\ \A j \in 1..Len(b) : c[Len(a) + j] = b[j]
      /\ DOMAIN c = 1..(Len(a) + Len(b))
  BY <1>1, <1>2
<1> HIDE DEF c
<1>7. ToSet(c) \subseteq ToSet(a) \cup ToSet(b)
  <2> SUFFICES ASSUME NEW j \in 1..(Len(a) + Len(b))
               PROVE  c[j] \in ToSet(a) \cup ToSet(b)
    BY <1>6 DEF ToSet
  <2> QED BY <1>1, <1>3, <1>6 DEF ToSet
<1>8. ToSet(a) \cup ToSet(b) \subseteq ToSet(c)
  BY <1>1, <1>4, <1>5, <1>6 DEF ToSet
<1> QED BY <1>1, <1>2, <1>7, <1>8 DEF c

\* What the pages of an employee have brought, one after the other: no row
\* later than at its rank, and the others are behind them.
LEMMA PageFacts ==
    ASSUME NEW rows, IsFiniteSet(rows), \A f \in rows : f.time \in Nat,
           NEW a \in Seq(rows), \A j \in 1..Len(a) : j <= Rank(rows, a[j]),
           NEW limit \in Nat,
           NEW b \in NextPages(rows, Len(a), limit)
    PROVE  /\ b \in Seq(rows) /\ Len(b) \in Nat /\ Len(b) <= limit
           /\ Len(b) < limit => Len(a) + Len(b) = Cardinality(rows)
           /\ a \o b \in Seq(rows) /\ Len(a \o b) = Len(a) + Len(b)
           /\ \A j \in 1..Len(a \o b) : j <= Rank(rows, (a \o b)[j])
           /\ \A e \in rows :
                  Untied(rows, e) /\ (e \in ToSet(a) \/ Rank(rows, e) > Len(a)) =>
                      e \in ToSet(a \o b) \/ Rank(rows, e) > Len(a) + Len(b)
<1>1. Len(a) \in Nat /\ Cardinality(rows) \in Nat
  BY FS_CardinalityType
<1>2. \A e : Rank(rows, e) \in Nat /\ Rank(rows, e) <= Cardinality(rows)
  <2> SUFFICES ASSUME NEW e
               PROVE  Rank(rows, e) \in Nat /\ Rank(rows, e) <= Cardinality(rows)
    OBVIOUS
  <2>1. Since(rows, e.time) \in SUBSET rows
    BY DEF Since
  <2> QED BY <2>1, FS_Subset, FS_CardinalityType DEF Rank
<1>3. Len(a) <= Cardinality(rows)
  <2>1. CASE Len(a) = 0
    BY <1>1, <2>1
  <2>2. CASE Len(a) # 0
    <3>1. Len(a) \in 1..Len(a)
      BY <1>1, <2>2
    <3>2. Len(a) <= Rank(rows, a[Len(a)])
      BY <3>1
    <3> QED BY <1>1, <1>2, <3>2
  <2> QED BY <2>1, <2>2
<1>4. /\ b \in Seq(rows) /\ Len(b) <= limit
      /\ Len(b) < limit => Len(a) + Len(b) = Cardinality(rows)
      /\ \A k \in 1..Len(b) : Len(a) + k <= Rank(rows, b[k])
      /\ \A e \in rows :
             Untied(rows, e) =>
                 \/ Rank(rows, e) <= Len(a)
                 \/ e \in ToSet(b)
                 \/ Rank(rows, e) > Len(a) + Len(b)
  BY <1>1, <1>3, BatchFacts
<1>5. Len(b) \in Nat
  BY <1>4
<1>6. /\ a \o b \in Seq(rows) /\ Len(a \o b) = Len(a) + Len(b)
      /\ \A j \in 1..Len(a) : (a \o b)[j] = a[j]
      /\ \A j \in 1..Len(b) : (a \o b)[Len(a) + j] = b[j]
      /\ ToSet(a \o b) = ToSet(a) \cup ToSet(b)
  BY <1>4, ConcatenationFacts
<1> DEFINE c == a \o b
<1> HIDE DEF c
<1>7. ASSUME NEW j \in 1..Len(c) PROVE j <= Rank(rows, c[j])
  <2>1. CASE j <= Len(a)
    <3>1. j \in 1..Len(a) /\ c[j] = a[j]
      BY <1>1, <1>6, <2>1 DEF c
    <3> QED BY <3>1
  <2>2. CASE ~(j <= Len(a))
    <3>1. j - Len(a) \in 1..Len(b) /\ Len(a) + (j - Len(a)) = j
      BY <1>1, <1>5, <1>6, <2>2 DEF c
    <3>2. c[j] = b[j - Len(a)]
      BY <1>6, <3>1 DEF c
    <3> QED BY <1>4, <3>1, <3>2
  <2> QED BY <2>1, <2>2
<1>8. ASSUME NEW e \in rows, Untied(rows, e),
             e \in ToSet(a) \/ Rank(rows, e) > Len(a)
      PROVE  e \in ToSet(a \o b) \/ Rank(rows, e) > Len(a) + Len(b)
  <2>1. Rank(rows, e) > Len(a) => ~(Rank(rows, e) <= Len(a))
    BY <1>1, <1>2
  <2> QED BY <1>4, <1>6, <1>8, <2>1
<1> QED BY <1>4, <1>5, <1>6, <1>7, <1>8 DEF c

LEMMA TailFacts ==
    ASSUME NEW S, NEW s \in Seq(S), s # <<>>, IsInjective(s)
    PROVE  /\ Tail(s) \in Seq(S) /\ IsInjective(Tail(s))
           /\ Head(s) \in S
           /\ ToSet(Tail(s)) = ToSet(s) \ {Head(s)}
           /\ Head(s) \in ToSet(s)
<1> DEFINE u == Tail(s)
<1>1. /\ Len(s) \in Nat /\ Len(s) # 0 /\ DOMAIN s = 1..Len(s)
      /\ u \in Seq(S) /\ Len(u) = Len(s) - 1 /\ DOMAIN u = 1..(Len(s) - 1)
      /\ \A j \in 1..(Len(s) - 1) : u[j] = s[j + 1]
      /\ Head(s) = s[1] /\ Head(s) \in S
  OBVIOUS
<1> HIDE DEF u
<1>2. \A j, k \in 1..Len(s) : s[j] = s[k] => j = k
  BY <1>1 DEF IsInjective
<1>3. \A j \in 1..(Len(s) - 1) : j + 1 \in 1..Len(s) /\ j + 1 # 1
  BY <1>1
<1>4. \A j \in 1..Len(s) : j # 1 => j - 1 \in 1..(Len(s) - 1) /\ (j - 1) + 1 = j
  BY <1>1
<1>5. 1 \in 1..Len(s)
  BY <1>1
<1>6. IsInjective(u)
  <2> SUFFICES ASSUME NEW j \in 1..(Len(s) - 1), NEW k \in 1..(Len(s) - 1), u[j] = u[k]
               PROVE  j = k
    BY <1>1 DEF IsInjective
  <2>1. j + 1 = k + 1
    BY <1>1, <1>2, <1>3
  <2> QED BY <2>1
<1>7. ToSet(u) \subseteq ToSet(s) \ {s[1]}
  <2> SUFFICES ASSUME NEW j \in 1..(Len(s) - 1)
               PROVE  u[j] \in ToSet(s) /\ u[j] # s[1]
    BY <1>1 DEF ToSet
  <2>1. u[j] = s[j + 1] /\ j + 1 \in 1..Len(s) /\ j + 1 # 1
    BY <1>1, <1>3
  <2> QED BY <1>1, <1>2, <1>5, <2>1 DEF ToSet
<1>8. ToSet(s) \ {s[1]} \subseteq ToSet(u)
  <2> SUFFICES ASSUME NEW j \in 1..Len(s), s[j] # s[1]
               PROVE  s[j] \in ToSet(u)
    BY <1>1 DEF ToSet
  <2>1. j - 1 \in 1..(Len(s) - 1) /\ u[j - 1] = s[j]
    <3>1. j # 1
      OBVIOUS
    <3>2. j - 1 \in 1..(Len(s) - 1) /\ (j - 1) + 1 = j
      BY <1>4, <3>1
    <3> QED BY <1>1, <3>2
  <2> QED BY <1>1, <2>1 DEF ToSet
<1>9. s[1] \in ToSet(s)
  BY <1>1, <1>5 DEF ToSet
<1> QED BY <1>1, <1>6, <1>7, <1>8, <1>9 DEF u

-----------------------------------------------------------------------------

\* What is exported: the employees, those of them whose last page has come,
\* and their rows.
Chosen == IF selection = <<>> THEN {All} ELSE ToSet(selection)
Fetched == Chosen \ ToSet(targets)
GrantsOf(rows, selected) == {e \in rows : e.granted /\ \E t \in selected : t \in {All, e.who}}

Present == Matching(Head(targets))

ExportTypes ==
    /\ AnalyticsTypeOK
    /\ IsFiniteSet(stored)
    /\ max \in Limits
    /\ selection \in Targets \cup {<<>>}
    /\ targets \in Seq(Employees \cup {All}) /\ IsInjective(targets)
    /\ ToSet(targets) \subseteq Chosen
    /\ fetched \in Seq(stored) /\ offset = Len(fetched)
    /\ collected \in Seq(stored)
    /\ page \in Nat

\* Where the export is in its loops.
ExportPlace ==
    /\ export = "idle" =>
           fetched = <<>> /\ collected = <<>> /\ page = 0 /\ exported = <<>> /\ targets = <<>>
    /\ export = "fetch" =>
           /\ targets # <<>>
           /\ Len(fetched) = page * PageSize
           /\ Len(fetched) < max
           /\ page < MaxPages

\* The pages of the present employee: a row there when the export began has
\* come, or is behind what has.
PagesKeepUp ==
    export = "fetch" =>
        /\ fetched \in Seq(Present)
        /\ \A j \in 1..Len(fetched) : j <= Rank(Present, fetched[j])
        /\ \A e \in before \cap Present :
               Untied(Present, e) =>
                   e \in ToSet(fetched) \/ Rank(Present, e) > Len(fetched)

\* Of the employees before, only rows behind the limit are missing, and no
\* more rows as new as a time are collected than there are.
CollectedIsEnough ==
    export = "fetch" =>
        /\ \A t \in Fetched : \A e \in before \cap Matching(t) :
               Untied(Matching(t), e) =>
                   e \in ToSet(collected) \/ Rank(Matching(t), e) > max
        /\ \A time \in Nat :
               /\ IsFiniteSet(Newer(collected, time))
               /\ Cardinality(Newer(collected, time))
                      <= Cardinality(Since(GrantsOf(stored, Fetched), time))

ExportInv ==
    ExportTypes /\ ExportPlace /\ PagesKeepUp /\ CollectedIsEnough /\ ExportKeepsNewest

LEMMA LimitFacts ==
    ASSUME ExportTypes
    PROVE  /\ max \in Nat /\ max > 0 /\ max <= MaxPages * PageSize
           /\ PageSize \in Nat /\ PageSize > 0 /\ MaxPages \in Nat /\ MaxPages > 0
           /\ \A e \in stored : /\ e \in Events /\ e.time \in Nat
                                /\ e.who \in Employees /\ e.who # All
<1>1. /\ PageSize \in Nat /\ PageSize > 0 /\ MaxPages \in Nat /\ MaxPages > 0
  BY AnalyticsAssumption
<1>2. MaxPages * PageSize \in Nat
  BY <1>1
<1>3. max \in 1..(MaxPages * PageSize)
  BY AnalyticsAssumption DEF ExportTypes
<1>4. max \in Nat /\ max > 0 /\ max <= MaxPages * PageSize
  BY <1>2, <1>3
<1>5. \A e \in stored : /\ e \in Events /\ e.time \in Nat
                        /\ e.who \in Employees /\ e.who # All
  BY AnalyticsAssumption DEF ExportTypes, AnalyticsTypeOK
<1> QED BY <1>1, <1>4, <1>5

LEMMA MatchingIsFinite ==
    ASSUME ExportTypes, NEW t
    PROVE  /\ Matching(t) \subseteq stored /\ IsFiniteSet(Matching(t))
           /\ \A e \in Matching(t) : e.time \in Nat
<1>1. Matching(t) \in SUBSET stored
  BY DEF Matching
<1>2. IsFiniteSet(Matching(t))
  BY <1>1, FS_Subset DEF ExportTypes
<1> QED BY <1>1, <1>2, LimitFacts

LEMMA RanksArePositive ==
    ASSUME ExportTypes, NEW t, NEW e \in Matching(t)
    PROVE  Rank(Matching(t), e) > 0
<1>1. IsFiniteSet(Matching(t)) /\ e.time \in Nat
  BY MatchingIsFinite
<1>2. /\ IsFiniteSet(Since(Matching(t), e.time))
      /\ Cardinality(Since(Matching(t), e.time)) \in Nat
  BY <1>1, SinceIsFinite
<1>3. e \in Since(Matching(t), e.time)
  BY <1>1 DEF Since
<1>4. Cardinality(Since(Matching(t), e.time)) # 0
  BY <1>2, <1>3, FS_EmptySet
<1> QED BY <1>2, <1>4 DEF Rank

\* One employee more: her rows are none of the others'.
LEMMA OneMoreTarget ==
    ASSUME ExportTypes, targets # <<>>, NEW time \in Nat
    PROVE  Cardinality(Since(GrantsOf(stored, Fetched \cup {Head(targets)}), time))
             = Cardinality(Since(GrantsOf(stored, Fetched), time))
                   + Cardinality(Since(Present, time))
<1> DEFINE h == Head(targets)
           A == Since(GrantsOf(stored, Fetched), time)
           B == Since(Present, time)
<1>1. h \in ToSet(targets) /\ h \in Chosen /\ h \notin Fetched
  BY TailFacts DEF ExportTypes, Fetched
<1>2. Since(GrantsOf(stored, Fetched \cup {h}), time) = A \cup B
  BY DEF Since, GrantsOf, Present, Matching
<1>3. A \cap B = {}
  <2> SUFFICES ASSUME NEW e \in stored, NEW t \in Fetched,
                      t \in {All, e.who}, h \in {All, e.who}
               PROVE  FALSE
    BY DEF Since, GrantsOf, Present, Matching
  <2>1. CASE selection = <<>>
    BY <1>1, <2>1 DEF Fetched, Chosen
  <2>2. CASE selection # <<>>
    <3>1. selection \in Seq(Employees) /\ All \notin Employees
      BY <2>2, AnalyticsAssumption DEF ExportTypes
    <3>2. ToSet(selection) \subseteq Employees
      BY <3>1 DEF ToSet
    <3>3. t \in Employees /\ h \in Employees
      BY <1>1, <2>2, <3>2 DEF Fetched, Chosen
    <3>4. t = e.who /\ h = e.who
      BY <3>1, <3>3
    <3> QED BY <1>1, <3>4
  <2> QED BY <2>1, <2>2
<1>4. IsFiniteSet(A) /\ IsFiniteSet(B)
  <2>1. A \in SUBSET stored /\ B \in SUBSET stored
    BY DEF Since, GrantsOf, Present, Matching
  <2> QED BY <2>1, FS_Subset DEF ExportTypes
<1> HIDE DEF A, B
<1>5. Cardinality(A \cup B) = Cardinality(A) + Cardinality(B) - Cardinality(A \cap B)
  BY <1>4, FS_Union
<1>6. Cardinality(A \cap B) = 0
  BY <1>3, FS_EmptySet
<1>7. Cardinality(A) \in Nat /\ Cardinality(B) \in Nat
  BY <1>4, FS_CardinalityType
<1>8. Cardinality(A \cup B) = Cardinality(A) + Cardinality(B)
  BY <1>5, <1>6, <1>7
<1> QED BY <1>2, <1>8 DEF A, B

\* A page that is asked for.
LEMMA AnsweredPage ==
    ASSUME ExportInv, export = "fetch", NEW batch \in Answers(Head(targets), PageLimit)
    PROVE  /\ batch \in Seq(Present) /\ Len(batch) \in Nat /\ Len(batch) <= PageLimit
           /\ Len(batch) < PageLimit => Len(fetched) + Len(batch) = Cardinality(Present)
           /\ fetched \o batch \in Seq(Present)
           /\ Len(fetched \o batch) = Len(fetched) + Len(batch)
           /\ \A j \in 1..Len(fetched \o batch) : j <= Rank(Present, (fetched \o batch)[j])
           /\ \A e \in before \cap Present :
                  Untied(Present, e) =>
                      \/ e \in ToSet(fetched \o batch)
                      \/ Rank(Present, e) > Len(fetched) + Len(batch)
<1>1. batch \in NextPages(Present, Len(fetched), PageLimit)
  BY DEF NextPages, Answers, ExportInv, ExportTypes, Present
<1>2. /\ fetched \in Seq(Present)
      /\ \A j \in 1..Len(fetched) : j <= Rank(Present, fetched[j])
      /\ \A e \in before \cap Present :
             Untied(Present, e) =>
                 e \in ToSet(fetched) \/ Rank(Present, e) > Len(fetched)
  BY DEF ExportInv, PagesKeepUp
<1>3. IsFiniteSet(Present) /\ \A f \in Present : f.time \in Nat
  BY MatchingIsFinite DEF ExportInv, Present
<1>4. PageLimit \in Nat
  <2>1. /\ max \in Nat /\ PageSize \in Nat /\ Len(fetched) \in Nat /\ Len(fetched) < max
    BY <1>2, LimitFacts DEF ExportInv, ExportPlace
  <2> QED BY <2>1 DEF PageLimit
<1>5. /\ batch \in Seq(Present) /\ Len(batch) \in Nat /\ Len(batch) <= PageLimit
      /\ Len(batch) < PageLimit => Len(fetched) + Len(batch) = Cardinality(Present)
      /\ fetched \o batch \in Seq(Present)
      /\ Len(fetched \o batch) = Len(fetched) + Len(batch)
      /\ \A j \in 1..Len(fetched \o batch) : j <= Rank(Present, (fetched \o batch)[j])
      /\ \A e \in Present :
             Untied(Present, e) /\ (e \in ToSet(fetched) \/ Rank(Present, e) > Len(fetched)) =>
                 \/ e \in ToSet(fetched \o batch)
                 \/ Rank(Present, e) > Len(fetched) + Len(batch)
  BY <1>1, <1>2, <1>3, <1>4, PageFacts
<1>6. \A e \in before \cap Present :
          Untied(Present, e) =>
              \/ e \in ToSet(fetched \o batch)
              \/ Rank(Present, e) > Len(fetched) + Len(batch)
  BY <1>2, <1>5
<1> QED BY <1>5, <1>6

LEMMA ExportStart == AnalyticsInit => ExportInv
<1> SUFFICES ASSUME AnalyticsInit PROVE ExportInv
  OBVIOUS
<1> USE DEF AnalyticsInit
<1>1. IsFiniteSet(stored)
  BY FS_EmptySet
<1>2. max \in Nat /\ 0 <= max /\ max \in Limits
  <2>1. MaxPages * PageSize \in Nat
    BY AnalyticsAssumption
  <2> QED BY <2>1, AnalyticsAssumption
<1>3. AnalyticsTypeOK
  BY <1>2, AnalyticsAssumption DEF AnalyticsTypeOK
<1>4. /\ <<>> \in Seq(Employees \cup {All}) /\ <<>> \in Seq(stored) /\ DOMAIN <<>> = {}
      /\ Len(<<>>) = 0
  OBVIOUS
<1>5. ToSet(targets) = {} /\ IsInjective(targets)
  BY <1>4 DEF ToSet, IsInjective
<1>6. ExportTypes
  BY <1>1, <1>2, <1>3, <1>4, <1>5 DEF ExportTypes
<1> QED BY <1>6 DEF ExportInv, ExportPlace, PagesKeepUp, CollectedIsEnough, ExportKeepsNewest

LEMMA ArriveKeeps ==
    ASSUME ExportInv, NEW e \in Events, Arrive(e)
    PROVE  ExportInv'
<1>1. /\ stored' = stored \cup {e} /\ e \notin stored
      /\ UNCHANGED <<export, selection, targets, max, collected, fetched, offset, page,
                     exported, before>>
  BY DEF Arrive, exportVars
<1>2. ExportTypes
  BY DEF ExportInv
<1>3. ExportTypes'
  <2>1. IsFiniteSet(stored')
    BY <1>1, <1>2, FS_AddElement DEF ExportTypes
  <2>2. AnalyticsTypeOK'
    BY <1>1, <1>2 DEF ExportTypes, AnalyticsTypeOK
  <2>3. fetched \in Seq(stored') /\ collected \in Seq(stored')
    <3>1. ASSUME NEW s \in Seq(stored) PROVE s \in Seq(stored')
      BY <1>1
    <3> QED BY <1>2, <3>1 DEF ExportTypes
  <2>4. Chosen' = Chosen
    BY <1>1 DEF Chosen
  <2> QED BY <1>1, <1>2, <2>1, <2>2, <2>3, <2>4 DEF ExportTypes
<1>4. Fetched' = Fetched
  BY <1>1 DEF Fetched, Chosen
<1>5. ASSUME NEW t
      PROVE  /\ Matching(t) \subseteq Matching(t)' /\ IsFiniteSet(Matching(t)')
             /\ before \cap Matching(t)' = before \cap Matching(t)
  <2>1. Matching(t)' \in SUBSET stored'
    BY DEF Matching
  <2>2. IsFiniteSet(Matching(t)')
    BY <1>3, <2>1, FS_Subset DEF ExportTypes
  <2>3. before \subseteq stored
    BY <1>2 DEF ExportTypes, AnalyticsTypeOK
  <2> QED BY <1>1, <2>2, <2>3 DEF Matching
<1>6. ASSUME NEW t, NEW f
      PROVE  /\ Untied(Matching(t)', f) => Untied(Matching(t), f)
             /\ Rank(Matching(t), f) \in Nat /\ Rank(Matching(t)', f) \in Nat
             /\ Rank(Matching(t), f) <= Rank(Matching(t)', f)
  BY <1>5, RowsOnlyFallBack
<1>7. ExportPlace'
  BY <1>1 DEF ExportInv, ExportPlace
<1>8. PagesKeepUp'
  <2>0. PICK h : h = Head(targets)
    OBVIOUS
  <2> SUFFICES ASSUME export = "fetch"
               PROVE  /\ fetched \in Seq(Matching(h)')
                      /\ \A j \in 1..Len(fetched) : j <= Rank(Matching(h)', fetched[j])
                      /\ \A f \in before \cap Matching(h)' :
                             Untied(Matching(h)', f) =>
                                 f \in ToSet(fetched) \/ Rank(Matching(h)', f) > Len(fetched)
    BY <1>1, <2>0 DEF PagesKeepUp, Present, Matching
  <2>1. /\ fetched \in Seq(Matching(h))
        /\ \A j \in 1..Len(fetched) : j <= Rank(Matching(h), fetched[j])
        /\ \A f \in before \cap Matching(h) :
               Untied(Matching(h), f) =>
                   f \in ToSet(fetched) \/ Rank(Matching(h), f) > Len(fetched)
    BY <2>0 DEF ExportInv, PagesKeepUp, Present
  <2>2. fetched \in Seq(Matching(h)')
    BY <1>5, <2>1
  <2>3. Len(fetched) \in Nat
    BY <2>1
  <2>4. ASSUME NEW j \in 1..Len(fetched) PROVE j <= Rank(Matching(h)', fetched[j])
    BY <1>6, <2>1, <2>3
  <2>5. ASSUME NEW f \in before \cap Matching(h)', Untied(Matching(h)', f)
        PROVE  f \in ToSet(fetched) \/ Rank(Matching(h)', f) > Len(fetched)
    BY <1>5, <1>6, <2>1, <2>3, <2>5
  <2> QED BY <2>2, <2>4, <2>5
<1>9. CollectedIsEnough'
  <2> SUFFICES ASSUME export = "fetch" PROVE CollectedIsEnough'
    BY <1>1 DEF CollectedIsEnough
  <2>1. max \in Nat
    BY <1>2, LimitFacts
  <2>2. ASSUME NEW t \in Fetched, NEW f \in before \cap Matching(t)',
               Untied(Matching(t)', f)
        PROVE  f \in ToSet(collected) \/ Rank(Matching(t)', f) > max
    <3>1. f \in before \cap Matching(t) /\ Untied(Matching(t), f)
      BY <1>5, <1>6, <2>2
    <3>2. f \in ToSet(collected) \/ Rank(Matching(t), f) > max
      BY <3>1 DEF ExportInv, CollectedIsEnough
    <3> QED BY <1>6, <2>1, <3>2
  <2>3. ASSUME NEW time \in Nat
        PROVE  /\ IsFiniteSet(Newer(collected, time))
               /\ Cardinality(Newer(collected, time))
                      <= Cardinality(Since(GrantsOf(stored', Fetched), time))
    <3>1. /\ IsFiniteSet(Newer(collected, time))
          /\ Cardinality(Newer(collected, time))
                 <= Cardinality(Since(GrantsOf(stored, Fetched), time))
      BY DEF ExportInv, CollectedIsEnough
    <3>2. GrantsOf(stored, Fetched) \subseteq GrantsOf(stored', Fetched)
      BY <1>1 DEF GrantsOf
    <3>3. GrantsOf(stored', Fetched) \in SUBSET (stored')
      BY DEF GrantsOf
    <3>4. GrantsOf(stored, Fetched) \in SUBSET stored
      BY DEF GrantsOf
    <3>5. IsFiniteSet(GrantsOf(stored', Fetched)) /\ IsFiniteSet(GrantsOf(stored, Fetched))
      BY <1>2, <1>3, <3>3, <3>4, FS_Subset DEF ExportTypes
    <3>6. /\ Cardinality(Since(GrantsOf(stored, Fetched), time)) \in Nat
          /\ Cardinality(Since(GrantsOf(stored', Fetched), time)) \in Nat
          /\ Cardinality(Since(GrantsOf(stored, Fetched), time))
                <= Cardinality(Since(GrantsOf(stored', Fetched), time))
      BY <3>2, <3>5, SinceIsFinite
    <3>7. Cardinality(Newer(collected, time)) \in Nat
      BY <3>1, FS_CardinalityType
    <3> QED BY <3>1, <3>6, <3>7
  <2> QED BY <1>1, <1>4, <2>2, <2>3 DEF CollectedIsEnough, Matching
<1>10. ExportKeepsNewest'
  <2> DEFINE rows == {f \in stored : f.granted /\ Selected(f)}
             more == {f \in stored' : f.granted /\ Selected(f)}
  <2> SUFFICES ASSUME export = "done", NEW f \in more \cap before
               PROVE  \/ f \in ToSet(exported)
                      \/ Cardinality({g \in more : g.time >= f.time}) > max
                      \/ \E g \in more \ {f} : g.time = f.time
    BY <1>1 DEF ExportKeepsNewest, Selected
  <2>1. before \subseteq stored
    BY <1>2 DEF ExportTypes, AnalyticsTypeOK
  <2>2. rows \subseteq more /\ f \in rows
    BY <1>1, <2>1
  <2>3. more \in SUBSET (stored')
    OBVIOUS
  <2>4. \/ f \in ToSet(exported)
        \/ Cardinality({g \in rows : g.time >= f.time}) > max
        \/ \E g \in rows \ {f} : g.time = f.time
    BY <2>2 DEF ExportInv, ExportKeepsNewest
  <2>5. max \in Nat
    BY <1>2, LimitFacts
  <2> HIDE DEF rows, more
  <2>6. IsFiniteSet(more)
    BY <1>3, <2>3, FS_Subset DEF ExportTypes
  <2>7. /\ Rank(rows, f) \in Nat /\ Rank(more, f) \in Nat
        /\ Rank(rows, f) <= Rank(more, f)
    BY <2>2, <2>6, RowsOnlyFallBack
  <2>8. CASE Rank(rows, f) > max
    <3>1. Rank(more, f) > max
      BY <2>5, <2>7, <2>8
    <3> QED BY <3>1 DEF Rank, Since
  <2>9. CASE ~(Rank(rows, f) > max)
    BY <2>2, <2>4, <2>9 DEF Rank, Since
  <2> QED BY <2>8, <2>9
<1> QED BY <1>3, <1>7, <1>8, <1>9, <1>10 DEF ExportInv

LEMMA SubmitKeeps ==
    ASSUME ExportInv, NEW selected \in Targets, SubmitExport(selected)
    PROVE  ExportInv'
<1>1. /\ export = "idle" /\ export' = "fetch" /\ selection' = selected
      /\ targets' = (IF selected = <<>> THEN <<All>> ELSE selected)
      /\ before' = stored
      /\ UNCHANGED <<stored, max, collected, fetched, offset, page, exported>>
  BY DEF SubmitExport
<1>2. /\ ExportTypes /\ fetched = <<>> /\ collected = <<>> /\ page = 0 /\ exported = <<>>
      /\ Len(<<>>) = 0 /\ DOMAIN <<>> = {}
  BY <1>1 DEF ExportInv, ExportPlace
<1>3. /\ max \in Nat /\ max > 0 /\ PageSize \in Nat /\ MaxPages \in Nat /\ MaxPages > 0
  BY <1>2, LimitFacts
<1>4. /\ targets' \in Seq(Employees \cup {All}) /\ IsInjective(targets')
      /\ targets' # <<>>
      /\ ToSet(targets') = Chosen'
  <2>1. CASE selected = <<>>
    <3>1. targets' = <<All>> /\ Chosen' = {All}
      BY <1>1, <2>1 DEF Chosen
    <3>2. /\ <<All>> \in Seq(Employees \cup {All}) /\ <<All>> # <<>>
          /\ DOMAIN <<All>> = {1} /\ <<All>>[1] = All
      OBVIOUS
    <3> QED BY <3>1, <3>2 DEF IsInjective, ToSet
  <2>2. CASE selected # <<>>
    <3>1. targets' = selected /\ Chosen' = ToSet(selected)
      BY <1>1, <2>2 DEF Chosen
    <3>2. selected \in Seq(Employees) /\ IsInjective(selected)
      BY AnalyticsAssumption
    <3>3. selected \in Seq(Employees \cup {All})
      BY <3>2
    <3> QED BY <2>2, <3>1, <3>2, <3>3
  <2> QED BY <2>1, <2>2
<1>5. Fetched' = {}
  BY <1>4 DEF Fetched
<1>6. ExportTypes'
  <2>1. AnalyticsTypeOK'
    BY <1>1, <1>2 DEF ExportTypes, AnalyticsTypeOK
  <2> QED BY <1>1, <1>2, <1>4, <2>1 DEF ExportTypes
<1>7. ExportPlace'
  BY <1>1, <1>2, <1>3, <1>4 DEF ExportPlace
<1>8. PagesKeepUp'
  <2>1. PICK h : h = Head(targets')
    OBVIOUS
  <2>2. Present' = Matching(h)
    BY <1>1, <2>1 DEF Present, Matching
  <2>3. /\ fetched' = <<>> /\ <<>> \in Seq(Matching(h)) /\ Len(<<>>) = 0
    BY <1>1, <1>2
  <2>4. \A e \in Matching(h) : Rank(Matching(h), e) > 0
    BY <1>2, RanksArePositive
  <2> QED BY <2>2, <2>3, <2>4 DEF PagesKeepUp
<1>9. CollectedIsEnough'
  <2>1. ASSUME NEW time \in Nat
        PROVE  /\ IsFiniteSet(Newer(<<>>, time))
               /\ Cardinality(Newer(<<>>, time)) <= Cardinality(Since(GrantsOf(stored, {}), time))
    <3>1. Newer(<<>>, time) = {} /\ Since(GrantsOf(stored, {}), time) = {}
      BY <1>2 DEF Newer, Since, GrantsOf
    <3>2. IsFiniteSet({}) /\ Cardinality({}) = 0 /\ 0 <= 0
      BY FS_EmptySet
    <3> QED BY <3>1, <3>2
  <2> QED BY <1>1, <1>2, <1>5, <2>1 DEF CollectedIsEnough
<1>10. ExportKeepsNewest'
  BY <1>1 DEF ExportKeepsNewest
<1> QED BY <1>6, <1>7, <1>8, <1>9, <1>10 DEF ExportInv

LEMMA PageKeeps ==
    ASSUME ExportInv, Page
    PROVE  ExportInv'
<1>1. PICK batch \in Answers(Head(targets), PageLimit) :
        /\ ~LastBatch(batch)
        /\ fetched' = fetched \o batch
        /\ offset' = offset + Len(batch)
  BY DEF Page, NextOffset
<1>2. /\ export = "fetch" /\ page' = page + 1
      /\ UNCHANGED <<stored, export, selection, targets, max, collected, exported, before>>
  BY DEF Page
<1>3. ExportTypes
  BY DEF ExportInv
<1>4. /\ batch \in Seq(Present) /\ Len(batch) \in Nat /\ Len(batch) <= PageLimit
      /\ fetched \o batch \in Seq(Present)
      /\ Len(fetched \o batch) = Len(fetched) + Len(batch)
      /\ \A j \in 1..Len(fetched \o batch) : j <= Rank(Present, (fetched \o batch)[j])
      /\ \A e \in before \cap Present :
             Untied(Present, e) =>
                 \/ e \in ToSet(fetched \o batch)
                 \/ Rank(Present, e) > Len(fetched) + Len(batch)
  BY <1>2, AnsweredPage
<1>5. /\ max \in Nat /\ PageSize \in Nat /\ MaxPages \in Nat /\ page \in Nat
      /\ Len(fetched) \in Nat /\ Len(fetched) < max /\ page < MaxPages
      /\ Len(fetched) = page * PageSize
  BY <1>2, <1>3, LimitFacts DEF ExportInv, ExportTypes, ExportPlace
<1>6. /\ Len(fetched) + Len(batch) = (page + 1) * PageSize
      /\ Len(fetched) + Len(batch) < max
      /\ page + 1 < MaxPages
  <2>1. PageLimit \in Nat
    BY <1>5 DEF PageLimit
  <2>2. /\ Len(batch) = PageLimit /\ Len(fetched) + Len(batch) # max
        /\ page + 1 # MaxPages
    BY <1>1, <1>4, <2>1 DEF LastBatch
  <2>3. Len(batch) = PageSize /\ PageSize < max - Len(fetched)
    BY <1>5, <2>2 DEF PageLimit
  <2>4. (page + 1) * PageSize = page * PageSize + PageSize
    BY <1>5
  <2> QED BY <1>5, <2>2, <2>3, <2>4
<1>7. Present' = Present /\ Fetched' = Fetched
  BY <1>2 DEF Present, Matching, Fetched, Chosen
<1>8. ExportTypes'
  <2>1. AnalyticsTypeOK'
    BY <1>1, <1>2, <1>3, <1>4, <1>5, <1>6 DEF ExportTypes, AnalyticsTypeOK
  <2>2. fetched' \in Seq(stored')
    <3>1. Present \subseteq stored
      BY DEF Present, Matching
    <3> QED BY <1>1, <1>2, <1>4, <3>1
  <2>3. Chosen' = Chosen
    BY <1>2 DEF Chosen
  <2> QED BY <1>1, <1>2, <1>3, <1>4, <1>5, <2>1, <2>2, <2>3 DEF ExportTypes
<1>9. ExportPlace'
  BY <1>1, <1>2, <1>4, <1>6 DEF ExportInv, ExportPlace
<1>10. PagesKeepUp'
  BY <1>1, <1>2, <1>4, <1>7 DEF PagesKeepUp
<1>11. CollectedIsEnough'
  <2>1. \A t : Matching(t)' = Matching(t)
    BY <1>2 DEF Matching
  <2> QED BY <1>2, <1>7, <2>1 DEF ExportInv, CollectedIsEnough
<1>12. ExportKeepsNewest'
  BY <1>2 DEF ExportKeepsNewest
<1> QED BY <1>8, <1>9, <1>10, <1>11, <1>12 DEF ExportInv

\* Of an employee whose last page has come, only rows behind the limit are
\* missing: either that was all there is, or the limit is reached, and the
\* pages of an employee are as many as the largest limit needs.
LEMMA LastPageSuffices ==
    ASSUME ExportInv, export = "fetch",
           NEW batch \in Answers(Head(targets), PageLimit), LastBatch(batch),
           NEW e \in before \cap Present, Untied(Present, e)
    PROVE  e \in ToSet(fetched \o batch) \/ Rank(Present, e) > max
<1>1. /\ Len(batch) \in Nat /\ Len(batch) <= PageLimit
      /\ Len(batch) < PageLimit => Len(fetched) + Len(batch) = Cardinality(Present)
      /\ \/ e \in ToSet(fetched \o batch)
         \/ Rank(Present, e) > Len(fetched) + Len(batch)
  BY AnsweredPage
<1>2. /\ max \in Nat /\ PageSize \in Nat /\ MaxPages \in Nat /\ page \in Nat
      /\ Len(fetched) \in Nat /\ Len(fetched) < max /\ page < MaxPages
      /\ Len(fetched) = page * PageSize /\ max <= MaxPages * PageSize
  BY LimitFacts DEF ExportInv, ExportTypes, ExportPlace
<1>3. /\ Rank(Present, e) \in Nat /\ Cardinality(Present) \in Nat
      /\ Rank(Present, e) <= Cardinality(Present)
  <2>1. IsFiniteSet(Present) /\ Since(Present, e.time) \in SUBSET Present
    BY MatchingIsFinite DEF ExportInv, Present, Since
  <2> QED BY <2>1, FS_Subset, FS_CardinalityType DEF Rank
<1>4. CASE Len(batch) < PageLimit
  BY <1>1, <1>2, <1>3, <1>4
<1>5. CASE Len(fetched) + Len(batch) = max
  BY <1>1, <1>5
<1>6. CASE ~(Len(batch) < PageLimit) /\ Len(fetched) + Len(batch) # max
  <2>1. PageLimit \in Nat
    BY <1>2 DEF PageLimit
  <2>2. Len(batch) = PageLimit
    BY <1>1, <1>6, <2>1
  <2>3. Len(batch) = PageSize /\ PageSize < max - Len(fetched)
    BY <1>2, <1>6, <2>2 DEF PageLimit
  <2>4. page + 1 = MaxPages
    BY <1>6 DEF LastBatch
  <2>5. (page + 1) * PageSize = page * PageSize + PageSize
    BY <1>2
  <2>6. MaxPages * PageSize = Len(fetched) + PageSize
    BY <1>2, <2>4, <2>5
  <2> QED BY <1>2, <2>3, <2>6
<1> QED BY <1>4, <1>5, <1>6

\* The rows collected with those of the present employee.
LEMMA CollectedGrows ==
    ASSUME ExportInv, export = "fetch", NEW batch \in Answers(Head(targets), PageLimit),
           NEW time \in Nat
    PROVE  LET rows == collected \o fetched \o batch
           IN  /\ rows \in Seq(stored)
               /\ ToSet(rows) = ToSet(collected) \cup ToSet(fetched \o batch)
               /\ IsFiniteSet(Newer(rows, time))
               /\ Cardinality(Newer(rows, time))
                      <= Cardinality(Since(GrantsOf(stored, Fetched \cup {Head(targets)}), time))
<1> DEFINE pages == fetched \o batch
           done == Cardinality(Since(GrantsOf(stored, Fetched), time))
           present == Cardinality(Since(Present, time))
           both == Cardinality(Since(GrantsOf(stored, Fetched \cup {Head(targets)}), time))
<1>1. /\ ExportTypes /\ targets # <<>>
      /\ collected \in Seq(stored) /\ fetched \in Seq(stored)
      /\ IsFiniteSet(stored)
  BY DEF ExportInv, ExportTypes, ExportPlace
<1>2. /\ IsFiniteSet(Present) /\ Present \subseteq stored
      /\ \A f \in Present : f.time \in Nat
  BY <1>1, MatchingIsFinite DEF Present
<1>3. /\ batch \in Seq(Present) /\ pages \in Seq(Present)
      /\ \A j \in 1..Len(pages) : j <= Rank(Present, pages[j])
  BY AnsweredPage
<1>4. batch \in Seq(stored) /\ pages \in Seq(stored)
  BY <1>2, <1>3
<1>5. collected \o fetched \o batch = collected \o pages
  BY <1>1, <1>4, ConcatAssociative
<1> HIDE DEF pages
<1>6. /\ IsFiniteSet(Newer(pages, time)) /\ Cardinality(Newer(pages, time)) \in Nat
      /\ Cardinality(Newer(pages, time)) <= present
  BY <1>2, <1>3, FetchedAreCounted
<1>7. /\ IsFiniteSet(Newer(collected, time))
      /\ Cardinality(Newer(collected, time)) <= done
  BY DEF ExportInv, CollectedIsEnough
<1>8. /\ IsFiniteSet(Newer(collected \o pages, time))
      /\ Cardinality(Newer(collected \o pages, time))
            <= Cardinality(Newer(collected, time)) + Cardinality(Newer(pages, time))
  BY <1>1, <1>4, <1>6, <1>7, NewerOfConcatenation
<1>9. both = done + present
  BY <1>1, OneMoreTarget
<1>10. present \in Nat /\ done \in Nat
  <2>1. GrantsOf(stored, Fetched) \in SUBSET stored
    BY DEF GrantsOf
  <2>2. IsFiniteSet(GrantsOf(stored, Fetched))
    BY <1>1, <2>1, FS_Subset
  <2> QED BY <1>2, <2>2, SinceIsFinite
<1>11. /\ Cardinality(Newer(collected, time)) \in Nat
       /\ Cardinality(Newer(collected \o pages, time)) \in Nat
  BY <1>7, <1>8, FS_CardinalityType
<1> HIDE DEF done, present, both
<1>12. Cardinality(Newer(collected \o pages, time)) <= both
  BY <1>6, <1>7, <1>8, <1>9, <1>10, <1>11
<1>13. /\ collected \o pages \in Seq(stored)
       /\ ToSet(collected \o pages) = ToSet(collected) \cup ToSet(pages)
  BY <1>1, <1>4, ConcatenationFacts
<1> QED BY <1>5, <1>8, <1>12, <1>13 DEF pages, both

LEMMA ExportedRows ==
    ASSUME ExportTypes
    PROVE  {e \in stored : e.granted /\ Selected(e)} = GrantsOf(stored, Chosen)
<1>1. CASE selection = <<>>
  BY <1>1 DEF Selected, GrantsOf, Chosen
<1>2. CASE selection # <<>>
  <2>1. selection \in Seq(Employees) /\ All \notin Employees
    BY <1>2, AnalyticsAssumption DEF ExportTypes
  <2>2. All \notin ToSet(selection)
    BY <2>1 DEF ToSet
  <2> QED BY <1>2, <2>2 DEF Selected, GrantsOf, Chosen
<1> QED BY <1>1, <1>2

\* When no employee is left, the file keeps what it should.
LEMMA FileIsComplete ==
    ASSUME ExportTypes, NEW rows \in Seq(stored),
           \A t \in Chosen : \A e \in before \cap Matching(t) :
               Untied(Matching(t), e) =>
                   e \in ToSet(rows) \/ Rank(Matching(t), e) > max,
           \A time \in Nat :
               /\ IsFiniteSet(Newer(rows, time))
               /\ Cardinality(Newer(rows, time))
                      <= Cardinality(Since(GrantsOf(stored, Chosen), time)),
           NEW e \in GrantsOf(stored, Chosen) \cap before,
           Untied(GrantsOf(stored, Chosen), e)
    PROVE  e \in ToSet(Top(rows)) \/ Rank(GrantsOf(stored, Chosen), e) > max
<1> DEFINE all == GrantsOf(stored, Chosen)
<1>1. PICK t \in Chosen : e \in Matching(t)
  BY DEF GrantsOf, Matching
<1>2. Matching(t) \subseteq all
  BY DEF GrantsOf, Matching
<1>3. all \in SUBSET stored
  BY DEF GrantsOf
<1>4. IsFiniteSet(all)
  BY <1>3, FS_Subset DEF ExportTypes
<1>5. max \in Nat /\ \A f \in stored : f.time \in Nat
  BY LimitFacts
<1> HIDE DEF all
<1>6. /\ Untied(Matching(t), e)
      /\ Rank(Matching(t), e) \in Nat /\ Rank(all, e) \in Nat
      /\ Rank(Matching(t), e) <= Rank(all, e)
  <2>1. Untied(all, e)
    BY DEF all
  <2> QED BY <1>2, <1>4, <2>1, RowsOnlyFallBack
<1>7. e \in ToSet(rows) \/ Rank(Matching(t), e) > max
  BY <1>1, <1>6
<1>8. CASE Rank(Matching(t), e) > max
  BY <1>5, <1>6, <1>8 DEF all
<1>9. CASE e \in ToSet(rows) /\ ~(Rank(all, e) > max)
  <2>1. PICK i \in 1..Len(rows) : rows[i] = e
    BY <1>9 DEF ToSet
  <2>2. e \in stored /\ e.time \in Nat
    BY <1>3, <1>5 DEF all
  <2>3. /\ IsFiniteSet(Newer(rows, e.time))
        /\ Cardinality(Newer(rows, e.time)) <= Rank(all, e)
    BY <2>2 DEF all, Rank
  <2>4. Cardinality(Newer(rows, e.time)) \in Nat
    BY <2>3, FS_CardinalityType
  <2>5. Cardinality(Newer(rows, rows[i].time)) <= max
    BY <1>5, <1>6, <1>9, <2>1, <2>3, <2>4
  <2>6. rows[i] \in ToSet(Top(rows))
    BY <1>5, <2>5, TopKeeps
  <2> QED BY <2>1, <2>6
<1> QED BY <1>7, <1>8, <1>9 DEF all

LEMMA LastPageKeeps ==
    ASSUME ExportInv, LastPage
    PROVE  ExportInv'
<1>1. PICK batch \in Answers(Head(targets), PageLimit) :
        LastBatch(batch) /\ collected' = collected \o fetched \o batch
  BY DEF LastPage
<1>2. /\ export = "fetch" /\ fetched' = <<>> /\ offset' = 0 /\ page' = 0
      /\ targets' = Tail(targets)
      /\ UNCHANGED <<stored, selection, max, before>>
  BY DEF LastPage
<1>3. /\ targets' = <<>> => export' = "done" /\ exported' = Top(collected')
      /\ targets' # <<>> => export' = export /\ exported' = exported
  BY DEF LastPage
<1>4. ExportTypes /\ targets # <<>>
  BY <1>2 DEF ExportInv, ExportPlace
<1>5. /\ max \in Nat /\ max > 0 /\ MaxPages \in Nat /\ MaxPages > 0
      /\ PageSize \in Nat /\ 0 * PageSize = 0
      /\ \A f \in stored : f.time \in Nat
  BY <1>4, LimitFacts
<1>6. PICK h : h = Head(targets)
  OBVIOUS
<1>7. /\ targets' \in Seq(Employees \cup {All}) /\ IsInjective(targets')
      /\ ToSet(targets') = ToSet(targets) \ {h}
      /\ h \in ToSet(targets)
  BY <1>2, <1>4, <1>6, TailFacts DEF ExportTypes
<1>8. Chosen' = Chosen /\ Fetched' = Fetched \cup {h} /\ ToSet(targets') \subseteq Chosen
  <2>1. Chosen' = Chosen
    BY <1>2 DEF Chosen
  <2> QED BY <1>4, <1>7, <2>1 DEF Fetched, ExportTypes
<1>9. \A t : Matching(t)' = Matching(t)
  BY <1>2 DEF Matching
<1>10. /\ collected' \in Seq(stored)
       /\ ToSet(collected') = ToSet(collected) \cup ToSet(fetched \o batch)
  <2>1. 0 \in Nat
    OBVIOUS
  <2> QED BY <1>1, <1>2, <2>1, CollectedGrows
<1>11. ASSUME NEW time \in Nat
       PROVE  /\ IsFiniteSet(Newer(collected', time))
              /\ Cardinality(Newer(collected', time))
                     <= Cardinality(Since(GrantsOf(stored, Fetched'), time))
  <2>1. LET rows == collected \o fetched \o batch
        IN  /\ IsFiniteSet(Newer(rows, time))
            /\ Cardinality(Newer(rows, time))
                   <= Cardinality(Since(GrantsOf(stored, Fetched \cup {Head(targets)}), time))
    BY <1>2, CollectedGrows
  <2> QED BY <1>1, <1>6, <1>8, <2>1
<1>12. ASSUME NEW t \in Fetched', NEW e \in before \cap Matching(t), Untied(Matching(t), e)
       PROVE  e \in ToSet(collected') \/ Rank(Matching(t), e) > max
  <2>1. CASE t \in Fetched
    BY <1>2, <1>10, <1>12, <2>1 DEF ExportInv, CollectedIsEnough
  <2>2. CASE t = h
    <3>1. Present = Matching(t)
      BY <1>6, <2>2 DEF Present
    <3>2. e \in ToSet(fetched \o batch) \/ Rank(Present, e) > max
      BY <1>1, <1>2, <1>12, <3>1, LastPageSuffices
    <3> QED BY <1>10, <3>1, <3>2
  <2> QED BY <1>8, <2>1, <2>2
<1>13. Len(<<>>) = 0 /\ <<>> \in Seq(stored)
  OBVIOUS
<1>14. Len(Top(collected')) <= max
  <2>1. PICK rows : rows = collected'
    OBVIOUS
  <2>2. Len(Top(rows)) <= max
    BY <1>5, <1>10, <2>1, TopKeeps
  <2>3. Top(rows) = Top(collected')
    BY <2>1
  <2> QED BY <2>2, <2>3
<1>15. ExportTypes'
  <2>1. AnalyticsTypeOK'
    <3>1. export' \in {"idle", "fetch", "done", "failed"} /\ Len(exported') <= max
      BY <1>2, <1>3, <1>4, <1>14 DEF ExportTypes, AnalyticsTypeOK
    <3>2. stored \subseteq Events /\ before \subseteq stored
      BY <1>4 DEF ExportTypes, AnalyticsTypeOK
    <3> QED BY <1>2, <1>5, <1>13, <3>1, <3>2 DEF AnalyticsTypeOK
  <2> QED BY <1>2, <1>4, <1>7, <1>8, <1>10, <1>13, <2>1 DEF ExportTypes
<1>16. ExportPlace'
  BY <1>2, <1>3, <1>5, <1>13 DEF ExportPlace
<1>17. PagesKeepUp'
  <2>1. PICK g : g = Head(targets')
    OBVIOUS
  <2>2. Present' = Matching(g)
    BY <1>2, <2>1 DEF Present, Matching
  <2>3. /\ fetched' = <<>> /\ <<>> \in Seq(Matching(g)) /\ Len(<<>>) = 0
    BY <1>2
  <2>4. \A e \in Matching(g) : Rank(Matching(g), e) > 0
    BY <1>4, RanksArePositive
  <2> QED BY <2>2, <2>3, <2>4 DEF PagesKeepUp
<1>18. CollectedIsEnough'
  BY <1>2, <1>9, <1>11, <1>12 DEF CollectedIsEnough
<1>19. ExportKeepsNewest'
  <2> SUFFICES ASSUME export' = "done" PROVE ExportKeepsNewest'
    BY DEF ExportKeepsNewest
  <2>1. exported' = Top(collected') /\ targets' = <<>>
    BY <1>2, <1>3
  <2>2. Fetched' = Chosen
    BY <1>8, <2>1 DEF Fetched, ToSet
  <2>3. PICK rows : rows = collected'
    OBVIOUS
  <2>4. Top(rows) = exported'
    BY <2>1, <2>3
  <2> DEFINE all == GrantsOf(stored, Chosen)
  <2>5. ASSUME NEW e \in all \cap before, Untied(all, e)
        PROVE  e \in ToSet(Top(rows)) \/ Rank(all, e) > max
    <3>1. rows \in Seq(stored)
      BY <1>10, <2>3
    <3>2. \A t \in Chosen : \A f \in before \cap Matching(t) :
              Untied(Matching(t), f) =>
                  f \in ToSet(rows) \/ Rank(Matching(t), f) > max
      BY <1>12, <2>2, <2>3
    <3>3. \A time \in Nat :
              /\ IsFiniteSet(Newer(rows, time))
              /\ Cardinality(Newer(rows, time))
                     <= Cardinality(Since(GrantsOf(stored, Chosen), time))
      BY <1>11, <2>2, <2>3
    <3> QED BY <1>4, <2>5, <3>1, <3>2, <3>3, FileIsComplete
  <2>6. {e \in stored : e.granted /\ Selected(e)} = all
    BY <1>4, ExportedRows
  <2>7. {e \in stored' : e.granted /\ Selected(e)'} = all
    BY <1>2, <2>6 DEF Selected
  <2> HIDE DEF all
  <2>8. /\ \A e : Cardinality({f \in all : f.time >= e.time}) = Rank(all, e)
        /\ \A e : (\E f \in all \ {e} : f.time = e.time) = ~Untied(all, e)
    BY DEF Rank, Since, Untied
  <2> SUFFICES ASSUME NEW e \in all \cap before
               PROVE  \/ e \in ToSet(exported')
                      \/ Cardinality({f \in all : f.time >= e.time}) > max
                      \/ \E f \in all \ {e} : f.time = e.time
    BY <1>2, <2>7 DEF ExportKeepsNewest
  <2> QED BY <2>4, <2>5, <2>8
<1> QED BY <1>15, <1>16, <1>17, <1>18, <1>19 DEF ExportInv

LEMMA ExportStep == ExportInv /\ [AnalyticsNext]_analyticsVars => ExportInv'
<1> SUFFICES ASSUME ExportInv, [AnalyticsNext]_analyticsVars PROVE ExportInv'
  OBVIOUS
<1>1. ASSUME UNCHANGED <<stored, selection, targets, max, collected, fetched, offset, page,
                         exported, before>>,
             export' \in {"failed", export}
      PROVE  ExportInv'
  BY <1>1
     DEF ExportInv, ExportTypes, AnalyticsTypeOK, Chosen, Fetched, ExportPlace, PagesKeepUp,
         Present, Matching, CollectedIsEnough, ExportKeepsNewest, Selected
<1>2. CASE ExportFails
  BY <1>1, <1>2 DEF ExportFails
<1>3. CASE UNCHANGED analyticsVars
  BY <1>1, <1>3 DEF analyticsVars, exportVars
<1> QED BY <1>2, <1>3, ArriveKeeps, SubmitKeeps, PageKeeps, LastPageKeeps DEF AnalyticsNext

\* ExportKeepsNewest for any events, employees, limits and page sizes: the
\* file of an export has every granted event of the employees selected that
\* was stored when the export began, but for those behind the limit and those
\* of one millisecond.
THEOREM ExportsKeepTheNewest == AnalyticsSpec => []ExportKeepsNewest
<1>1. ExportInv => ExportKeepsNewest
  BY DEF ExportInv
<1> QED BY <1>1, ExportStart, ExportStep, PTL DEF AnalyticsSpec

-----------------------------------------------------------------------------
(* The parts together.                                                     *)

\* A behaviour of the four parts is one of each: what is proved of a part
\* holds of them together.
THEOREM PartsImplemented ==
    AdministrationSpec => EnrollmentSpec /\ AnalyticsSpec /\ EmployeesSpec /\ WizardSpec
<1>1. AdministrationInit => EnrollmentInit /\ AnalyticsInit /\ EmployeesInit /\ WizardInit
  BY DEF AdministrationInit
<1>2. [AdministrationNext]_administrationVars =>
          /\ [EnrollmentNext]_enrollmentVars
          /\ [AnalyticsNext]_analyticsVars
          /\ [EmployeesNext]_employeesVars
          /\ [WizardNext]_wizardVars
  BY DEF AdministrationNext, EnrollmentPart, AnalyticsPart, EmployeesPart, WizardPart,
         administrationVars
<1> QED
  BY <1>1, <1>2, PTL
     DEF AdministrationSpec, EnrollmentSpec, AnalyticsSpec, EmployeesSpec, WizardSpec

\* AdministrationTypeOK for any staff, events, employees and captures: an
\* export never fetches or writes more rows than its limit, a wizard never
\* counts more uploads than it has captures, and the caches, requests and
\* counters keep to their types.
THEOREM AdministrationIsTyped == AdministrationSpec => []AdministrationTypeOK
<1>1. EnrollmentInv /\ ExportInv /\ UpdateInv /\ WizardInv => AdministrationTypeOK
  BY DEF EnrollmentInv, ExportInv, ExportTypes, UpdateInv, WizardInv, WizardTypes,
         AdministrationTypeOK
<1>2. EnrollmentSpec => []EnrollmentInv
  BY EnrollmentStart, EnrollmentStep, PTL DEF EnrollmentSpec
<1>3. AnalyticsSpec => []ExportInv
  BY ExportStart, ExportStep, PTL DEF AnalyticsSpec
<1>4. EmployeesSpec => []UpdateInv
  BY UpdateInit, UpdateNext, PTL DEF EmployeesSpec
<1>5. WizardSpec => []WizardInv
  BY WizardStart, WizardStep, PTL DEF WizardSpec
<1> QED BY <1>1, <1>2, <1>3, <1>4, <1>5, PartsImplemented, PTL

=============================================================================
