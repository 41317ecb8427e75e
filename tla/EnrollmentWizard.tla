-------------------------- MODULE EnrollmentWizard --------------------------
(***************************************************************************)
(* The panel's enrolment wizard: photos are captured one at a time, each   *)
(* processed asynchronously, then uploaded one after the other; after an   *)
(* error the operator may try again, with all of them.                     *)
(***************************************************************************)
EXTENDS Naturals, Sequences, SequencesExt, FiniteSets

CONSTANTS
    Shots,       \* captures
    MaxAttempts  \* bound: clicks on the button that uploads

ASSUME WizardAssumption == MaxAttempts \in Nat

VARIABLES
    captures,    \* captures()
    processing,  \* processingCapture()
    shooting,    \* the capture embedFromCanvas works on, as a set
    uploading,   \* uploading()
    shots,       \* submit's copy of captures()
    progress,    \* uploadProgress()
    wizard,      \* the modal: open, completed or cancelled
    reported,    \* the count it emits
    attempts,    \* clicks so far
    rowsOf       \* environment: embeddings the backend stored of each capture

wizardVars == <<captures, processing, shooting, uploading, shots, progress,
                wizard, reported, attempts, rowsOf>>

WizardTypeOK ==
    /\ ToSet(captures) \subseteq Shots
    /\ IsInjective(captures)
    /\ processing <=> shooting # {}
    /\ uploading \in BOOLEAN
    /\ progress <= Len(shots)
    /\ wizard \in {"open", "completed", "cancelled"}
    /\ attempts \in 0..MaxAttempts
    /\ rowsOf \in [Shots -> Nat]

WizardInit ==
    /\ captures = <<>>
    /\ processing = FALSE
    /\ shooting = {}
    /\ uploading = FALSE
    /\ shots = <<>>
    /\ progress = 0
    /\ wizard = "open"
    /\ reported = 0
    /\ attempts = 0
    /\ rowsOf = [s \in Shots |-> 0]

\* capture(), up to its await; the button is disabled during an upload.
Capture(s) ==
    /\ wizard = "open"
    /\ ~uploading /\ ~processing
    /\ s \notin ToSet(captures) /\ rowsOf[s] = 0
    /\ processing' = TRUE
    /\ shooting' = {s}
    /\ UNCHANGED <<captures, uploading, shots, progress, wizard, reported, attempts, rowsOf>>

\* The rest of it: an embedding, or no face, or an error.  An upload may have
\* begun, or the wizard be closed, meanwhile.
Captured ==
    /\ processing
    /\ processing' = FALSE
    /\ shooting' = {}
    /\ \/ \E s \in shooting : captures' = Append(captures, s)
       \/ UNCHANGED captures
    /\ UNCHANGED <<uploading, shots, progress, wizard, reported, attempts, rowsOf>>

RemoveCapture(i) ==
    /\ wizard = "open"
    /\ ~uploading
    /\ captures' = RemoveAt(captures, i)
    /\ UNCHANGED <<processing, shooting, uploading, shots, progress, wizard, reported,
                   attempts, rowsOf>>

\* A plausible bug: the progress of the attempt before is kept.
Submit_KeepsProgress ==
    /\ wizard = "open"
    /\ ~uploading
    /\ attempts < MaxAttempts
    /\ attempts' = attempts + 1
    /\ uploading' = TRUE
    /\ shots' = captures
    /\ UNCHANGED <<captures, processing, shooting, progress, wizard, reported, rowsOf>>

\* submit(), up to the first request.
Submit ==
    /\ wizard = "open"
    /\ ~uploading
    /\ attempts < MaxAttempts
    /\ attempts' = attempts + 1
    /\ uploading' = TRUE
    /\ shots' = captures
    /\ progress' = 0
    /\ UNCHANGED <<captures, processing, shooting, wizard, reported, rowsOf>>

Uploaded == progress = Len(shots)

Posted == [rowsOf EXCEPT ![shots[progress + 1]] = @ + 1]

\* Plausible bugs: the loop goes on with the next capture after an error; it
\* tries the same capture again at once.
UploadFails_GoesOn ==
    /\ uploading
    /\ ~Uploaded
    /\ progress' = progress + 1
    /\ rowsOf' \in {rowsOf, Posted}
    /\ UNCHANGED <<captures, processing, shooting, uploading, shots, wizard, reported, attempts>>

UploadFails_Retries ==
    /\ uploading
    /\ ~Uploaded
    /\ rowsOf' \in {rowsOf, Posted}
    /\ UNCHANGED <<captures, processing, shooting, uploading, shots, progress, wizard,
                   reported, attempts>>

\* The request is answered with an error, or not at all: it may have been
\* executed.
UploadFails ==
    /\ uploading
    /\ ~Uploaded
    /\ uploading' = FALSE
    /\ rowsOf' \in {rowsOf, Posted}
    /\ UNCHANGED <<captures, processing, shooting, shots, progress, wizard, reported, attempts>>

UploadSucceeds ==
    /\ uploading
    /\ ~Uploaded
    /\ progress' = progress + 1
    /\ rowsOf' = Posted
    /\ UNCHANGED <<captures, processing, shooting, uploading, shots, wizard, reported, attempts>>

\* The last request was answered, or there was none.
Complete ==
    /\ uploading
    /\ Uploaded
    /\ uploading' = FALSE
    /\ wizard' = "completed"
    /\ reported' = Len(shots)
    /\ UNCHANGED <<captures, processing, shooting, shots, progress, attempts, rowsOf>>

\* The button is disabled during an upload.
Cancel ==
    /\ wizard = "open"
    /\ ~uploading
    /\ wizard' = "cancelled"
    /\ UNCHANGED <<captures, processing, shooting, uploading, shots, progress, reported,
                   attempts, rowsOf>>

WizardNext ==
    \/ \E s \in Shots : Capture(s)
    \/ Captured
    \/ \E i \in DOMAIN captures : RemoveCapture(i)
    \/ Submit \/ UploadSucceeds \/ UploadFails \/ Complete \/ Cancel
    \/ wizard # "open" /\ ~processing /\ UNCHANGED wizardVars

WizardSpec == WizardInit /\ [][WizardNext]_wizardVars

-----------------------------------------------------------------------------
(* Properties.                                                             *)

\* When the wizard reports its captures as stored, every one that was on the
\* screen is: but for one that was still being processed at the click, which
\* then appears and is left behind.
ReportedAreStored ==
    wizard = "completed" =>
        /\ reported <= Cardinality({s \in Shots : rowsOf[s] > 0})
        /\ \A i \in DOMAIN captures : i <= reported => rowsOf[captures[i]] > 0
        /\ Len(captures) <= reported + 1

\* A capture is stored again only by another attempt, and nothing is stored
\* of a capture that no attempt has sent.
OncePerAttempt ==
    /\ \A s \in Shots : rowsOf[s] <= attempts
    /\ uploading => \A i \in (progress + 1)..Len(shots) : rowsOf[shots[i]] < attempts

\* Failures and retries neither lose a capture reported as stored nor store
\* one more often than it was sent.
UploadsAddUp == ReportedAreStored /\ OncePerAttempt

=============================================================================
