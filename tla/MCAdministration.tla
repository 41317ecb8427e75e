-------------------------- MODULE MCAdministration --------------------------
(* What happens around the gate: enrolment at the device and in the panel, *)
(* updates of employees, and the reports.  A behaviour is one of one part, *)
(* the others rest in their initial state.                                 *)
EXTENDS Enrollment, Analytics, Employees, EnrollmentWizard

CONSTANTS p, q

VARIABLE part

Symmetry == Permutations(Staff)

-----------------------------------------------------------------------------
(* Analytics: two employees, an event each at one time, an entry and an    *)
(* exit of another day, and one that was not granted.                      *)

Event(i, who, time, granted, inward) ==
    [id |-> i, who |-> who, time |-> time, granted |-> granted, inward |-> inward]

SomeEvents ==
    {Event(1, p, 1, TRUE, TRUE), Event(2, q, 5, TRUE, TRUE), Event(3, p, 5, TRUE, TRUE),
     Event(4, q, 9, TRUE, TRUE), Event(5, p, 11, TRUE, FALSE), Event(6, q, 8, FALSE, TRUE)}

SomeTargets == {<<>>, <<q, p>>}
Shift == p :> 1 @@ q :> 7

-----------------------------------------------------------------------------
administrationVars == <<part, enrollmentVars, analyticsVars, employeesVars, wizardVars>>

AdministrationInit ==
    /\ part \in {"enrollment", "analytics", "employees", "wizard"}
    /\ EnrollmentInit /\ AnalyticsInit /\ EmployeesInit /\ WizardInit
    /\ part # "analytics" => max = 1
    /\ part # "employees" =>
           /\ row = CHOOSE r \in Rows : TRUE
           /\ body = CHOOSE b \in [Requests -> Bodies] : TRUE

EnrollmentPart ==
    /\ part = "enrollment" /\ UNCHANGED part
    /\ EnrollmentNext
    /\ UNCHANGED <<analyticsVars, employeesVars, wizardVars>>

AnalyticsPart ==
    /\ part = "analytics" /\ UNCHANGED part
    /\ AnalyticsNext
    /\ UNCHANGED <<enrollmentVars, employeesVars, wizardVars>>

EmployeesPart ==
    /\ part = "employees" /\ UNCHANGED part
    /\ EmployeesNext
    /\ UNCHANGED <<enrollmentVars, analyticsVars, wizardVars>>

WizardPart ==
    /\ part = "wizard" /\ UNCHANGED part
    /\ WizardNext
    /\ UNCHANGED <<enrollmentVars, analyticsVars, employeesVars>>

AdministrationNext == EnrollmentPart \/ AnalyticsPart \/ EmployeesPart \/ WizardPart

AdministrationSpec ==
    AdministrationInit /\ [][AdministrationNext]_administrationVars

\* Every part keeps to its types.
AdministrationTypeOK ==
    EnrollmentTypeOK /\ AnalyticsTypeOK /\ EmployeesTypeOK /\ WizardTypeOK

=============================================================================
