---------------------------- MODULE MCAdmission ----------------------------
(***************************************************************************)
(* Policies for TLC.  The last one is not accepted.                         *)
(***************************************************************************)
EXTENDS Admission

SomePolicies ==
    {[SomePolicy EXCEPT !.auditLogSize = 1, !.failurePolicy = "Ignore"],
     [SomePolicy EXCEPT !.auditLogSize = 2, !.violationPolicy = "Warn"],
     [SomePolicy EXCEPT !.auditPolicy = "Skip"],
     [SomePolicy EXCEPT !.type = "Mutating", !.violationPolicy = "Dry"],
     [SomePolicy EXCEPT !.auditLogSize = 0]}
=============================================================================
