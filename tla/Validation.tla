----------------------------- MODULE Validation -----------------------------
(***************************************************************************)
(* The webhook behind /crds (pkg/webhook/validation): whether the API server *)
(* may store a JsPolicy.                                                    *)
(*                                                                         *)
(* An entry of spec.resources is a sequence of its parts, << "pods" >> or    *)
(* << "pods", "log" >>, and << >> if it is empty.  Labels and names are      *)
(* checked by a Kubernetes library: a policy says what comes of it.          *)
(***************************************************************************)
EXTENDS Integers, Sequences, FiniteSets

CONSTANT Unset  \* a field that is not given

\* What is checked of a policy, here one that is accepted.
SomePolicy ==
    [namesValid |-> TRUE, operations |-> << "CREATE" >>, apiGroups |-> << "*" >>,
     apiVersions |-> << "*" >>, resources |-> << <<"pods">> >>, scope |-> Unset, type |-> "",
     failurePolicy |-> Unset, reinvocationPolicy |-> Unset, matchPolicy |-> Unset,
     timeoutSeconds |-> Unset, violationPolicy |-> Unset, auditPolicy |-> Unset,
     auditLogSize |-> Unset]

-----------------------------------------------------------------------------
(* Rules.                                                                   *)

Plain(entry) == Len(entry) = 1

\* Go's last assignment to hasResourceWithoutSubresource: the last entry without a
\* subresource decides.
EndsInPlain(resources) ==
    LET plain == {i \in DOMAIN resources : Plain(resources[i])}
    IN plain # {} /\ resources[CHOOSE i \in plain : \A j \in plain : j <= i] # <<"*">>

\* Mutant: only wildcards of the subresource are remembered.
ClashesWithSubresource(resources, i) ==
    LET entry == resources[i]
    IN Len(entry) = 2 /\ \E j \in 1 .. i - 1 : resources[j] = << entry[1], "*" >>

\* An earlier entry is x/* or */y, and this one is x/y.
Clashes(resources, i) ==
    LET entry == resources[i]
    IN Len(entry) = 2 /\ \E j \in 1 .. i - 1 :
           resources[j] \in {<< entry[1], "*" >>, << "*", entry[2] >>}

validateResources(resources) ==
    /\ resources # << >>
    /\ \A i \in DOMAIN resources : resources[i] # << >> /\ ~Clashes(resources, i)
    /\ Len(resources) > 1 => \A i \in DOMAIN resources : resources[i] # << "*", "*" >>
    /\ ~(<<"*">> \in {resources[i] : i \in DOMAIN resources} /\ EndsInPlain(resources))

\* A wildcard stands alone.
Alone(list, wildcard) == Len(list) > 1 => \A i \in DOMAIN list : list[i] # wildcard

supportedOperations == {"*", "CREATE", "DELETE", "UPDATE", "CONNECT"}

validateRule(policy) ==
    /\ Alone(policy.apiGroups, "*")
    /\ Alone(policy.apiVersions, "*")
    /\ \A i \in DOMAIN policy.apiVersions : policy.apiVersions[i] # ""
    /\ validateResources(policy.resources)
    /\ policy.scope \in {Unset, "Cluster", "Namespaced", "*"}

validateRuleWithOperations(policy) ==
    /\ policy.operations # << >>
    /\ Alone(policy.operations, "*")
    /\ \A i \in DOMAIN policy.operations :
          /\ policy.operations[i] \in supportedOperations
          /\ policy.type = "Controller" => policy.operations[i] \notin {"UPDATE", "CONNECT"}
    /\ validateRule(policy)

-----------------------------------------------------------------------------
(* Policies.                                                                *)

validateAuditLogSize(size) == size = Unset \/ size \in 1 .. 40

validateValidatingWebhook(policy) ==
    /\ policy.namesValid
    /\ validateRuleWithOperations(policy)
    /\ policy.failurePolicy \in {Unset, "Ignore", "Fail"}
    /\ policy.reinvocationPolicy \in {Unset, "Never", "IfNeeded"}
    /\ policy.matchPolicy \in {Unset, "Exact", "Equivalent"}
    /\ policy.type \in {"", "Mutating", "Validating", "Controller"}
    /\ policy.timeoutSeconds = Unset \/ policy.timeoutSeconds \in 1 .. 30
    /\ policy.auditPolicy \in {Unset, "Log", "Skip"}
    /\ policy.violationPolicy \in {Unset, "Deny", "Warn", "Dry"}
    /\ validateAuditLogSize(policy.auditLogSize)

ValidateJsPolicy(policy) == validateValidatingWebhook(policy)

ValidateJsPolicyUpdate(policy, old) ==
    /\ validateValidatingWebhook(policy)
    /\ policy.type = old.type

-----------------------------------------------------------------------------
(* What a rule selects, for comparison.  Kubernetes gives "*" the resources  *)
(* without their subresources, and x/y the subresource y of x.               *)

Names == {"pods", "nodes"}
Subresources == {"log", "status"}
Selectable == {<< n >> : n \in Names} \cup (Names \X Subresources)

Selects(entry) ==
    {r \in Selectable :
        \/ entry = << "*", "*" >>
        \/ /\ Len(entry) = Len(r)
           /\ \A k \in DOMAIN r : entry[k] \in {"*", r[k]}}

RuleEntries == {<< n >> : n \in Names \cup {"*"}} \cup ((Names \cup {"*"}) \X (Subresources \cup {"*"}))

ResourceLists == UNION {[1 .. n -> RuleEntries] : n \in 1 .. 3}
=============================================================================
