----------------------------- MODULE MCReconciler -----------------------------
(***************************************************************************)
(* Reconciler for TLC: scenarios, each with the faults that work together.  *)
(***************************************************************************)
EXTENDS Reconciler, TLC

CONSTANTS a, b,   \* two sources
          r1, r2, \* rules
          bad     \* rules that the server does not accept

\* The random names of webhook configurations are interchangeable.
NamesSymmetry == Permutations(Names)

Webhook(sources, rules, faults_, edits_, failures) ==
    [type |-> "Webhook", sources |-> sources, rules |-> rules, faults |-> faults_,
     edits |-> edits_, failures |-> failures]

Controller(sources, rules, faults_, edits_, failures) ==
    [Webhook(sources, rules, faults_, edits_, failures) EXCEPT !.type = "Controller"]

\* In turn: whatever may happen to webhooks; rules that are not accepted; conditions in
\* conflict; edits alone; an edit with failed writes of its bundle; whatever may happen to
\* a controller policy; one whose bundles compile.
AllScenarios ==
    {Webhook({Empty, a}, {r1, r2}, {"bundler", "write", "status", "restart", "webhook"}, 2, 2),
     Webhook({Empty, a}, {r1, bad}, {"write", "webhook"}, 2, 1),
     Webhook({Empty, a}, {r1, r2}, {"bundler", "write", "conditions"}, 2, 1),
     Webhook({Empty, a, b}, {r1}, {"bundler"}, 3, 0),
     Webhook({Empty, a, b}, {r1}, {"bundler", "write", "restart"}, 1, 3),
     Controller({Empty, a}, {r1}, {"bundler", "write", "status", "restart", "manager", "bundle"}, 2, 2),
     Controller({Empty, a}, {r1, r2}, {"write", "restart", "manager"}, 2, 2)}

LiveScenarios ==
    {Webhook({Empty, a}, {r1, r2}, {"bundler", "write", "webhook"}, 1, 1),
     Controller({Empty, a}, {r1, r2}, {"bundler", "write", "manager"}, 1, 1)}

\* A controller policy whose bundler may fail.
StaleScenario == {Controller({Empty, a, b}, {r1, r2}, {"bundler"}, 2, 0)}
=============================================================================
