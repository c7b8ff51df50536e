------------------------------- MODULE VMPool -------------------------------
(***************************************************************************)
(* The pool of pre-heated V8 sandboxes (pkg/vm/vmpool, pkg/vm) and the      *)
(* requests that share it (runScript of pkg/webhook/handler.go).            *)
(*                                                                         *)
(* A request takes a permit of a weighted semaphore, pops a VM from a       *)
(* stack, runs a policy script on it in a goroutine of its own against a    *)
(* timer, answers, and a detached goroutine gives the VM back: it prepares  *)
(* a new JavaScript context, pushes the VM and releases the permit.  A      *)
(* request identifier stands for a handler and for that goroutine.          *)
(***************************************************************************)
EXTENDS Integers, Sequences, FiniteSets

CONSTANTS Requests,  \* identifiers of concurrent policy executions
          VMs,       \* the isolates that NewVMPool creates
          NoVM       \* the nil VM

\* The pool is created with at least one VM; VM_POOL_SIZE defaults to 4.
ASSUME VMsAssumption == IsFiniteSet(VMs) /\ VMs # {} /\ NoVM \notin VMs \cup Requests

ASSUME RequestsAssumption == IsFiniteSet(Requests)

Size == Cardinality(VMs)

VARIABLES
    cur,      \* permits of the semaphore that are taken
    waiters,  \* requests blocked in Acquire, first in first out
    granted,  \* blocked requests whose ready channel was closed
    stack,    \* VMs in the pool, the top last
    pc,       \* where each request is
    held,     \* the VM a request uses, or NoVM
    script,   \* the goroutine of RunScriptWithTimeout
    fate,     \* how that goroutine's script ended
    term,     \* VMs with a termination request that V8 has not handled
    ctx,      \* the JavaScript context of each VM
    outcome   \* what runScript returned to the handler

vars == <<cur, waiters, granted, stack, pc, held, script, fate, term, ctx, outcome>>

semaphore == <<cur, waiters, granted>>
sandbox == <<script, fate, term, ctx>>

\* "js": executing; "exiting": in the loop after __exit(); "callback": inside a
\* Go callback (get, list, fetchSync...), where V8 does not look at term.
ScriptState == {"none", "js", "exiting", "callback", "ended"}
Fate == {"none", "completed", "threw", "exited", "terminated"}

\* "fresh": prepare-context.js ran to its end and no policy has used it;
\* "used": a policy script ran in it; "bare": prepare-context.js was cut off, so
\* deny, exit, __response... are undefined.
ContextState == {"fresh", "used", "bare"}

Location == {"idle", "wait", "pop", "got", "run", "drain", "read", "put",
             "prepare", "push", "release"}

Orders(S) == {s \in [1 .. Cardinality(S) -> S] :
                        \A i, j \in 1 .. Cardinality(S) : s[i] = s[j] => i = j}

\* NewVMPool: size VMs pushed, a semaphore of that size.  It is the state of a
\* process that has just started, and of the one that replaces it.
NewVMPool(c, w, g, st, p, h, sc, f, t, x, o) ==
    /\ c = 0
    /\ w = << >>
    /\ g = {}
    /\ st \in Orders(VMs)
    /\ p = [r \in Requests |-> "idle"]
    /\ h = [r \in Requests |-> NoVM]
    /\ sc = [r \in Requests |-> "none"]
    /\ f = [r \in Requests |-> "none"]
    /\ t = {}
    /\ x = [v \in VMs |-> "fresh"]
    /\ o = [r \in Requests |-> "none"]

Init == NewVMPool(cur, waiters, granted, stack, pc, held, script, fate, term,
                  ctx, outcome)

Goto(r, l) == pc' = [pc EXCEPT ![r] = l]

-----------------------------------------------------------------------------
(* The semaphore, golang.org/x/sync/semaphore with weights of one.          *)

\* Acquire, up to the point where it returns or blocks.
Acquire(r) ==
    /\ pc[r] = "idle"
    /\ outcome' = [outcome EXCEPT ![r] = "none"]
    /\ fate' = [fate EXCEPT ![r] = "none"]
    /\ \/ /\ cur < Size /\ waiters = << >>
          /\ cur' = cur + 1
          /\ Goto(r, "pop")
          /\ UNCHANGED waiters
       \/ /\ ~(cur < Size /\ waiters = << >>)
          /\ waiters' = Append(waiters, r)
          /\ Goto(r, "wait")
          /\ UNCHANGED cur
    /\ UNCHANGED <<granted, stack, held, script, term, ctx>>

\* The blocked Acquire receives from its ready channel.
Granted(r) ==
    /\ pc[r] = "wait" /\ r \in granted
    /\ granted' = granted \ {r}
    /\ Goto(r, "pop")
    /\ UNCHANGED <<cur, waiters, stack, held, sandbox, outcome>>

\* notifyWaiters: c permits are taken and w waits; the front gets the free one.
NotifyWaiters(c, w, g) ==
    IF w # << >> /\ c < Size
    THEN cur' = c + 1 /\ waiters' = Tail(w) /\ granted' = g \cup {Head(w)}
    ELSE cur' = c /\ waiters' = w /\ granted' = g

Without(s, i) == [j \in 1 .. Len(s) - 1 |-> IF j < i THEN s[j] ELSE s[j + 1]]

\* Mutant: a withdrawn waiter gives back a permit that it never had.
CancelledReleases(r) ==
    /\ pc[r] = "wait" /\ r \notin granted
    /\ \E i \in 1 .. Len(waiters) :
          waiters[i] = r /\ NotifyWaiters(cur - 1, Without(waiters, i), granted)
    /\ outcome' = [outcome EXCEPT ![r] = "error"]
    /\ Goto(r, "idle")
    /\ UNCHANGED <<stack, held, sandbox>>

\* ctx.Done() is chosen by the select of a blocked Acquire.  A permit that was
\* granted meanwhile is kept; otherwise the waiter leaves the queue, Get returns
\* nil, runScript returns ctx.Err() and Put(nil) does nothing.
Cancelled(r) ==
    /\ pc[r] = "wait"
    /\ \/ /\ r \in granted
          /\ granted' = granted \ {r}
          /\ Goto(r, "pop")
          /\ UNCHANGED <<cur, waiters, outcome>>
       \/ /\ r \notin granted
          /\ \E i \in 1 .. Len(waiters) :
                /\ waiters[i] = r
                /\ IF i = 1
                   THEN NotifyWaiters(cur, Tail(waiters), granted)
                   ELSE waiters' = Without(waiters, i) /\ UNCHANGED <<cur, granted>>
          /\ outcome' = [outcome EXCEPT ![r] = "error"]
          /\ Goto(r, "idle")
    /\ UNCHANGED <<stack, held, sandbox>>

-----------------------------------------------------------------------------
(* The policy script.                                                       *)

\* Mutant: Pop reads the top of the stack and leaves it there.
PopPeeks(r) ==
    /\ pc[r] = "pop" /\ stack # << >>
    /\ held' = [held EXCEPT ![r] = stack[Len(stack)]]
    /\ Goto(r, "got")
    /\ UNCHANGED <<semaphore, stack, sandbox, outcome>>

\* Get pops under the stack's lock, after Acquire returned.
Pop(r) ==
    /\ pc[r] = "pop"
    /\ stack # << >>
    /\ held' = [held EXCEPT ![r] = stack[Len(stack)]]
    /\ stack' = SubSeq(stack, 1, Len(stack) - 1)
    /\ Goto(r, "got")
    /\ UNCHANGED <<semaphore, sandbox, outcome>>

\* Mutant: the early return comes before the deferred Put is registered.
MarshalFailsNoPut(r) ==
    /\ pc[r] = "got"
    /\ outcome' = [outcome EXCEPT ![r] = "error"]
    /\ Goto(r, "idle")
    /\ UNCHANGED <<semaphore, stack, held, sandbox>>

\* json.Marshal of the request fails: the deferred Put still runs.
MarshalFails(r) ==
    /\ pc[r] = "got"
    /\ outcome' = [outcome EXCEPT ![r] = "error"]
    /\ Goto(r, "put")
    /\ UNCHANGED <<semaphore, stack, held, sandbox>>

\* RunScriptWithTimeout starts the goroutine and its timer.
RunScript(r) ==
    /\ pc[r] = "got"
    /\ script' = [script EXCEPT ![r] = "js"]
    /\ ctx' = [ctx EXCEPT ![held[r]] = IF @ = "bare" THEN "bare" ELSE "used"]
    /\ Goto(r, "run")
    /\ UNCHANGED <<semaphore, stack, held, fate, term, outcome>>

\* The script returns or throws.  A termination request made just before stays
\* pending in the isolate: V8 handles it at the next JavaScript it runs.
ScriptReturns(r) ==
    /\ pc[r] \in {"run", "drain"} /\ script[r] = "js"
    /\ script' = [script EXCEPT ![r] = "ended"]
    /\ fate' \in {[fate EXCEPT ![r] = f] : f \in {"completed", "threw"}}
    /\ UNCHANGED <<semaphore, stack, pc, held, term, ctx, outcome>>

\* exit(), also the end of allow, deny, mutate and requeue: exitFn terminates the
\* isolate from inside and the script loops until V8 notices.
ScriptExits(r) ==
    /\ pc[r] \in {"run", "drain"} /\ script[r] = "js"
    /\ ctx[held[r]] # "bare"
    /\ script' = [script EXCEPT ![r] = "exiting"]
    /\ term' = term \cup {held[r]}
    /\ UNCHANGED <<semaphore, stack, pc, held, fate, ctx, outcome>>

ScriptCallsOut(r) ==
    /\ pc[r] \in {"run", "drain"} /\ script[r] = "js"
    /\ script' = [script EXCEPT ![r] = "callback"]
    /\ UNCHANGED <<semaphore, stack, pc, held, fate, term, ctx, outcome>>

CallbackReturns(r) ==
    /\ pc[r] \in {"run", "drain"} /\ script[r] = "callback"
    /\ script' = [script EXCEPT ![r] = "js"]
    /\ UNCHANGED <<semaphore, stack, pc, held, fate, term, ctx, outcome>>

\* V8 handles the termination request and unwinds the script.
ScriptTerminated(r) ==
    /\ pc[r] \in {"run", "drain"}
    /\ script[r] \in {"js", "exiting"} /\ held[r] \in term
    /\ script' = [script EXCEPT ![r] = "ended"]
    /\ fate' = [fate EXCEPT ![r] = IF script[r] = "exiting" THEN "exited"
                                   ELSE "terminated"]
    /\ term' = term \ {held[r]}
    /\ UNCHANGED <<semaphore, stack, pc, held, ctx, outcome>>

\* The select of RunScriptWithTimeout receives from errorChan.
ScriptResult(r) ==
    /\ pc[r] = "run" /\ script[r] = "ended"
    /\ script' = [script EXCEPT ![r] = "none"]
    /\ Goto(r, "read")
    /\ UNCHANGED <<semaphore, stack, held, fate, term, ctx, outcome>>

\* The select takes the timer, also when the result is already in errorChan.
TimeoutFires(r) ==
    /\ pc[r] = "run"
    /\ term' = term \cup {held[r]}
    /\ Goto(r, "drain")
    /\ UNCHANGED <<semaphore, stack, held, script, fate, ctx, outcome>>

\* Mutant: a VM whose script timed out is dropped instead of being put back.
DrainedNoPut(r) ==
    /\ pc[r] = "drain" /\ script[r] = "ended"
    /\ script' = [script EXCEPT ![r] = "none"]
    /\ outcome' = [outcome EXCEPT ![r] = "error"]
    /\ held' = [held EXCEPT ![r] = NoVM]
    /\ Goto(r, "idle")
    /\ UNCHANGED <<semaphore, stack, fate, term, ctx>>

\* <-errorChan after TerminateExecution: "script timed out".
Drained(r) ==
    /\ pc[r] = "drain" /\ script[r] = "ended"
    /\ script' = [script EXCEPT ![r] = "none"]
    /\ outcome' = [outcome EXCEPT ![r] = "error"]
    /\ Goto(r, "put")
    /\ UNCHANGED <<semaphore, stack, held, fate, term, ctx>>

\* What runScript (vm.go) and runScript (handler.go) make of a script's end: a
\* termination counts as success, and a context without __response yields a text
\* that is no JSON.
Answer(f, c) == IF f = "threw" \/ c = "bare" THEN "error" ELSE "ok"

ReadResponse(r) ==
    /\ pc[r] = "read"
    /\ outcome' = [outcome EXCEPT ![r] = Answer(fate[r], ctx[held[r]])]
    /\ Goto(r, "put")
    /\ UNCHANGED <<semaphore, stack, held, sandbox>>

-----------------------------------------------------------------------------
(* Put, in a goroutine of its own.                                          *)

\* Mutant: Put pushes the VM back with the context of the last script.
PutWithoutRecreate(r) ==
    /\ pc[r] = "put"
    /\ Goto(r, "push")
    /\ UNCHANGED <<semaphore, stack, held, sandbox, outcome>>

\* RecreateContext: NewContext starts prepare-context.js on the isolate.
StartPrepare(r) ==
    /\ pc[r] = "put"
    /\ script' = [script EXCEPT ![r] = "js"]
    /\ Goto(r, "prepare")
    /\ UNCHANGED <<semaphore, stack, held, fate, term, ctx, outcome>>

\* prepare-context.js ends, by itself or because V8 handles a termination request
\* that the policy script left behind; the new context replaces the old one.
Prepared(r) ==
    /\ pc[r] = "prepare" /\ script[r] = "js"
    /\ script' = [script EXCEPT ![r] = "none"]
    /\ ctx' = [ctx EXCEPT ![held[r]] = IF held[r] \in term THEN "bare" ELSE "fresh"]
    /\ term' = term \ {held[r]}
    /\ Goto(r, "push")
    /\ UNCHANGED <<semaphore, stack, held, fate, outcome>>

\* prepare-context.js takes longer than ten seconds: RecreateContext fails and
\* klog.Fatalf ends the process.  A new process starts with a new pool.
PrepareTimesOut(r) ==
    /\ pc[r] = "prepare"
    /\ NewVMPool(cur', waiters', granted', stack', pc', held', script', fate',
                 term', ctx', outcome')


Push(r) ==
    /\ pc[r] = "push"
    /\ stack' = Append(stack, held[r])
    /\ held' = [held EXCEPT ![r] = NoVM]
    /\ Goto(r, "release")
    /\ UNCHANGED <<semaphore, sandbox, outcome>>

\* Mutant: the permit is given back without notifying the waiters.
ReleaseNoNotify(r) ==
    /\ pc[r] = "release"
    /\ cur' = cur - 1
    /\ Goto(r, "idle")
    /\ UNCHANGED <<waiters, granted, stack, held, sandbox, outcome>>

Release(r) ==
    /\ pc[r] = "release"
    /\ NotifyWaiters(cur - 1, waiters, granted)
    /\ Goto(r, "idle")
    /\ UNCHANGED <<stack, held, sandbox, outcome>>

-----------------------------------------------------------------------------

Next ==
    \E r \in Requests :
        \/ Acquire(r) \/ Granted(r) \/ Cancelled(r) \/ Pop(r)
        \/ MarshalFails(r) \/ RunScript(r)
        \/ ScriptReturns(r) \/ ScriptExits(r) \/ ScriptCallsOut(r)
        \/ CallbackReturns(r) \/ ScriptTerminated(r)
        \/ ScriptResult(r) \/ TimeoutFires(r) \/ Drained(r) \/ ReadResponse(r)
        \/ StartPrepare(r) \/ Prepared(r) \/ PrepareTimesOut(r)
        \/ Push(r) \/ Release(r)

Spec == Init /\ [][Next]_vars

\* Goroutines that can run do run, timers fire, and V8 handles a termination
\* request in running JavaScript.  Nothing makes a policy script return by itself
\* or a Go callback finish, and no request has to be cancelled.
Fairness ==
    \A r \in Requests :
        /\ WF_vars(Granted(r)) /\ WF_vars(Pop(r))
        /\ WF_vars(MarshalFails(r) \/ RunScript(r))
        /\ WF_vars(ScriptTerminated(r))
        /\ WF_vars(ScriptResult(r) \/ TimeoutFires(r))
        /\ WF_vars(Drained(r)) /\ WF_vars(ReadResponse(r))
        /\ WF_vars(StartPrepare(r)) /\ WF_vars(Prepared(r) \/ PrepareTimesOut(r))
        /\ WF_vars(Push(r)) /\ WF_vars(Release(r))

FairSpec == Spec /\ Fairness

-----------------------------------------------------------------------------
(* What the pool promises: SandboxPool, with the VM of a request as its lease. *)

Holder(v) == IF \E r \in Requests : held[r] = v
             THEN CHOOSE r \in Requests : held[r] = v
             ELSE NoVM

Abstract == INSTANCE SandboxPool WITH
    Sandboxes <- VMs,
    Users <- Requests,
    Nobody <- NoVM,
    lease <- [v \in VMs |-> Holder(v)],
    clean <- {v \in VMs : ctx[v] # "used"}

\* The pool, semaphore, stack and contexts together, implements SandboxPool: a
\* sandbox is leased to one request at a time and is clean when it is leased.
ImplementsSandboxPool == Abstract!Spec

-----------------------------------------------------------------------------
(* Properties.                                                              *)

Holding == {"got", "run", "drain", "read", "put", "prepare", "push"}

\* Values of the variables; a request uses a VM exactly from Pop to Push.
TypeOK ==
    /\ cur \in Int
    /\ waiters \in Seq(Requests)
    /\ granted \subseteq Requests
    /\ stack \in Seq(VMs)
    /\ pc \in [Requests -> Location]
    /\ held \in [Requests -> VMs \cup {NoVM}]
    /\ script \in [Requests -> ScriptState]
    /\ fate \in [Requests -> Fate]
    /\ term \subseteq VMs
    /\ ctx \in [VMs -> ContextState]
    /\ outcome \in [Requests -> {"none", "ok", "error"}]
    /\ \A r \in Requests : held[r] # NoVM <=> pc[r] \in Holding

\* Get never panics with "returned object from the stack was nil": whoever holds a
\* permit and is about to pop finds a VM (vmpool.go, Get; Put pushes before it
\* releases).
NeverPopsNil == \A r \in Requests : pc[r] = "pop" => stack # << >>

\* Release never panics with "released more than held", and the semaphore never
\* admits more requests than there are VMs.
PermitsWithinSize == cur \in 0 .. Size

\* Two executions never share an isolate, and an isolate in use is not in the pool
\* a second time: one heap, one context, one termination flag per execution.
ExclusiveVM ==
    /\ \A r, s \in Requests : held[r] = held[s] /\ held[r] # NoVM => r = s
    /\ \A i \in 1 .. Len(stack) : \A r \in Requests : held[r] # stack[i]
    /\ \A i, j \in 1 .. Len(stack) : stack[i] = stack[j] => i = j

\* A policy script never starts in a context that an earlier policy script has
\* used, so no global of one request is visible to another (Put, RecreateContext).
StartsWithoutLeftovers ==
    /\ \A i \in 1 .. Len(stack) : ctx[stack[i]] # "used"
    /\ \A r \in Requests : pc[r] = "got" => ctx[held[r]] # "used"

\* A policy is reported as passed only if its script ended by itself or called
\* exit().  runScript (vm.go) reports a terminated script as success, so this rests
\* on no termination request surviving into another request's script.
NoUnrunPolicyPasses ==
    \A r \in Requests : outcome[r] = "ok" => fate[r] \in {"completed", "exited"}

\* A request is never left blocked while a permit is free: every Release and every
\* withdrawal from the queue hands the permit on.  It is also why NotifyWaiters,
\* a loop in the library, never grants more than one permit.
NoIdlePermit == waiters # << >> => cur = Size

-----------------------------------------------------------------------------
(* The inductive invariant behind the safety properties.                    *)

\* Requests on whose behalf a permit is taken.
Permits == granted \cup {r \in Requests : pc[r] \in Holding \cup {"pop", "release"}}

\* Blocked requests are either in the queue, once, or granted.
QueueInv ==
    /\ \A r \in granted : pc[r] = "wait"
    /\ \A i \in 1 .. Len(waiters) : pc[waiters[i]] = "wait" /\ waiters[i] \notin granted
    /\ \A i, j \in 1 .. Len(waiters) : waiters[i] = waiters[j] => i = j

\* The semaphore counts them.
PermitInv == cur = Cardinality(Permits) /\ cur <= Size

\* No VM is lost.
EveryVMSomewhere ==
    \A v \in VMs : \/ \E i \in 1 .. Len(stack) : stack[i] = v
                   \/ \E r \in Requests : held[r] = v

\* Contexts are replaced before a VM goes back.
ContextInv ==
    /\ StartsWithoutLeftovers
    /\ \A r \in Requests : pc[r] = "push" => ctx[held[r]] # "used"

\* A termination request is pending only while its own script can absorb it, or
\* until prepare-context.js does.
TerminationInv ==
    /\ \A i \in 1 .. Len(stack) : stack[i] \notin term
    /\ \A r \in Requests :
          held[r] \in term => \/ pc[r] = "run" /\ script[r] = "exiting"
                              \/ pc[r] \in {"drain", "put", "prepare"}

AnswerInv ==
    \A r \in Requests :
        /\ pc[r] \in {"wait", "pop", "got", "run", "drain", "read"} => outcome[r] = "none"
        /\ (pc[r] = "run" /\ script[r] = "ended") \/ pc[r] = "read" =>
              fate[r] \in {"completed", "threw", "exited"}
        /\ outcome[r] = "ok" => fate[r] \in {"completed", "exited"}

IInv ==
    /\ TypeOK /\ QueueInv /\ PermitInv /\ NoIdlePermit
    /\ ExclusiveVM /\ EveryVMSomewhere
    /\ ContextInv /\ TerminationInv /\ AnswerInv

-----------------------------------------------------------------------------

\* A VM that is out of the pool comes back unless its script sits in a Go callback:
\* the timer, the drain and Put never lose one.
VMReturns ==
    \A v \in VMs :
        (\E r \in Requests : held[r] = v) ~>
            \/ \E i \in 1 .. Len(stack) : stack[i] = v
            \/ \E r \in Requests : held[r] = v /\ script[r] = "callback"
=============================================================================
