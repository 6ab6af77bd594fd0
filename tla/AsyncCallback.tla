---------------------------- MODULE AsyncCallback ----------------------------
(***************************************************************************)
(* Callbacks from threads that Ruby did not create (Function.c, POSIX).    *)
(*                                                                         *)
(* Such a thread may not run Ruby code.  It pushes a gvl_callback that     *)
(* lives on its own stack onto the list of the dispatcher of the function  *)
(* it called, and sleeps until the callback is marked done.  The           *)
(* dispatcher is a Ruby thread: it sleeps without the GVL until the list   *)
(* is not empty, pops the head and starts a runner, a Ruby thread of its   *)
(* own, which executes the proc and wakes the native thread.               *)
(*                                                                         *)
(* The dispatcher is created by the first FFI::Function around a proc, by  *)
(* a check that is not atomic: naming the new thread calls Ruby methods,   *)
(* and so may switch threads before the pointer is stored.  It can be      *)
(* interrupted (Thread#kill, Thread#wakeup, interpreter exit), which runs  *)
(* async_cb_stop, and it does not survive a fork: the child restarts it    *)
(* from a hook on Process._fork.  The model follows the child.             *)
(*                                                                         *)
(* What is done under async_cb_mutex is one action, taking it another, so  *)
(* that a fork can find it locked.  cb->async_mutex guards two statements  *)
(* on each side and is folded into them.                                   *)
(***************************************************************************)
EXTENDS Naturals, Sequences, FiniteSets, Functions

CONSTANTS
  Creator,      \* Ruby threads that make one function each; also names
                \* that function and the dispatcher the thread may allocate
  Native,       \* threads that are not Ruby threads
  None,
  MaxCalls,     \* bound: callbacks per native thread
  MaxFaults,    \* bound: interrupts, killed runners, failed thread creations
  MaxForks      \* bound: forks

(* An entry of the list: the cb of native thread t for its n-th callback. *)
Entry == [thread : Native, call : 1 .. MaxCalls]

ASSUME NoneAssumption   == None \notin Creator \cup Native \cup Entry
ASSUME ActorsAssumption == Creator \cap Native = {}
ASSUME BoundAssumption  == MaxCalls \in Nat /\ MaxFaults \in Nat /\ MaxForks \in Nat

VARIABLES
  registry,    \* the Ractor-local dispatcher pointer, or None
  creator,     \* where each creator is in function_init
  dispatcher,  \* fn->dispatcher of each function, None before it exists
  mutex,       \* holder of each dispatcher's async_cb_mutex, or None
  list,        \* each dispatcher's async_cb_list, head first
  thread,      \* where each dispatcher thread is in async_cb_event
  stop,        \* its w.stop
  popped,      \* its w.cb, or None
  killed,      \* a Thread#kill is pending for it
  native,      \* where each native thread is in callback_invoke
  target,      \* the dispatcher it uses
  calls,       \* callbacks it has made
  done,        \* cb.done
  outcome,     \* *cb.retval
  runner,      \* the runner of its callback
  hook,        \* the fork hook has still to run in this process
  forks, faults

dispatcherVars == <<mutex, list, thread, stop, popped, killed>>
nativeVars     == <<native, target, calls, done, outcome>>
bounds         == <<forks, faults>>
vars == <<registry, creator, dispatcher, dispatcherVars, nativeVars, runner,
          hook, bounds>>

CreatorState == {"new", "naming", "made", "failed"}
ThreadState  == {"unborn", "loop", "locking", "checking", "asleep", "back", "dead"}
NativeState  == {"idle", "locking", "pushing", "waiting", "asleep"}
RunnerState  == {"none", "ready", "ran", "dead"}

(* retval as the native caller finds it: not written, the proc's result, or   *)
(* zeroes where the proc raised (save_callback_exception).                    *)
Outcome == {"unset", "value", "zero"}

Running(d) == thread[d] \notin {"unborn", "dead"}

EntryOf(t) == [thread |-> t, call |-> calls[t]]

Init ==
  /\ registry = None
  /\ creator = [r \in Creator |-> "new"]
  /\ dispatcher = [r \in Creator |-> None]
  /\ mutex = [d \in Creator |-> None]
  /\ list = [d \in Creator |-> <<>>]
  /\ thread = [d \in Creator |-> "unborn"]
  /\ stop = [d \in Creator |-> FALSE]
  /\ popped = [d \in Creator |-> None]
  /\ killed = [d \in Creator |-> FALSE]
  /\ native = [t \in Native |-> "idle"]
  /\ target = [t \in Native |-> None]
  /\ calls = [t \in Native |-> 0]
  /\ done = [t \in Native |-> FALSE]
  /\ outcome = [t \in Native |-> "unset"]
  /\ runner = [t \in Native |-> "none"]
  /\ hook = FALSE
  /\ forks = 0 /\ faults = 0

Fault == faults < MaxFaults /\ faults' = faults + 1

-----------------------------------------------------------------------------
(* The dispatcher's creation. *)

(* Mutation of Initialize: the mutex stays as it was. *)
InitializeKeepsMutex(d) ==
  /\ list' = [list EXCEPT ![d] = <<>>]
  /\ thread' = [thread EXCEPT ![d] = "loop"]
  /\ stop' = [stop EXCEPT ![d] = FALSE]
  /\ popped' = [popped EXCEPT ![d] = None]
  /\ killed' = [killed EXCEPT ![d] = FALSE]
  /\ UNCHANGED mutex

(* async_cb_dispatcher_initialize up to rb_thread_create: the memory is set  *)
(* up from nothing, whatever was in it, and gets a new thread.               *)
Initialize(d) ==
  /\ list' = [list EXCEPT ![d] = <<>>]
  /\ mutex' = [mutex EXCEPT ![d] = None]
  /\ thread' = [thread EXCEPT ![d] = "loop"]
  /\ stop' = [stop EXCEPT ![d] = FALSE]
  /\ popped' = [popped EXCEPT ![d] = None]
  /\ killed' = [killed EXCEPT ![d] = FALSE]

(* function_init, a dispatcher is registered. *)
UseDispatcher(r) ==
  /\ creator[r] = "new" /\ ~hook
  /\ registry # None
  /\ creator' = [creator EXCEPT ![r] = "made"]
  /\ dispatcher' = [dispatcher EXCEPT ![r] = registry]
  /\ UNCHANGED <<registry, dispatcherVars, nativeVars, runner, hook, bounds>>

(* async_cb_dispatcher_ensure_created, none is registered: up to the calls   *)
(* of Thread#name= and Thread#thread_variable_set.                           *)
CreateDispatcher(r) ==
  /\ creator[r] = "new" /\ ~hook
  /\ registry = None
  /\ creator' = [creator EXCEPT ![r] = "naming"]
  /\ Initialize(r)
  /\ UNCHANGED <<registry, dispatcher, nativeVars, runner, hook, bounds>>

(* rb_thread_create raised ThreadError: nothing is registered. *)
CreateDispatcherFails(r) ==
  /\ creator[r] = "new" /\ ~hook
  /\ registry = None
  /\ Fault
  /\ creator' = [creator EXCEPT ![r] = "failed"]
  /\ UNCHANGED <<registry, dispatcher, dispatcherVars, nativeVars, runner, hook,
                 forks>>

(* ... and from there to the end of function_init. *)
RegisterDispatcher(r) ==
  /\ creator[r] = "naming" /\ ~hook
  /\ registry' = r
  /\ creator' = [creator EXCEPT ![r] = "made"]
  /\ dispatcher' = [dispatcher EXCEPT ![r] = r]
  /\ UNCHANGED <<dispatcherVars, nativeVars, runner, hook, bounds>>

-----------------------------------------------------------------------------
(* The native thread: callback_invoke, the branch for other threads. *)

(* Mutation of InvokeCallback: the closure can be called before function_init *)
(* has stored the dispatcher.                                                 *)
InvokeCallbackEarly(t, f) ==
  /\ native[t] = "idle" /\ ~hook
  /\ calls[t] < MaxCalls
  /\ native' = [native EXCEPT ![t] = "locking"]
  /\ target' = [target EXCEPT ![t] = dispatcher[f]]
  /\ calls' = [calls EXCEPT ![t] = @ + 1]
  /\ done' = [done EXCEPT ![t] = FALSE]
  /\ outcome' = [outcome EXCEPT ![t] = "unset"]
  /\ UNCHANGED <<registry, creator, dispatcher, dispatcherVars, runner, hook, bounds>>

(* callback_invoke on a thread without the GVL: the cb is set up. *)
InvokeCallback(t, f) ==
  /\ native[t] = "idle" /\ ~hook
  /\ calls[t] < MaxCalls
  /\ dispatcher[f] # None
  /\ native' = [native EXCEPT ![t] = "locking"]
  /\ target' = [target EXCEPT ![t] = dispatcher[f]]
  /\ calls' = [calls EXCEPT ![t] = @ + 1]
  /\ done' = [done EXCEPT ![t] = FALSE]
  /\ outcome' = [outcome EXCEPT ![t] = "unset"]
  /\ UNCHANGED <<registry, creator, dispatcher, dispatcherVars, runner, hook, bounds>>

LockToPush(t) ==
  /\ native[t] = "locking"
  /\ mutex[target[t]] = None
  /\ mutex' = [mutex EXCEPT ![target[t]] = t]
  /\ native' = [native EXCEPT ![t] = "pushing"]
  /\ UNCHANGED <<registry, creator, dispatcher, list, thread, stop, popped, killed,
                 target, calls, done, outcome, runner, hook, bounds>>

(* pthread_cond_signal(&ctx->async_cb_cond): a sleeper must lock and check again. *)
Signal(d) ==
  thread' = [thread EXCEPT ![d] = IF @ = "asleep" THEN "locking" ELSE @]

(* Mutation of Push: the dispatcher is not signalled. *)
PushSilently(t) ==
  LET d == target[t] IN
  /\ native[t] = "pushing"
  /\ list' = [list EXCEPT ![d] = <<EntryOf(t)>> \o @]
  /\ mutex' = [mutex EXCEPT ![d] = None]
  /\ native' = [native EXCEPT ![t] = "waiting"]
  /\ UNCHANGED <<registry, creator, dispatcher, thread, stop, popped, killed,
                 target, calls, done, outcome, runner, hook, bounds>>

(* The cb goes to the front of the list, the dispatcher is signalled. *)
Push(t) ==
  LET d == target[t] IN
  /\ native[t] = "pushing"
  /\ list' = [list EXCEPT ![d] = <<EntryOf(t)>> \o @]
  /\ Signal(d)
  /\ mutex' = [mutex EXCEPT ![d] = None]
  /\ native' = [native EXCEPT ![t] = "waiting"]
  /\ UNCHANGED <<registry, creator, dispatcher, stop, popped, killed,
                 target, calls, done, outcome, runner, hook, bounds>>

(* while (!cb.done) pthread_cond_wait(...) *)
Sleep(t) ==
  /\ native[t] = "waiting"
  /\ ~done[t]
  /\ native' = [native EXCEPT ![t] = "asleep"]
  /\ UNCHANGED <<registry, creator, dispatcher, dispatcherVars,
                 target, calls, done, outcome, runner, hook, bounds>>

(* Mutation of Return: a wakeup is taken for the result. *)
ReturnUnchecked(t) ==
  /\ native[t] = "waiting"
  /\ native' = [native EXCEPT ![t] = "idle"]
  /\ UNCHANGED <<registry, creator, dispatcher, dispatcherVars,
                 target, calls, done, outcome, runner, hook, bounds>>

(* cb.done: callback_invoke returns, and the cb goes with its stack frame. *)
Return(t) ==
  /\ native[t] = "waiting"
  /\ done[t]
  /\ native' = [native EXCEPT ![t] = "idle"]
  /\ UNCHANGED <<registry, creator, dispatcher, dispatcherVars,
                 target, calls, done, outcome, runner, hook, bounds>>

SpuriousNativeWakeup(t) ==
  /\ native[t] = "asleep"
  /\ native' = [native EXCEPT ![t] = "waiting"]
  /\ UNCHANGED <<registry, creator, dispatcher, dispatcherVars,
                 target, calls, done, outcome, runner, hook, bounds>>

-----------------------------------------------------------------------------
(* The dispatcher thread: async_cb_event and async_cb_wait. *)

(* A pending kill ends the thread where it holds the GVL: before it enters  *)
(* the blocking region and after it has left it, with or without a cb.      *)
DieKilled(d) ==
  /\ thread[d] \in {"loop", "back"}
  /\ killed[d]
  /\ thread' = [thread EXCEPT ![d] = "dead"]
  /\ popped' = [popped EXCEPT ![d] = None]
  /\ UNCHANGED <<registry, creator, dispatcher, mutex, list, stop, killed,
                 nativeVars, runner, hook, bounds>>

(* while (!w.stop): on, without the GVL, or the thread ends. *)
Loop(d) ==
  /\ thread[d] = "loop"
  /\ ~killed[d]
  /\ thread' = [thread EXCEPT ![d] = IF stop[d] THEN "dead" ELSE "locking"]
  /\ popped' = [popped EXCEPT ![d] = None]
  /\ UNCHANGED <<registry, creator, dispatcher, mutex, list, stop, killed,
                 nativeVars, runner, hook, bounds>>

(* pthread_mutex_lock, or the relocking that ends pthread_cond_wait. *)
LockToCheck(d) ==
  /\ thread[d] = "locking"
  /\ mutex[d] = None
  /\ mutex' = [mutex EXCEPT ![d] = d]
  /\ thread' = [thread EXCEPT ![d] = "checking"]
  /\ UNCHANGED <<registry, creator, dispatcher, list, stop, popped, killed,
                 nativeVars, runner, hook, bounds>>

(* pthread_cond_wait *)
WaitForCallback(d) ==
  /\ thread[d] = "checking"
  /\ ~stop[d] /\ list[d] = <<>>
  /\ mutex' = [mutex EXCEPT ![d] = None]
  /\ thread' = [thread EXCEPT ![d] = "asleep"]
  /\ UNCHANGED <<registry, creator, dispatcher, list, stop, popped, killed,
                 nativeVars, runner, hook, bounds>>

(* Mutation of Pop: the head is not unlinked. *)
PopCopies(d) ==
  /\ thread[d] = "checking"
  /\ stop[d] \/ list[d] # <<>>
  /\ IF list[d] # <<>>
       THEN popped' = [popped EXCEPT ![d] = Head(list[d])]
       ELSE UNCHANGED popped
  /\ mutex' = [mutex EXCEPT ![d] = None]
  /\ thread' = [thread EXCEPT ![d] = "back"]
  /\ UNCHANGED <<registry, creator, dispatcher, list, stop, killed,
                 nativeVars, runner, hook, bounds>>

(* The wait is over: a callback is popped if there is one, also when w->stop. *)
Pop(d) ==
  /\ thread[d] = "checking"
  /\ stop[d] \/ list[d] # <<>>
  /\ IF list[d] # <<>>
       THEN /\ popped' = [popped EXCEPT ![d] = Head(list[d])]
            /\ list' = [list EXCEPT ![d] = Tail(@)]
       ELSE UNCHANGED <<popped, list>>
  /\ mutex' = [mutex EXCEPT ![d] = None]
  /\ thread' = [thread EXCEPT ![d] = "back"]
  /\ UNCHANGED <<registry, creator, dispatcher, stop, killed,
                 nativeVars, runner, hook, bounds>>

SpuriousWakeup(d) ==
  /\ thread[d] = "asleep"
  /\ thread' = [thread EXCEPT ![d] = "locking"]
  /\ UNCHANGED <<registry, creator, dispatcher, mutex, list, stop, popped, killed,
                 nativeVars, runner, hook, bounds>>

(* Back with the GVL: if (w.cb != NULL) a runner is started. *)
StartRunner(d) ==
  /\ thread[d] = "back"
  /\ ~killed[d]
  /\ thread' = [thread EXCEPT ![d] = "loop"]
  /\ IF popped[d] # None
       THEN runner' = [runner EXCEPT ![popped[d].thread] = "ready"]
       ELSE UNCHANGED runner
  /\ UNCHANGED <<registry, creator, dispatcher, mutex, list, stop, popped, killed,
                 nativeVars, hook, bounds>>

(* rb_thread_create raised ThreadError: the exception ends the dispatcher. *)
StartRunnerFails(d) ==
  /\ thread[d] = "back"
  /\ ~killed[d]
  /\ popped[d] # None
  /\ Fault
  /\ thread' = [thread EXCEPT ![d] = "dead"]
  /\ popped' = [popped EXCEPT ![d] = None]
  /\ UNCHANGED <<registry, creator, dispatcher, mutex, list, stop, killed,
                 nativeVars, runner, hook, forks>>

(* Mutation of StopWaiting: the condition is not signalled. *)
StopSilently(d) ==
  /\ mutex[d] = None
  /\ stop' = [stop EXCEPT ![d] = TRUE]
  /\ UNCHANGED thread

(* async_cb_stop, which Ruby calls to unblock a thread it interrupts. *)
StopWaiting(d) ==
  /\ mutex[d] = None
  /\ stop' = [stop EXCEPT ![d] = TRUE]
  /\ Signal(d)

(* Thread#kill (kill) or Thread#wakeup (not kill) of the dispatcher thread. *)
(* The unblocking function runs when the thread is in the blocking region:  *)
(* it may still be, with its wait over, when it is on its way back.         *)
Interrupt(d, kill) ==
  /\ Running(d)
  /\ Fault
  /\ killed' = [killed EXCEPT ![d] = @ \/ kill]
  /\ \/ thread[d] \in {"locking", "asleep", "back"} /\ StopWaiting(d)
     \/ thread[d] \in {"loop", "back"} /\ UNCHANGED <<stop, thread>>
  /\ UNCHANGED <<registry, creator, dispatcher, mutex, list, popped,
                 nativeVars, runner, hook, forks>>

-----------------------------------------------------------------------------
(* The runner: async_cb_call. *)

(* callback_with_gvl: every exception is rescued and zeroes the result. *)
RunCallback(t) ==
  /\ runner[t] = "ready"
  /\ runner' = [runner EXCEPT ![t] = "ran"]
  /\ \E o \in {"value", "zero"} : outcome' = [outcome EXCEPT ![t] = o]
  /\ UNCHANGED <<registry, creator, dispatcher, dispatcherVars,
                 native, target, calls, done, hook, bounds>>

(* Thread#kill passes rb_rescue2: the rest of async_cb_call is not executed. *)
RunnerKilled(t) ==
  /\ runner[t] = "ready"
  /\ Fault
  /\ runner' = [runner EXCEPT ![t] = "dead"]
  /\ UNCHANGED <<registry, creator, dispatcher, dispatcherVars, nativeVars, hook,
                 forks>>

(* Mutation of SignalDone: the native thread is released first. *)
SignalDoneEarly(t) ==
  /\ runner[t] = "ready"
  /\ runner' = [runner EXCEPT ![t] = "none"]
  /\ done' = [done EXCEPT ![t] = TRUE]
  /\ native' = [native EXCEPT ![t] = IF @ = "asleep" THEN "waiting" ELSE @]
  /\ UNCHANGED <<registry, creator, dispatcher, dispatcherVars,
                 target, calls, outcome, hook, bounds>>

(* cb->done = true, and the native thread is signalled. *)
SignalDone(t) ==
  /\ runner[t] = "ran"
  /\ runner' = [runner EXCEPT ![t] = "none"]
  /\ done' = [done EXCEPT ![t] = TRUE]
  /\ native' = [native EXCEPT ![t] = IF @ = "asleep" THEN "waiting" ELSE @]
  /\ UNCHANGED <<registry, creator, dispatcher, dispatcherVars,
                 target, calls, outcome, hook, bounds>>

-----------------------------------------------------------------------------
(* fork *)

(* In the child only the forking thread is left; memory is a copy, with the  *)
(* lists and mutexes as other threads left them.  A creator that had not     *)
(* finished is gone; a native thread may be started anew.                    *)
Fork ==
  /\ ~hook
  /\ forks < MaxForks
  /\ forks' = forks + 1
  /\ hook' = TRUE
  /\ creator' = [r \in Creator |-> IF creator[r] = "naming" THEN "failed" ELSE creator[r]]
  /\ thread' = [d \in Creator |-> IF Running(d) THEN "dead" ELSE thread[d]]
  /\ popped' = [d \in Creator |-> None]
  /\ native' = [t \in Native |-> "idle"]
  /\ runner' = [t \in Native |-> "none"]
  /\ UNCHANGED <<registry, dispatcher, mutex, list, stop, killed,
                 target, calls, done, outcome, faults>>

(* Mutation of AtforkChild: the hook restarts nothing. *)
AtforkChildIdle ==
  /\ hook
  /\ hook' = FALSE
  /\ UNCHANGED <<registry, creator, dispatcher, dispatcherVars, nativeVars,
                 runner, bounds>>

(* FFI._async_cb_dispatcher_atfork_child: the registered dispatcher restarts. *)
AtforkChild ==
  /\ hook
  /\ hook' = FALSE
  /\ IF registry # None THEN Initialize(registry) ELSE UNCHANGED dispatcherVars
  /\ UNCHANGED <<registry, creator, dispatcher, nativeVars, runner, bounds>>

(* rb_thread_create raised ThreadError in the hook: the list and the mutex   *)
(* are new, the dispatcher stays without a thread.                           *)
AtforkChildFails ==
  /\ hook /\ registry # None
  /\ Fault
  /\ hook' = FALSE
  /\ list' = [list EXCEPT ![registry] = <<>>]
  /\ mutex' = [mutex EXCEPT ![registry] = None]
  /\ UNCHANGED <<registry, creator, dispatcher, thread, stop, popped, killed,
                 nativeVars, runner, forks>>

-----------------------------------------------------------------------------

CreatorNext(r) == \/ UseDispatcher(r) \/ CreateDispatcher(r)
                  \/ CreateDispatcherFails(r) \/ RegisterDispatcher(r)

NativeStep(t) == LockToPush(t) \/ Push(t) \/ Sleep(t) \/ Return(t)

DispatcherStep(d) == \/ DieKilled(d) \/ Loop(d) \/ LockToCheck(d)
                     \/ WaitForCallback(d) \/ Pop(d) \/ StartRunner(d)

RunnerStep(t) == RunCallback(t) \/ SignalDone(t)

Next ==
  \/ \E r \in Creator : CreatorNext(r)
  \/ \E t \in Native :
       \/ \E f \in Creator : InvokeCallback(t, f)
       \/ NativeStep(t) \/ SpuriousNativeWakeup(t)
       \/ RunnerStep(t) \/ RunnerKilled(t)
  \/ \E d \in Creator :
       \/ DispatcherStep(d) \/ SpuriousWakeup(d) \/ StartRunnerFails(d)
       \/ \E kill \in BOOLEAN : Interrupt(d, kill)
  \/ Fork
  \/ AtforkChild \/ AtforkChildFails

Spec == Init /\ [][Next]_vars

(* Threads that can run do run, who waits for a mutex that is released again *)
(* and again gets it, a callback's Ruby code ends, and a fork runs its hook. *)
(* Nothing obliges anybody to call, interrupt or fork.                       *)
Fairness ==
  /\ \A r \in Creator : WF_vars(RegisterDispatcher(r))
  /\ \A t \in Native : /\ WF_vars(NativeStep(t)) /\ SF_vars(LockToPush(t))
                        /\ WF_vars(RunnerStep(t))
  /\ \A d \in Creator : WF_vars(DispatcherStep(d)) /\ SF_vars(LockToCheck(d))
  /\ WF_vars(AtforkChild)

FairSpec == Spec /\ Fairness

-----------------------------------------------------------------------------

(* Type invariant of both sides of the hand-over; a native thread in          *)
(* callback_invoke has a dispatcher to push to.                               *)
TypeOK ==
  /\ registry \in Creator \cup {None}
  /\ creator \in [Creator -> CreatorState]
  /\ dispatcher \in [Creator -> Creator \cup {None}]
  /\ mutex \in [Creator -> Creator \cup Native \cup {None}]
  /\ list \in [Creator -> Seq(Entry)]
  /\ thread \in [Creator -> ThreadState]
  /\ stop \in [Creator -> BOOLEAN]
  /\ popped \in [Creator -> Entry \cup {None}]
  /\ killed \in [Creator -> BOOLEAN]
  /\ native \in [Native -> NativeState]
  /\ target \in [Native -> Creator \cup {None}]
  /\ \A t \in Native : native[t] # "idle" => target[t] # None
  /\ calls \in [Native -> 0 .. MaxCalls]
  /\ done \in [Native -> BOOLEAN]
  /\ outcome \in [Native -> Outcome]
  /\ runner \in [Native -> RunnerState]
  /\ hook \in BOOLEAN
  /\ forks \in 0 .. MaxForks
  /\ faults \in 0 .. MaxFaults

(* What the dispatcher will start a runner for: w.cb is stale after that. *)
Popped(d) == IF thread[d] = "back" THEN {popped[d]} \ {None} ELSE {}

(* The native thread is inside callback_invoke and its cb is not done. *)
Pending(t) == native[t] \in {"waiting", "asleep"} /\ ~done[t]

(* The cb lives on the native thread's stack.  Whoever can still reach one,  *)
(* a dispatcher through its list or w.cb, or a runner, reaches the cb of a   *)
(* call that has not returned.                                               *)
NoDanglingCallback ==
  /\ \A d \in Creator : Running(d) =>
       \A e \in Range(list[d]) \cup Popped(d) :
         Pending(e.thread) /\ e = EntryOf(e.thread)
  /\ \A t \in Native : runner[t] \in {"ready", "ran"} => Pending(t)

(* Where the callback of t is: on lists, as a w.cb (0), or with its runner. *)
Places(t) ==
       (UNION {{<<d, i>> : i \in {j \in DOMAIN list[d] : list[d][j] = EntryOf(t)}} : d \in Creator})
  \cup {<<d, 0>> : d \in {c \in Creator : EntryOf(t) \in Popped(c)}}
  \cup (IF runner[t] = "none" THEN {} ELSE {<<t, 0>>})

(* A callback is in one place at a time, so it is executed at most once; and *)
(* as long as nothing is killed it is in one place until it is done.         *)
NeitherLostNorCopied ==
  \A t \in Native : Pending(t) =>
    /\ \A x, y \in Places(t) : x = y
    /\ faults = 0 => Places(t) # {}

(* No lost wakeup: who sleeps on a condition variable has nothing to do.     *)
NoLostWakeup ==
  /\ \A d \in Creator : thread[d] = "asleep" => list[d] = <<>> /\ ~stop[d]
  /\ \A t \in Native : native[t] = "asleep" => ~done[t]

(* Every function that exists has a dispatcher with a live thread, unless    *)
(* that thread was killed.  In the child of a fork this is what              *)
(* CHANGELOG.md:47 promises: "Restart async callback dispatcher thread after *)
(* fork", for every function the parent made.                                *)
DispatcherRuns ==
  \A f \in Creator : dispatcher[f] # None /\ ~hook /\ faults = 0
                       => Running(dispatcher[f])

(* Every callback returns to its native thread, in a forked child too,       *)
(* unless somebody interrupts a dispatcher, kills a runner or takes the      *)
(* resources for new threads.                                                *)
EveryCallbackReturns ==
  \A t \in Native : native[t] # "idle" ~> (native[t] = "idle" \/ faults > 0)

(* async_cb_stop does what Ruby needs to end the thread: an interrupted      *)
(* dispatcher does not go on sleeping in async_cb_wait.                      *)
StopEndsDispatcher ==
  \A d \in Creator : (stop[d] \/ killed[d]) ~> ~Running(d)

-----------------------------------------------------------------------------

(* A call is "called" from callback_invoke on and "executed" once its proc   *)
(* has been executed: a runner has the outcome, or done tells so.            *)
Phase(t) ==
  IF native[t] = "idle" THEN "idle"
  ELSE IF runner[t] = "ran" \/ done[t] THEN "executed" ELSE "called"

Service == INSTANCE CallbackService WITH
             Caller  <- Native,
             Unset   <- "unset",
             phase   <- [t \in Native |-> Phase(t)]

ServiceSpec == Service!Spec
=============================================================================
