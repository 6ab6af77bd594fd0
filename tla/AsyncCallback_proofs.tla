------------------------- MODULE AsyncCallback_proofs -------------------------
(***************************************************************************)
(* Proofs about AsyncCallback, for any number of native threads and of     *)
(* functions, and for every bound on calls, faults and forks.              *)
(***************************************************************************)
EXTENDS AsyncCallback, SequenceTheorems, TLAPS

-----------------------------------------------------------------------------
(* The inductive invariant. *)

(* A native thread has a call in progress from the cb's set-up on, and until  *)
(* the runner tells it so the call is not done.                              *)
Calling ==
  \A t \in Native : native[t] # "idle" =>
    /\ calls[t] >= 1
    /\ native[t] \in {"locking", "pushing"} => ~done[t]

(* What a list holds was pushed by a call.  Where that call is still in      *)
(* progress it waits, and for this dispatcher; and a live dispatcher finds   *)
(* no other entry in its list.  A dead one keeps what it had: the stack      *)
(* frames those entries point to may be gone, and nobody looks.              *)
Listed ==
  \A d \in Creator :
    /\ IsInjective(list[d])
    /\ \A e \in Range(list[d]) :
         /\ e.call <= calls[e.thread]
         /\ (e.call = calls[e.thread] /\ native[e.thread] # "idle")
              => Pending(e.thread) /\ target[e.thread] = d
         /\ Running(d) => e.call = calls[e.thread] /\ native[e.thread] # "idle"

(* w.cb has been taken off the list, and its call waits. *)
Taken ==
  \A d \in Creator : \A e \in Popped(d) :
    /\ e \notin Range(list[d])
    /\ e.call = calls[e.thread]
    /\ Pending(e.thread)
    /\ target[e.thread] = d

(* A runner's callback waits, and is with no dispatcher any more. *)
RunnersOwn ==
  \A t \in Native : runner[t] # "none" =>
    /\ Pending(t)
    /\ \A d \in Creator : EntryOf(t) \notin Range(list[d]) \cup Popped(d)

(* As long as nothing is killed a callback that waits is with the dispatcher *)
(* it was pushed to or with its runner.                                      *)
NotLost ==
  \A t \in Native : faults = 0 /\ Pending(t) /\ runner[t] = "none" =>
    EntryOf(t) \in Range(list[target[t]]) \cup Popped(target[t])

(* A dispatcher somebody can use has been set up and registered. *)
SetUp(d) == creator[d] = "made" /\ thread[d] # "unborn"

OnlySetUpUsed ==
  /\ registry # None => SetUp(registry)
  /\ \A f \in Creator : dispatcher[f] # None => SetUp(dispatcher[f])
  /\ \A t \in Native : native[t] # "idle" => SetUp(target[t])
  /\ \A r \in Creator : creator[r] = "naming" => thread[r] # "unborn"

(* Before its hook has run the child of a fork has no thread but one. *)
ChildIsAlone ==
  hook => /\ forks > 0
          /\ \A t \in Native : native[t] = "idle" /\ runner[t] = "none"
          /\ \A d \in Creator : ~Running(d) /\ creator[d] # "naming"

(* A dispatcher on its way into the wait has no callback in w.cb. *)
EntersEmpty ==
  \A d \in Creator : thread[d] \in {"locking", "checking", "asleep"} => popped[d] = None

(* Without an interrupt nothing stops a dispatcher: the one that is          *)
(* registered runs, and those that are being set up; without a fork too      *)
(* every one that was ever started.                                          *)
Undisturbed ==
  faults = 0 =>
    /\ \A d \in Creator : ~stop[d] /\ ~killed[d]
    /\ ~hook => /\ registry # None => Running(registry)
                /\ \A r \in Creator : creator[r] = "naming" => Running(r)
    /\ forks = 0 => \A d \in Creator : thread[d] # "dead"

(* Who uses a dispatcher found it registered. *)
Registered == \A f \in Creator : dispatcher[f] # None => registry # None

HandOver == Calling /\ Listed /\ Taken /\ RunnersOwn /\ NotLost
Threads  == OnlySetUpUsed /\ ChildIsAlone /\ EntersEmpty /\ Undisturbed /\ Registered

AsyncIInv == TypeOK /\ HandOver /\ Threads /\ NoLostWakeup

-----------------------------------------------------------------------------
(* Lemmas about a list of callbacks. *)

(* The list with a cb pushed on its front (callback_invoke). *)
LEMMA PushedList ==
  ASSUME NEW S, NEW s \in Seq(S), NEW e \in S
  PROVE  /\ <<e>> \o s \in Seq(S)
         /\ <<e>> \o s # <<>>
         /\ Range(<<e>> \o s) = {e} \cup Range(s)
         /\ IsInjective(s) /\ e \notin Range(s) => IsInjective(<<e>> \o s)
<1> DEFINE p == <<e>> \o s
<1>1. /\ p \in Seq(S) /\ p # <<>>
      /\ DOMAIN p = 1 .. Len(s) + 1 /\ DOMAIN s = 1 .. Len(s) /\ Len(s) \in Nat
      /\ p[1] = e /\ \A i \in 1 .. Len(s) : p[i + 1] = s[i]
  OBVIOUS
<1>2. \A i \in DOMAIN p : i = 1 \/ (i - 1 \in DOMAIN s /\ p[i] = s[i - 1])
  BY <1>1
<1> HIDE DEF p
<1>3. ASSUME NEW x \in {e} \cup Range(s) PROVE x \in Range(p)
  <2>1. CASE x = e
    BY <1>1, <2>1 DEF Range
  <2>2. ASSUME NEW i \in DOMAIN s, x = s[i] PROVE x \in Range(p)
    <3>1. i + 1 \in DOMAIN p /\ p[i + 1] = x
      BY <1>1, <2>2
    <3> QED  BY <3>1 DEF Range
  <2> QED  BY <2>1, <2>2 DEF Range
<1>4. Range(p) \subseteq {e} \cup Range(s)
  BY <1>1, <1>2 DEF Range
<1>5. ASSUME IsInjective(s), e \notin Range(s),
             NEW i \in DOMAIN p, NEW j \in DOMAIN p, p[i] = p[j]
      PROVE  i = j
  <2>1. \A k \in DOMAIN s : s[k] # e
    BY <1>5 DEF Range
  <2> QED  BY <1>1, <1>2, <1>5, <2>1 DEF IsInjective
<1>6. IsInjective(s) /\ e \notin Range(s) => IsInjective(p)
  BY <1>5 DEF IsInjective
<1> QED  BY <1>1, <1>3, <1>4, <1>6 DEF p

(* The list with its head unlinked (async_cb_wait). *)
LEMMA PoppedList ==
  ASSUME NEW S, NEW s \in Seq(S), s # <<>>
  PROVE  /\ Tail(s) \in Seq(S)
         /\ Head(s) \in S
         /\ Range(s) = {Head(s)} \cup Range(Tail(s))
         /\ IsInjective(s) => IsInjective(Tail(s)) /\ Head(s) \notin Range(Tail(s))
<1> DEFINE p == Tail(s)
<1>1. /\ p \in Seq(S) /\ Head(s) \in S /\ Head(s) = s[1]
      /\ DOMAIN s = 1 .. Len(s) /\ Len(s) \in Nat \ {0} /\ DOMAIN p = 1 .. Len(s) - 1
      /\ \A i \in 1 .. Len(s) - 1 : p[i] = s[i + 1]
  OBVIOUS
<1>2. \A i \in DOMAIN s : i = 1 \/ (i - 1 \in DOMAIN p /\ p[i - 1] = s[i])
  BY <1>1
<1>3. \A i \in DOMAIN p : i + 1 \in DOMAIN s /\ p[i] = s[i + 1]
  BY <1>1
<1> HIDE DEF p
<1>4. Range(s) = {Head(s)} \cup Range(p)
  <2>1. ASSUME NEW x \in Range(s), x # Head(s) PROVE x \in Range(p)
    <3>1. PICK i \in DOMAIN s : s[i] = x
      BY DEF Range
    <3>2. i - 1 \in DOMAIN p /\ p[i - 1] = x
      BY <1>1, <1>2, <2>1, <3>1
    <3> QED  BY <3>2 DEF Range
  <2>2. ASSUME NEW x \in Range(p) PROVE x \in Range(s)
    BY <1>3 DEF Range
  <2>3. Head(s) \in Range(s)
    BY <1>1 DEF Range
  <2> QED  BY <2>1, <2>2, <2>3
<1>5. ASSUME IsInjective(s) PROVE IsInjective(p) /\ Head(s) \notin Range(p)
  <2>1. ASSUME NEW i \in DOMAIN p, NEW j \in DOMAIN p, p[i] = p[j] PROVE i = j
    <3>1. i + 1 = j + 1
      BY <1>3, <1>5, <2>1 DEF IsInjective
    <3> QED  BY <1>1, <3>1
  <2>2. \A i \in DOMAIN p : p[i] # Head(s)
    BY <1>1, <1>3, <1>5 DEF IsInjective
  <2> QED  BY <2>1, <2>2 DEF IsInjective, Range
<1> QED  BY <1>1, <1>4, <1>5 DEF p

LEMMA EmptyList == Range(<<>>) = {} /\ IsInjective(<<>>)
BY DEF Range, IsInjective

(* An entry is the current call of its thread when the numbers agree. *)
LEMMA CurrentEntry ==
  ASSUME NEW e \in Entry, NEW t \in Native
  PROVE  e = EntryOf(t) <=> e.thread = t /\ e.call = calls[t]
BY DEF Entry, EntryOf

-----------------------------------------------------------------------------
(* Types *)

LEMMA InitAsync == Init => AsyncIInv
<1> SUFFICES ASSUME Init PROVE AsyncIInv
  OBVIOUS
<1> USE DEF Init
<1>1. TypeOK
  <2>1. 0 \in 0 .. MaxCalls /\ 0 \in 0 .. MaxForks /\ 0 \in 0 .. MaxFaults
    BY BoundAssumption
  <2>2. list \in [Creator -> Seq(Entry)]
    OBVIOUS
  <2> QED  BY <2>1, <2>2
           DEF TypeOK, CreatorState, ThreadState, NativeState, RunnerState, Outcome
<1>2. HandOver
  BY EmptyList DEF HandOver, Calling, Listed, Taken, RunnersOwn, NotLost, Popped, Pending
<1>3. Threads
  BY DEF Threads, OnlySetUpUsed, ChildIsAlone, EntersEmpty, Undisturbed, Registered, Running
<1>4. NoLostWakeup
  BY DEF NoLostWakeup
<1> QED  BY <1>1, <1>2, <1>3, <1>4 DEF AsyncIInv

(* The dispatcher memory that Initialize writes. *)
LEMMA InitializeTyped ==
  ASSUME TypeOK, NEW d \in Creator, Initialize(d)
  PROVE  /\ mutex' \in [Creator -> Creator \cup Native \cup {None}]
         /\ list' \in [Creator -> Seq(Entry)]
         /\ thread' \in [Creator -> ThreadState]
         /\ stop' \in [Creator -> BOOLEAN]
         /\ popped' \in [Creator -> Entry \cup {None}]
         /\ killed' \in [Creator -> BOOLEAN]
BY DEF TypeOK, Initialize, ThreadState

LEMMA StepTyped == AsyncIInv /\ [Next]_vars => TypeOK'
<1> SUFFICES ASSUME AsyncIInv, [Next]_vars PROVE TypeOK'
  OBVIOUS
<1> USE DEF TypeOK, dispatcherVars, nativeVars, bounds
<1>1. TypeOK
  BY DEF AsyncIInv
<1>2. ASSUME Fault PROVE faults' \in 0 .. MaxFaults
  BY <1>1, <1>2, BoundAssumption DEF Fault
<1>3. ASSUME NEW r \in Creator, CreatorNext(r) PROVE TypeOK'
  <2>1. CASE UseDispatcher(r)
    BY <1>1, <2>1 DEF UseDispatcher, CreatorState
  <2>2. CASE CreateDispatcher(r)
    BY <1>1, <2>2, InitializeTyped DEF CreateDispatcher, CreatorState
  <2>3. CASE CreateDispatcherFails(r)
    BY <1>1, <1>2, <2>3 DEF CreateDispatcherFails, CreatorState
  <2>4. CASE RegisterDispatcher(r)
    BY <1>1, <2>4 DEF RegisterDispatcher, CreatorState
  <2> QED  BY <1>3, <2>1, <2>2, <2>3, <2>4 DEF CreatorNext
<1>4. ASSUME NEW t \in Native, NEW f \in Creator, InvokeCallback(t, f) PROVE TypeOK'
  BY <1>1, <1>4, BoundAssumption DEF InvokeCallback, NativeState, Outcome
<1>5. ASSUME NEW t \in Native, NativeStep(t) \/ SpuriousNativeWakeup(t) PROVE TypeOK'
  <2>1. CASE LockToPush(t)
    BY <1>1, <2>1 DEF LockToPush, NativeState
  <2>2. CASE Push(t)
    <3>1. target[t] \in Creator /\ EntryOf(t) \in Entry
      BY <1>1, <2>2, BoundAssumption DEF Push, EntryOf, Entry, AsyncIInv, HandOver, Calling
    <3>2. list' \in [Creator -> Seq(Entry)]
      BY <1>1, <2>2, <3>1, PushedList DEF Push
    <3>3. thread' \in [Creator -> ThreadState]
      BY <1>1, <2>2 DEF Push, Signal, ThreadState
    <3> QED  BY <1>1, <2>2, <3>1, <3>2, <3>3 DEF Push, NativeState
  <2>3. CASE Sleep(t) \/ Return(t) \/ SpuriousNativeWakeup(t)
    BY <1>1, <2>3 DEF Sleep, Return, SpuriousNativeWakeup, NativeState
  <2> QED  BY <1>5, <2>1, <2>2, <2>3 DEF NativeStep
<1>6. ASSUME NEW t \in Native, RunnerStep(t) \/ RunnerKilled(t) PROVE TypeOK'
  <2>1. CASE RunCallback(t)
    BY <1>1, <2>1 DEF RunCallback, RunnerState, Outcome
  <2>2. CASE SignalDone(t)
    BY <1>1, <2>2 DEF SignalDone, RunnerState, NativeState
  <2>3. CASE RunnerKilled(t)
    BY <1>1, <1>2, <2>3 DEF RunnerKilled, RunnerState
  <2> QED  BY <1>6, <2>1, <2>2, <2>3 DEF RunnerStep
<1>7. ASSUME NEW d \in Creator, DispatcherStep(d) \/ SpuriousWakeup(d) PROVE TypeOK'
  <2>1. CASE DieKilled(d)
    BY <1>1, <2>1 DEF DieKilled, ThreadState
  <2>2. CASE Loop(d)
    BY <1>1, <2>2 DEF Loop, ThreadState
  <2>3. CASE LockToCheck(d)
    BY <1>1, <2>3 DEF LockToCheck, ThreadState
  <2>4. CASE WaitForCallback(d)
    BY <1>1, <2>4 DEF WaitForCallback, ThreadState
  <2>5. CASE SpuriousWakeup(d)
    BY <1>1, <2>5 DEF SpuriousWakeup, ThreadState
  <2>6. CASE Pop(d)
    <3>1. list[d] # <<>> => Head(list[d]) \in Entry /\ Tail(list[d]) \in Seq(Entry)
      BY <1>1
    <3> QED  BY <1>1, <2>6, <3>1 DEF Pop, ThreadState
  <2>7. CASE StartRunner(d)
    BY <1>1, <2>7 DEF StartRunner, ThreadState, RunnerState
  <2> QED  BY <1>7, <2>1, <2>2, <2>3, <2>4, <2>5, <2>6, <2>7 DEF DispatcherStep
<1>8. ASSUME NEW d \in Creator, StartRunnerFails(d) PROVE TypeOK'
  BY <1>1, <1>2, <1>8 DEF StartRunnerFails, ThreadState
<1>9. ASSUME NEW d \in Creator, NEW kill \in BOOLEAN, Interrupt(d, kill) PROVE TypeOK'
  BY <1>1, <1>2, <1>9 DEF Interrupt, StopWaiting, Signal, ThreadState
<1>10. CASE Fork
  BY <1>1, <1>10, BoundAssumption
     DEF Fork, CreatorState, ThreadState, NativeState, RunnerState
<1>11. CASE AtforkChild
  <2>1. CASE registry # None
    BY <1>1, <1>11, <2>1, InitializeTyped DEF AtforkChild
  <2>2. CASE registry = None
    BY <1>1, <1>11, <2>2 DEF AtforkChild
  <2> QED  BY <2>1, <2>2
<1>12. CASE UNCHANGED vars
  BY <1>1, <1>12 DEF vars
<1>13. CASE AtforkChildFails
  <2>1. registry \in Creator
    BY <1>1, <1>13 DEF AtforkChildFails
  <2>2. list' \in [Creator -> Seq(Entry)]
    <3>1. <<>> \in Seq(Entry)
      OBVIOUS
    <3> QED  BY <1>1, <1>13, <2>1, <3>1 DEF AtforkChildFails
  <2>3. mutex' \in [Creator -> Creator \cup Native \cup {None}]
    BY <1>1, <1>13, <2>1 DEF AtforkChildFails
  <2>4. faults' \in 0 .. MaxFaults
    BY <1>2, <1>13 DEF AtforkChildFails
  <2> QED  BY <1>1, <1>13, <2>2, <2>3, <2>4 DEF AtforkChildFails
<1> QED  BY <1>3, <1>4, <1>5, <1>6, <1>7, <1>8, <1>9, <1>10, <1>11, <1>12, <1>13 DEF Next

-----------------------------------------------------------------------------
(* The hand-over *)

(* Most steps hand no callback over: the lists and the calls stay as they    *)
(* are, and so does what is popped, unless a dispatcher dies.                *)
HandsNothingOver ==
  /\ UNCHANGED <<list, calls, target>>
  /\ faults' = 0 => faults = 0
  /\ \A t \in Native :
       /\ Pending(t)' <=> Pending(t)
       /\ native'[t] = "idle" <=> native[t] = "idle"
       /\ native'[t] \in {"locking", "pushing"} => ~done'[t]
       /\ runner'[t] = "none" <=> runner[t] = "none"
  /\ \A d \in Creator :
       /\ Running(d)' => Running(d)
       /\ Popped(d)' \subseteq Popped(d)
       /\ faults' = 0 => Popped(d)' = Popped(d)

LEMMA ListedEntry ==
  ASSUME TypeOK, NEW d \in Creator, NEW e \in Range(list[d])
  PROVE  e \in Entry /\ e.thread \in Native /\ e.call \in Nat
<1>1. list[d] \in Seq(Entry)
  BY DEF TypeOK
<1>2. e \in Entry
  BY <1>1 DEF Range
<1> QED  BY <1>2, BoundAssumption DEF Entry

LEMMA PoppedEntry ==
  ASSUME TypeOK, NEW d \in Creator, NEW e \in Popped(d)
  PROVE  e \in Entry /\ e.thread \in Native /\ e.call \in Nat
<1>1. e \in Entry
  BY DEF TypeOK, Popped
<1> QED  BY <1>1, BoundAssumption DEF Entry

LEMMA FaultCounts == ASSUME TypeOK, Fault PROVE faults' # 0
BY BoundAssumption DEF TypeOK, Fault

LEMMA NothingHandedOver == ASSUME AsyncIInv, HandsNothingOver PROVE HandOver'
<1> USE DEF HandsNothingOver
<1>1. TypeOK /\ HandOver
  BY DEF AsyncIInv
<1>2. \A t \in Native : EntryOf(t)' = EntryOf(t)
  BY DEF EntryOf
<1>3. Calling'
  BY <1>1 DEF HandOver, Calling
<1>4. Listed'
  BY <1>1, ListedEntry DEF HandOver, Listed
<1>5. Taken'
  BY <1>1, PoppedEntry DEF HandOver, Taken
<1>6. RunnersOwn'
  BY <1>1, <1>2 DEF HandOver, RunnersOwn
<1>7. NotLost'
  <2> SUFFICES ASSUME NEW t \in Native, faults' = 0, Pending(t)', runner'[t] = "none"
               PROVE  EntryOf(t)' \in Range(list'[target'[t]]) \cup Popped(target[t])'
    BY DEF NotLost
  <2>1. EntryOf(t) \in Range(list[target[t]]) \cup Popped(target[t])
    BY <1>1 DEF HandOver, NotLost
  <2>2. target[t] \in Creator
    BY <1>1 DEF TypeOK, Pending
  <2> QED  BY <1>2, <2>1, <2>2
<1> QED  BY <1>3, <1>4, <1>5, <1>6, <1>7 DEF HandOver

(* The native thread's own waiting. *)
LEMMA NativeHandsNothingOver ==
  ASSUME AsyncIInv, NEW t \in Native,
         LockToPush(t) \/ Sleep(t) \/ SpuriousNativeWakeup(t)
  PROVE  HandsNothingOver
<1>1. TypeOK /\ Calling
  BY DEF AsyncIInv, HandOver
<1> USE <1>1 DEF TypeOK, Calling, HandsNothingOver, Running, Popped, Pending, dispatcherVars, bounds
<1>2. CASE LockToPush(t)
  BY <1>2 DEF LockToPush
<1>3. CASE Sleep(t)
  BY <1>3 DEF Sleep
<1>4. CASE SpuriousNativeWakeup(t)
  BY <1>4 DEF SpuriousNativeWakeup
<1> QED  BY <1>2, <1>3, <1>4

(* The dispatcher's way into its wait and out of it, and its death. *)
LEMMA DispatcherHandsNothingOver ==
  ASSUME AsyncIInv, NEW d \in Creator,
         \/ DieKilled(d) \/ Loop(d) \/ LockToCheck(d) \/ WaitForCallback(d)
         \/ SpuriousWakeup(d) \/ StartRunnerFails(d)
         \/ \E kill \in BOOLEAN : Interrupt(d, kill)
  PROVE  HandsNothingOver
<1>1. /\ TypeOK /\ Calling /\ EntersEmpty
      /\ faults = 0 => ~killed[d]
  BY DEF AsyncIInv, HandOver, Threads, Undisturbed
<1> USE <1>1 DEF TypeOK, Calling, HandsNothingOver, Running, Popped, Pending, nativeVars, bounds
<1>2. CASE DieKilled(d)
  BY <1>2 DEF DieKilled
<1>3. CASE Loop(d)
  BY <1>3 DEF Loop
<1>4. CASE LockToCheck(d)
  BY <1>4 DEF LockToCheck
<1>5. CASE WaitForCallback(d)
  BY <1>5 DEF WaitForCallback
<1>6. CASE SpuriousWakeup(d)
  BY <1>6 DEF SpuriousWakeup
<1>7. CASE StartRunnerFails(d)
  BY <1>7, FaultCounts DEF StartRunnerFails
<1>8. ASSUME NEW kill \in BOOLEAN, Interrupt(d, kill) PROVE HandsNothingOver
  BY <1>8, FaultCounts DEF Interrupt, StopWaiting, Signal
<1> QED  BY <1>2, <1>3, <1>4, <1>5, <1>6, <1>7, <1>8

(* Functions that find a dispatcher or register theirs; the proc's execution *)
(* and the end of a runner.                                                  *)
LEMMA OthersHandNothingOver ==
  ASSUME AsyncIInv,
         \/ \E r \in Creator : \/ UseDispatcher(r) \/ CreateDispatcherFails(r)
                               \/ RegisterDispatcher(r)
         \/ \E t \in Native : RunCallback(t) \/ RunnerKilled(t)
         \/ UNCHANGED vars
  PROVE  HandsNothingOver
<1>1. TypeOK /\ Calling
  BY DEF AsyncIInv, HandOver
<1> USE <1>1 DEF TypeOK, Calling, HandsNothingOver, Running, Popped, Pending,
                 dispatcherVars, nativeVars, bounds
<1>2. ASSUME NEW r \in Creator, UseDispatcher(r) \/ RegisterDispatcher(r)
      PROVE  HandsNothingOver
  BY <1>2 DEF UseDispatcher, RegisterDispatcher
<1>3. ASSUME NEW r \in Creator, CreateDispatcherFails(r)
      PROVE  HandsNothingOver
  BY <1>3, FaultCounts DEF CreateDispatcherFails
<1>4. ASSUME NEW t \in Native, RunCallback(t) PROVE HandsNothingOver
  BY <1>4 DEF RunCallback
<1>5. ASSUME NEW t \in Native, RunnerKilled(t) PROVE HandsNothingOver
  BY <1>5, FaultCounts DEF RunnerKilled
<1>6. CASE UNCHANGED vars
  BY <1>6 DEF vars
<1> QED  BY <1>2, <1>3, <1>4, <1>5, <1>6

(* A dispatcher's memory is set up anew (Initialize): its list is empty and  *)
(* nothing is popped.  No call in progress uses that dispatcher.             *)
LEMMA FreshDispatcher ==
  ASSUME AsyncIInv, NEW d \in Creator, Initialize(d),
         UNCHANGED <<nativeVars, runner, faults>>,
         \A t \in Native : native[t] # "idle" => target[t] # d
  PROVE  HandOver'
<1>1. TypeOK /\ HandOver
  BY DEF AsyncIInv
<1>2. /\ list'[d] = <<>> /\ Popped(d)' = {} /\ Range(list'[d]) = {}
      /\ IsInjective(list'[d])
      /\ \A c \in Creator \ {d} : /\ list'[c] = list[c] /\ Popped(c)' = Popped(c)
                                  /\ Running(c)' <=> Running(c)
  BY <1>1, EmptyList DEF TypeOK, Initialize, Popped, Running
<1>3. /\ UNCHANGED <<calls, native, done, target, runner, faults>>
      /\ \A t \in Native : EntryOf(t)' = EntryOf(t) /\ Pending(t)' = Pending(t)
  BY DEF nativeVars, EntryOf, Pending
<1>4. Calling'
  BY <1>1, <1>3 DEF HandOver, Calling
<1>5. Listed'
  <2> SUFFICES ASSUME NEW c \in Creator
               PROVE  /\ IsInjective(list'[c])
                      /\ \A e \in Range(list'[c]) :
                           /\ e.call <= calls'[e.thread]
                           /\ (e.call = calls'[e.thread] /\ native'[e.thread] # "idle")
                                => Pending(e.thread)' /\ target'[e.thread] = c
                           /\ Running(c)' => e.call = calls'[e.thread] /\ native'[e.thread] # "idle"
    BY DEF Listed
  <2>1. CASE c = d
    BY <1>2, <2>1
  <2>2. CASE c # d
    BY <1>1, <1>2, <1>3, <2>2, ListedEntry DEF HandOver, Listed
  <2> QED  BY <2>1, <2>2
<1>6. Taken'
  BY <1>1, <1>2, <1>3, PoppedEntry DEF HandOver, Taken
<1>7. RunnersOwn'
  BY <1>1, <1>2, <1>3 DEF HandOver, RunnersOwn
<1>8. NotLost'
  <2> SUFFICES ASSUME NEW t \in Native, faults' = 0, Pending(t)', runner'[t] = "none"
               PROVE  EntryOf(t)' \in Range(list'[target'[t]]) \cup Popped(target[t])'
    BY DEF NotLost
  <2>1. target[t] \in Creator \ {d} /\ Pending(t)
    BY <1>1, <1>3 DEF TypeOK, Pending
  <2> QED  BY <1>1, <1>2, <1>3, <2>1 DEF HandOver, NotLost
<1> QED  BY <1>4, <1>5, <1>6, <1>7, <1>8 DEF HandOver

LEMMA CreateHandOver ==
  ASSUME AsyncIInv, NEW r \in Creator, CreateDispatcher(r) PROVE HandOver'
<1>1. \A t \in Native : native[t] # "idle" => target[t] # r
  BY DEF CreateDispatcher, AsyncIInv, Threads, OnlySetUpUsed, SetUp
<1> QED  BY <1>1, FreshDispatcher DEF CreateDispatcher, bounds

(* In the child of a fork no call is in progress. *)
LEMMA AtforkHandOver == ASSUME AsyncIInv, AtforkChild PROVE HandOver'
<1>1. \A t \in Native : native[t] = "idle"
  BY DEF AtforkChild, AsyncIInv, Threads, ChildIsAlone
<1>2. CASE registry # None
  <2>1. registry \in Creator
    BY <1>2 DEF AsyncIInv, TypeOK
  <2> QED  BY <1>1, <1>2, <2>1, FreshDispatcher DEF AtforkChild, bounds
<1>3. CASE registry = None
  <2>1. HandsNothingOver
    BY <1>1, <1>3 DEF HandsNothingOver, AtforkChild, dispatcherVars, nativeVars, bounds,
                      Pending, Running, Popped
  <2> QED  BY <2>1, NothingHandedOver
<1> QED  BY <1>2, <1>3

(* Nor is one if the hook fails, which empties the dispatcher's list. *)
LEMMA AtforkFailsHandOver == ASSUME AsyncIInv, AtforkChildFails PROVE HandOver'
<1>1. TypeOK /\ HandOver /\ \A t \in Native : native[t] = "idle" /\ runner[t] = "none"
  BY DEF AtforkChildFails, AsyncIInv, Threads, ChildIsAlone
<1>2. /\ list'[registry] = <<>> /\ Range(list'[registry]) = {} /\ IsInjective(list'[registry])
      /\ \A c \in Creator \ {registry} : list'[c] = list[c]
      /\ \A c \in Creator : Popped(c)' = Popped(c) /\ (Running(c)' <=> Running(c))
  BY <1>1, EmptyList DEF AtforkChildFails, TypeOK, Popped, Running
<1>3. /\ UNCHANGED <<calls, native, done, target, runner>>
      /\ \A t \in Native : ~Pending(t) /\ ~Pending(t)'
  BY <1>1 DEF AtforkChildFails, nativeVars, Pending
<1>4. Calling'
  BY <1>1, <1>3 DEF HandOver, Calling
<1>5. Listed'
  <2> SUFFICES ASSUME NEW c \in Creator
               PROVE  /\ IsInjective(list'[c])
                      /\ \A e \in Range(list'[c]) :
                           /\ e.call <= calls'[e.thread]
                           /\ (e.call = calls'[e.thread] /\ native'[e.thread] # "idle")
                                => Pending(e.thread)' /\ target'[e.thread] = c
                           /\ Running(c)' => e.call = calls'[e.thread] /\ native'[e.thread] # "idle"
    BY DEF Listed
  <2>1. CASE c = registry
    BY <1>2, <2>1
  <2>2. CASE c # registry
    BY <1>1, <1>2, <1>3, <2>2, ListedEntry DEF HandOver, Listed
  <2> QED  BY <2>1, <2>2
<1>6. Taken'
  BY <1>1, <1>2, <1>3, PoppedEntry DEF HandOver, Taken
<1>7. RunnersOwn' /\ NotLost'
  BY <1>1, <1>3 DEF RunnersOwn, NotLost
<1> QED  BY <1>4, <1>5, <1>6, <1>7 DEF HandOver

(* A fork leaves no thread that would be at work on a callback. *)
LEMMA ForkHandOver == ASSUME AsyncIInv, Fork PROVE HandOver'
<1>1. TypeOK /\ HandOver
  BY DEF AsyncIInv
<1>2. /\ \A t \in Native : native'[t] = "idle" /\ ~Pending(t)' /\ runner'[t] = "none"
      /\ \A d \in Creator : ~Running(d)' /\ Popped(d)' = {}
      /\ UNCHANGED <<list, calls>>
  BY DEF Fork, Pending, Running, Popped
<1>3. Listed'
  BY <1>1, <1>2, ListedEntry DEF HandOver, Listed
<1> QED  BY <1>2, <1>3 DEF HandOver, Calling, Taken, RunnersOwn, NotLost

(* A new call gets a number that no entry of a list carries yet. *)
LEMMA InvokeHandOver ==
  ASSUME AsyncIInv, NEW t \in Native, NEW f \in Creator, InvokeCallback(t, f)
  PROVE  HandOver'
<1>1. TypeOK /\ HandOver
  BY DEF AsyncIInv
<1>2. /\ native[t] = "idle" /\ native'[t] = "locking" /\ ~done'[t]
      /\ calls[t] \in Nat /\ calls'[t] = calls[t] + 1 /\ target'[t] = dispatcher[f]
      /\ UNCHANGED <<list, runner, faults>>
      /\ ~Pending(t) /\ ~Pending(t)'
  BY <1>1, BoundAssumption DEF InvokeCallback, TypeOK, Pending, dispatcherVars, bounds
<1>3. \A u \in Native \ {t} :
        /\ native'[u] = native[u] /\ done'[u] = done[u] /\ target'[u] = target[u]
        /\ calls'[u] = calls[u] /\ Pending(u)' = Pending(u) /\ EntryOf(u)' = EntryOf(u)
  BY <1>1 DEF InvokeCallback, TypeOK, Pending, EntryOf
<1>4. \A d \in Creator : Popped(d)' = Popped(d) /\ (Running(d)' <=> Running(d))
  BY DEF InvokeCallback, dispatcherVars, Popped, Running
<1>5. runner[t] = "none"
  BY <1>1, <1>2 DEF HandOver, RunnersOwn
<1>6. Calling'
  BY <1>1, <1>2, <1>3 DEF HandOver, Calling
<1>7. Listed'
  <2> SUFFICES ASSUME NEW d \in Creator, NEW e \in Range(list[d])
               PROVE  /\ e.call <= calls'[e.thread]
                      /\ (e.call = calls'[e.thread] /\ native'[e.thread] # "idle")
                           => Pending(e.thread)' /\ target'[e.thread] = d
                      /\ Running(d)' => e.call = calls'[e.thread] /\ native'[e.thread] # "idle"
    BY <1>1, <1>2 DEF HandOver, Listed
  <2>1. e.thread \in Native /\ e.call \in Nat
    BY <1>1, ListedEntry
  <2>2. CASE e.thread = t
    <3>1. e.call <= calls[t] /\ ~Running(d)
      BY <1>1, <1>2, <2>2 DEF HandOver, Listed
    <3> QED  BY <1>2, <1>4, <2>1, <2>2, <3>1
  <2>3. CASE e.thread # t
    BY <1>1, <1>2, <1>3, <1>4, <2>1, <2>3 DEF HandOver, Listed
  <2> QED  BY <2>2, <2>3
<1>8. Taken'
  <2> SUFFICES ASSUME NEW d \in Creator, NEW e \in Popped(d)
               PROVE  /\ e \notin Range(list'[d]) /\ e.call = calls'[e.thread]
                      /\ Pending(e.thread)' /\ target'[e.thread] = d
    BY <1>4 DEF Taken
  <2>1. e.thread \in Native \ {t}
    BY <1>1, <1>2, PoppedEntry DEF HandOver, Taken
  <2> QED  BY <1>1, <1>2, <1>3, <2>1 DEF HandOver, Taken
<1>9. RunnersOwn'
  <2> SUFFICES ASSUME NEW u \in Native, runner'[u] # "none"
               PROVE  /\ Pending(u)'
                      /\ \A d \in Creator : EntryOf(u)' \notin Range(list'[d]) \cup Popped(d)'
    BY DEF RunnersOwn
  <2>1. u # t
    BY <1>2, <1>5
  <2> QED  BY <1>1, <1>2, <1>3, <1>4, <2>1 DEF HandOver, RunnersOwn
<1>10. NotLost'
  <2> SUFFICES ASSUME NEW u \in Native, faults' = 0, Pending(u)', runner'[u] = "none"
               PROVE  EntryOf(u)' \in Range(list'[target'[u]]) \cup Popped(target[u])'
    BY DEF NotLost
  <2>1. u # t
    BY <1>2
  <2>2. target[u] \in Creator
    BY <1>1, <1>3, <2>1 DEF TypeOK, Pending
  <2> QED  BY <1>1, <1>2, <1>3, <1>4, <2>1, <2>2 DEF HandOver, NotLost
<1> QED  BY <1>6, <1>7, <1>8, <1>9, <1>10 DEF HandOver

(* The pushed cb is on no other list: its call did not wait so far. *)
LEMMA PushHandOver == ASSUME AsyncIInv, NEW t \in Native, Push(t) PROVE HandOver'
<1> DEFINE d == target[t]
           x == EntryOf(t)
<1>1. TypeOK /\ HandOver
  BY DEF AsyncIInv
<1>2. /\ d \in Creator /\ x \in Entry /\ x.thread = t /\ x.call = calls[t]
      /\ calls[t] \in Nat /\ calls[t] >= 1
      /\ native[t] = "pushing" /\ ~done[t] /\ ~Pending(t) /\ runner[t] = "none"
  <2>1. native[t] = "pushing" /\ calls[t] \in 0 .. MaxCalls /\ ~Pending(t)
    BY <1>1 DEF Push, TypeOK, Pending
  <2>2. calls[t] >= 1 /\ ~done[t] /\ runner[t] = "none"
    BY <1>1, <2>1 DEF HandOver, Calling, RunnersOwn
  <2> QED  BY <1>1, <2>1, <2>2, BoundAssumption DEF TypeOK, EntryOf, Entry
<1>3. /\ native'[t] = "waiting" /\ Pending(t)' /\ EntryOf(t)' = x
      /\ UNCHANGED <<target, calls, done, runner, faults>>
      /\ \A u \in Native \ {t} : native'[u] = native[u] /\ Pending(u)' = Pending(u)
                                 /\ EntryOf(u)' = EntryOf(u)
  BY <1>1, <1>2 DEF Push, TypeOK, Pending, EntryOf, bounds
<1>4. x \notin Range(list[d])
  BY <1>1, <1>2 DEF HandOver, Listed
<1>5. /\ list'[d] = <<x>> \o list[d]
      /\ Range(list'[d]) = {x} \cup Range(list[d]) /\ IsInjective(list'[d])
      /\ \A c \in Creator \ {d} : list'[c] = list[c]
  <2>1. list'[d] = <<x>> \o list[d] /\ \A c \in Creator \ {d} : list'[c] = list[c]
    BY <1>1, <1>2 DEF Push, TypeOK
  <2>2. list[d] \in Seq(Entry) /\ IsInjective(list[d])
    BY <1>1, <1>2 DEF TypeOK, HandOver, Listed
  <2> QED  BY <1>2, <1>4, <2>1, <2>2, PushedList
<1>6. \A c \in Creator : Popped(c)' = Popped(c) /\ (Running(c)' <=> Running(c))
  BY <1>1 DEF Push, Signal, TypeOK, Popped, Running
<1> HIDE DEF d, x
<1>7. d = target[t] /\ x = EntryOf(t)
  BY DEF d, x
<1>8. Calling'
  BY <1>1, <1>2, <1>3 DEF HandOver, Calling
<1>9. Listed'
  <2>1. \A c \in Creator : IsInjective(list'[c])
    BY <1>1, <1>5 DEF HandOver, Listed
  <2>2. ASSUME NEW c \in Creator, NEW e \in Range(list'[c])
        PROVE  /\ e.call <= calls'[e.thread]
               /\ (e.call = calls'[e.thread] /\ native'[e.thread] # "idle")
                    => Pending(e.thread)' /\ target'[e.thread] = c
               /\ Running(c)' => e.call = calls'[e.thread] /\ native'[e.thread] # "idle"
    <3>1. CASE e = x /\ c = d
      BY <1>2, <1>3, <1>7, <3>1
    <3>2. CASE e \in Range(list[c])
      <4>1. e.thread \in Native
        BY <1>1, <3>2, ListedEntry
      <4>2. /\ e.call <= calls[e.thread]
            /\ (e.call = calls[e.thread] /\ native[e.thread] # "idle")
                 => Pending(e.thread) /\ target[e.thread] = c
            /\ Running(c) => e.call = calls[e.thread] /\ native[e.thread] # "idle"
        BY <1>1, <3>2 DEF HandOver, Listed
      <4>3. e.thread = t => e.call # calls[t] /\ ~Running(c)
        BY <1>2, <4>2
      <4> QED  BY <1>3, <1>6, <4>1, <4>2, <4>3
    <3> QED  BY <1>5, <2>2, <3>1, <3>2
  <2> QED  BY <2>1, <2>2 DEF Listed
<1>10. Taken'
  <2> SUFFICES ASSUME NEW c \in Creator, NEW e \in Popped(c)
               PROVE  /\ e \notin Range(list'[c]) /\ e.call = calls'[e.thread]
                      /\ Pending(e.thread)' /\ target'[e.thread] = c
    BY <1>6 DEF Taken
  <2>1. e.thread \in Native \ {t}
    BY <1>1, <1>2, PoppedEntry DEF HandOver, Taken
  <2>2. e # x
    BY <1>2, <2>1
  <2> QED  BY <1>1, <1>3, <1>5, <2>1, <2>2 DEF HandOver, Taken
<1>11. RunnersOwn'
  <2> SUFFICES ASSUME NEW u \in Native, runner'[u] # "none"
               PROVE  /\ Pending(u)'
                      /\ \A c \in Creator : EntryOf(u)' \notin Range(list'[c]) \cup Popped(c)'
    BY DEF RunnersOwn
  <2>1. u # t
    BY <1>2, <1>3
  <2>2. EntryOf(u) # x
    BY <1>2, <2>1 DEF EntryOf
  <2> QED  BY <1>1, <1>3, <1>5, <1>6, <2>1, <2>2 DEF HandOver, RunnersOwn
<1>12. NotLost'
  <2> SUFFICES ASSUME NEW u \in Native, faults' = 0, Pending(u)', runner'[u] = "none"
               PROVE  EntryOf(u)' \in Range(list'[target'[u]]) \cup Popped(target[u])'
    BY DEF NotLost
  <2>1. CASE u = t
    BY <1>3, <1>5, <1>7, <2>1
  <2>2. CASE u # t
    <3>1. target[u] \in Creator
      BY <1>1, <1>3, <2>2 DEF TypeOK, Pending
    <3>2. EntryOf(u) \in Range(list[target[u]]) \cup Popped(target[u])
      BY <1>1, <1>3, <2>2 DEF HandOver, NotLost
    <3> QED  BY <1>3, <1>5, <1>6, <2>2, <3>1, <3>2
  <2> QED  BY <2>1, <2>2
<1> QED  BY <1>8, <1>9, <1>10, <1>11, <1>12 DEF HandOver

(* The head of the list is unlinked, and is in w.cb then. *)
LEMMA PopHandOver == ASSUME AsyncIInv, NEW d \in Creator, Pop(d) PROVE HandOver'
<1>1. TypeOK /\ HandOver
  BY DEF AsyncIInv
<1>2. /\ UNCHANGED <<native, target, calls, done, runner, faults>>
      /\ \A t \in Native : Pending(t)' = Pending(t) /\ EntryOf(t)' = EntryOf(t)
      /\ \A c \in Creator : Running(c)' <=> Running(c)
      /\ \A c \in Creator \ {d} : list'[c] = list[c] /\ Popped(c)' = Popped(c)
      /\ Popped(d) = {} /\ Running(d)
  BY <1>1 DEF Pop, TypeOK, nativeVars, bounds, Pending, EntryOf, Running, Popped
<1>3. CASE list[d] = <<>>
  <2>1. list' = list /\ Popped(d)' = {}
    BY <1>1, <1>3 DEF Pop, TypeOK, Popped, AsyncIInv, Threads, EntersEmpty
  <2>2. HandsNothingOver
    <3>1. \A t \in Native : native[t] \in {"locking", "pushing"} => ~done[t]
      BY <1>1 DEF HandOver, Calling
    <3> QED  BY <1>2, <2>1, <3>1 DEF HandsNothingOver
  <2> QED  BY <2>2, NothingHandedOver
<1>4. CASE list[d] # <<>>
  <2> DEFINE x == Head(list[d])
  <2>1. /\ list'[d] = Tail(list[d]) /\ popped'[d] = x /\ thread'[d] = "back"
    BY <1>1, <1>4 DEF Pop, TypeOK
  <2>2. /\ x \in Entry /\ x \in Range(list[d])
        /\ Range(list[d]) = {x} \cup Range(list'[d])
        /\ IsInjective(list'[d]) /\ x \notin Range(list'[d])
    <3>1. list[d] \in Seq(Entry) /\ IsInjective(list[d])
      BY <1>1 DEF TypeOK, HandOver, Listed
    <3> QED  BY <1>4, <2>1, <3>1, PoppedList
  <2> HIDE DEF x
  <2>3. Popped(d)' = {x}
    BY <2>1, <2>2, NoneAssumption DEF Popped
  <2>4. /\ x.thread \in Native /\ x.call = calls[x.thread] /\ Pending(x.thread)
        /\ target[x.thread] = d
    BY <1>1, <1>2, <2>2, ListedEntry DEF HandOver, Listed
  <2>5. Calling'
    BY <1>1, <1>2 DEF HandOver, Calling
  <2>6. Listed'
    <3>1. \A c \in Creator : IsInjective(list'[c]) /\ Range(list'[c]) \subseteq Range(list[c])
      BY <1>1, <1>2, <2>2 DEF HandOver, Listed
    <3> QED  BY <1>1, <1>2, <3>1, ListedEntry DEF HandOver, Listed
  <2>7. Taken'
    BY <1>1, <1>2, <2>2, <2>3, <2>4, PoppedEntry DEF HandOver, Taken
  <2>8. RunnersOwn'
    <3>1. \A t \in Native : runner[t] # "none" => EntryOf(t) # x
      BY <1>1, <2>2 DEF HandOver, RunnersOwn
    <3>2. \A c \in Creator : Range(list'[c]) \subseteq Range(list[c])
      BY <1>2, <2>2
    <3> QED  BY <1>1, <1>2, <2>3, <3>1, <3>2 DEF HandOver, RunnersOwn
  <2>9. NotLost'
    <3>1. \A c \in Creator : Range(list'[c]) \cup Popped(c)' = Range(list[c]) \cup Popped(c)
      BY <1>2, <2>2, <2>3
    <3>2. \A t \in Native : Pending(t) => target[t] \in Creator
      BY <1>1 DEF TypeOK, Pending
    <3> QED  BY <1>1, <1>2, <3>1, <3>2 DEF HandOver, NotLost
  <2> QED  BY <2>5, <2>6, <2>7, <2>8, <2>9 DEF HandOver
<1> QED  BY <1>3, <1>4

(* w.cb goes to a runner, and w.cb is stale from then on. *)
LEMMA StartRunnerHandOver ==
  ASSUME AsyncIInv, NEW d \in Creator, StartRunner(d) PROVE HandOver'
<1>1. TypeOK /\ HandOver
  BY DEF AsyncIInv
<1>2. /\ UNCHANGED <<list, native, target, calls, done, faults>>
      /\ \A t \in Native : Pending(t)' = Pending(t) /\ EntryOf(t)' = EntryOf(t)
      /\ \A c \in Creator : Running(c)' <=> Running(c)
      /\ \A c \in Creator \ {d} : Popped(c)' = Popped(c)
      /\ Popped(d)' = {}
  BY <1>1 DEF StartRunner, TypeOK, nativeVars, bounds, Pending, EntryOf, Running, Popped
<1>3. \A t \in Native : runner'[t] # "none" /\ runner[t] = "none"
                           => popped[d] \in Popped(d) /\ popped[d].thread = t
  BY <1>1 DEF StartRunner, TypeOK, Popped
<1>4. \A t \in Native : runner'[t] = "none" => runner[t] = "none"
  BY <1>1 DEF StartRunner, TypeOK
<1>5. popped[d] \in Popped(d) => /\ popped[d].thread \in Native
                                 /\ runner'[popped[d].thread] = "ready"
  BY <1>1, PoppedEntry DEF StartRunner, TypeOK, Popped
<1>6. Calling'
  BY <1>1, <1>2 DEF HandOver, Calling
<1>7. Listed'
  BY <1>1, <1>2, ListedEntry DEF HandOver, Listed
<1>8. Taken'
  BY <1>1, <1>2, PoppedEntry DEF HandOver, Taken
<1>9. RunnersOwn'
  <2> SUFFICES ASSUME NEW t \in Native, runner'[t] # "none"
               PROVE  /\ Pending(t)
                      /\ \A c \in Creator : EntryOf(t) \notin Range(list[c]) \cup Popped(c)'
    BY <1>2 DEF RunnersOwn
  <2>1. CASE runner[t] # "none"
    BY <1>1, <1>2, <2>1 DEF HandOver, RunnersOwn
  <2>2. CASE runner[t] = "none"
    <3> DEFINE x == popped[d]
    <3>1. x \in Popped(d) /\ x.thread = t
      BY <1>3, <2>2
    <3> HIDE DEF x
    <3>2. x \notin Range(list[d]) /\ x.call = calls[t] /\ Pending(t) /\ target[t] = d
      BY <1>1, <3>1 DEF HandOver, Taken
    <3>3. x = EntryOf(t)
      BY <1>1, <3>1, <3>2, PoppedEntry, CurrentEntry
    <3>4. /\ x.thread = t /\ native[t] # "idle"
          /\ \A c \in Creator \ {d} : x \notin Range(list[c]) /\ x \notin Popped(c)
      BY <1>1, <3>1, <3>2 DEF HandOver, Listed, Taken, Pending
    <3> QED  BY <1>2, <3>2, <3>3, <3>4
  <2> QED  BY <2>1, <2>2
<1>10. NotLost'
  <2> SUFFICES ASSUME NEW t \in Native, faults = 0, Pending(t), runner'[t] = "none"
               PROVE  EntryOf(t) \in Range(list[target[t]]) \cup Popped(target[t])'
    BY <1>2 DEF NotLost
  <2>1. EntryOf(t) \in Range(list[target[t]]) \cup Popped(target[t])
    BY <1>1, <1>4 DEF HandOver, NotLost
  <2>2. target[t] \in Creator
    BY <1>1 DEF TypeOK, Pending
  <2>3. CASE target[t] = d /\ EntryOf(t) \in Popped(d)
    <3>1. EntryOf(t) = popped[d]
      BY <2>3 DEF Popped
    <3>2. EntryOf(t).thread = t
      BY DEF EntryOf
    <3> QED  BY <1>5, <2>3, <3>1, <3>2
  <2> QED  BY <1>2, <2>1, <2>2, <2>3
<1> QED  BY <1>6, <1>7, <1>8, <1>9, <1>10 DEF HandOver

(* A call that is done is with nobody, so it can return. *)
LEMMA ReturnHandOver == ASSUME AsyncIInv, NEW t \in Native, Return(t) PROVE HandOver'
<1>1. TypeOK /\ HandOver
  BY DEF AsyncIInv
<1>2. /\ UNCHANGED <<list, target, calls, done, runner, faults>>
      /\ native'[t] = "idle" /\ ~Pending(t) /\ ~Pending(t)' /\ runner[t] = "none"
      /\ native[t] # "idle"
      /\ \A u \in Native \ {t} : native'[u] = native[u] /\ Pending(u)' = Pending(u)
      /\ \A u \in Native : EntryOf(u)' = EntryOf(u)
      /\ \A c \in Creator : Popped(c)' = Popped(c) /\ (Running(c)' <=> Running(c))
  BY <1>1 DEF Return, TypeOK, HandOver, RunnersOwn, Pending, EntryOf, bounds,
              dispatcherVars, Popped, Running
<1>3. \A d \in Creator : \A e \in Range(list[d]) \cup Popped(d) :
        e.thread = t => ~Running(d) /\ e \notin Popped(d)
  BY <1>1, <1>2 DEF HandOver, Listed, Taken
<1>4. Calling'
  BY <1>1, <1>2 DEF HandOver, Calling
<1>5. Listed'
  BY <1>1, <1>2, <1>3, ListedEntry DEF HandOver, Listed
<1>6. Taken'
  BY <1>1, <1>2, <1>3, PoppedEntry DEF HandOver, Taken
<1>7. RunnersOwn'
  BY <1>1, <1>2 DEF HandOver, RunnersOwn
<1>8. NotLost'
  BY <1>1, <1>2 DEF HandOver, NotLost, TypeOK, Pending
<1> QED  BY <1>4, <1>5, <1>6, <1>7, <1>8 DEF HandOver

(* The runner lets go of the cb when it marks it done. *)
LEMMA SignalDoneHandOver ==
  ASSUME AsyncIInv, NEW t \in Native, SignalDone(t) PROVE HandOver'
<1>1. TypeOK /\ HandOver
  BY DEF AsyncIInv
<1>2. /\ UNCHANGED <<list, target, calls, faults>>
      /\ Pending(t) /\ ~Pending(t)' /\ runner[t] # "none" /\ runner'[t] = "none"
      /\ native[t] # "idle" /\ native'[t] = "waiting"
      /\ \A u \in Native \ {t} : /\ native'[u] = native[u] /\ done'[u] = done[u]
                                 /\ Pending(u)' = Pending(u) /\ runner'[u] = runner[u]
      /\ \A u \in Native : EntryOf(u)' = EntryOf(u)
      /\ \A c \in Creator : Popped(c)' = Popped(c) /\ (Running(c)' <=> Running(c))
  BY <1>1 DEF SignalDone, TypeOK, HandOver, RunnersOwn, Pending, EntryOf, bounds,
              dispatcherVars, Popped, Running
<1>3. \A d \in Creator : EntryOf(t) \notin Range(list[d]) \cup Popped(d)
  BY <1>1, <1>2 DEF HandOver, RunnersOwn
<1>4. \A d \in Creator : \A e \in Range(list[d]) \cup Popped(d) :
        e.thread = t => e.call # calls[t]
  BY <1>1, <1>3, ListedEntry, PoppedEntry, CurrentEntry
<1>5. Calling'
  BY <1>1, <1>2 DEF HandOver, Calling
<1>6. Listed'
  BY <1>1, <1>2, <1>4, ListedEntry DEF HandOver, Listed
<1>7. Taken'
  BY <1>1, <1>2, <1>4, PoppedEntry DEF HandOver, Taken
<1>8. RunnersOwn'
  BY <1>1, <1>2 DEF HandOver, RunnersOwn
<1>9. NotLost'
  <2>1. \A u \in Native : Pending(u) => target[u] \in Creator
    BY <1>1 DEF TypeOK, Pending
  <2>2. \A u \in Native : Pending(u)' => u # t
    BY <1>2
  <2> QED  BY <1>1, <1>2, <2>1, <2>2 DEF HandOver, NotLost
<1> QED  BY <1>5, <1>6, <1>7, <1>8, <1>9 DEF HandOver

LEMMA StepHandOver == AsyncIInv /\ [Next]_vars => HandOver'
BY CreateHandOver, AtforkHandOver, AtforkFailsHandOver, ForkHandOver, InvokeHandOver, PushHandOver, PopHandOver,
   StartRunnerHandOver, ReturnHandOver, SignalDoneHandOver, NativeHandsNothingOver,
   DispatcherHandsNothingOver, OthersHandNothingOver, NothingHandedOver
   DEF Next, CreatorNext, NativeStep, DispatcherStep, RunnerStep

-----------------------------------------------------------------------------
(* The threads *)

LEMMA InitializeRuns ==
  ASSUME TypeOK, NEW d \in Creator, Initialize(d)
  PROVE  /\ thread'[d] = "loop" /\ popped'[d] = None /\ ~stop'[d] /\ ~killed'[d]
         /\ list'[d] = <<>>
         /\ \A c \in Creator \ {d} :
              /\ thread'[c] = thread[c] /\ popped'[c] = popped[c] /\ list'[c] = list[c]
              /\ stop'[c] = stop[c] /\ killed'[c] = killed[c]
BY DEF TypeOK, Initialize

(* A dispatcher thread that was started does not become unborn. *)
LEMMA StaysBorn ==
  ASSUME AsyncIInv, [Next]_vars, NEW d \in Creator, thread[d] # "unborn"
  PROVE  thread'[d] # "unborn"
<1>1. TypeOK
  BY DEF AsyncIInv
<1> USE DEF dispatcherVars
<1>2. ASSUME NEW r \in Creator, CreatorNext(r) PROVE thread'[d] # "unborn"
  BY <1>1, <1>2, InitializeRuns
     DEF CreatorNext, UseDispatcher, CreateDispatcher, CreateDispatcherFails, RegisterDispatcher
<1>3. ASSUME NEW t \in Native, \/ \E f \in Creator : InvokeCallback(t, f)
                               \/ NativeStep(t) \/ SpuriousNativeWakeup(t)
                               \/ RunnerStep(t) \/ RunnerKilled(t)
      PROVE  thread'[d] # "unborn"
  BY <1>1, <1>3 DEF TypeOK, InvokeCallback, NativeStep, LockToPush, Push, Signal, Sleep, Return,
                    SpuriousNativeWakeup, RunnerStep, RunCallback, SignalDone, RunnerKilled
<1>4. ASSUME NEW c \in Creator, \/ DispatcherStep(c) \/ SpuriousWakeup(c) \/ StartRunnerFails(c)
                                \/ \E kill \in BOOLEAN : Interrupt(c, kill)
      PROVE  thread'[d] # "unborn"
  BY <1>1, <1>4 DEF TypeOK, DispatcherStep, DieKilled, Loop, LockToCheck, WaitForCallback, Pop,
                    StartRunner, SpuriousWakeup, StartRunnerFails, Interrupt, StopWaiting, Signal
<1>5. CASE Fork
  BY <1>1, <1>5 DEF TypeOK, Fork
<1>6. CASE AtforkChild
  BY <1>1, <1>6, InitializeRuns DEF AtforkChild, TypeOK
<1>7. CASE AtforkChildFails
  BY <1>7 DEF AtforkChildFails
<1> QED  BY <1>2, <1>3, <1>4, <1>5, <1>6, <1>7 DEF Next, vars

(* What becomes visible was set up before: function_init stores the pointer  *)
(* last, and a call takes it from there.                                     *)
LEMMA StepOnlySetUpUsed == AsyncIInv /\ [Next]_vars => OnlySetUpUsed'
<1> SUFFICES ASSUME AsyncIInv, [Next]_vars PROVE OnlySetUpUsed'
  OBVIOUS
<1>1. TypeOK /\ OnlySetUpUsed
  BY DEF AsyncIInv, Threads
<1>2. \A d \in Creator : thread[d] # "unborn" => thread'[d] # "unborn"
  BY StaysBorn
<1>3. ASSUME UNCHANGED <<registry, creator, dispatcher, target>>,
             \A t \in Native : native'[t] # "idle" => native[t] # "idle"
      PROVE  OnlySetUpUsed'
  BY <1>1, <1>2, <1>3 DEF OnlySetUpUsed, SetUp, TypeOK
<1> USE DEF dispatcherVars, nativeVars
<1>4. ASSUME NEW r \in Creator, UseDispatcher(r) PROVE OnlySetUpUsed'
  BY <1>1, <1>4 DEF UseDispatcher, OnlySetUpUsed, SetUp, TypeOK
<1>5. ASSUME NEW r \in Creator, CreateDispatcher(r) PROVE OnlySetUpUsed'
  BY <1>1, <1>2, <1>5, InitializeRuns DEF CreateDispatcher, OnlySetUpUsed, SetUp, TypeOK
<1>6. ASSUME NEW r \in Creator, CreateDispatcherFails(r) PROVE OnlySetUpUsed'
  BY <1>1, <1>6 DEF CreateDispatcherFails, OnlySetUpUsed, SetUp, TypeOK
<1>7. ASSUME NEW r \in Creator, RegisterDispatcher(r) PROVE OnlySetUpUsed'
  BY <1>1, <1>7 DEF RegisterDispatcher, OnlySetUpUsed, SetUp, TypeOK
<1>8. ASSUME NEW t \in Native, NEW f \in Creator, InvokeCallback(t, f) PROVE OnlySetUpUsed'
  BY <1>1, <1>8 DEF InvokeCallback, OnlySetUpUsed, SetUp, TypeOK
<1>9. ASSUME NEW t \in Native, \/ NativeStep(t) \/ SpuriousNativeWakeup(t)
                               \/ RunnerStep(t) \/ RunnerKilled(t)
      PROVE  OnlySetUpUsed'
  BY <1>1, <1>3, <1>9
     DEF TypeOK, NativeStep, LockToPush, Push, Sleep, Return, SpuriousNativeWakeup,
         RunnerStep, RunCallback, SignalDone, RunnerKilled
<1>10. ASSUME NEW d \in Creator, \/ DispatcherStep(d) \/ SpuriousWakeup(d) \/ StartRunnerFails(d)
                                 \/ \E kill \in BOOLEAN : Interrupt(d, kill)
       PROVE  OnlySetUpUsed'
  BY <1>3, <1>10
     DEF DispatcherStep, DieKilled, Loop, LockToCheck, WaitForCallback, Pop, StartRunner,
         SpuriousWakeup, StartRunnerFails, Interrupt
<1>11. CASE Fork
  <2>1. /\ \A r \in Creator : creator'[r] = creator[r] \/ creator[r] = "naming"
        /\ \A r \in Creator : creator'[r] # "naming"
        /\ \A t \in Native : native'[t] = "idle"
        /\ UNCHANGED <<registry, dispatcher>>
    BY <1>1, <1>11 DEF Fork, TypeOK
  <2> QED  BY <1>1, <1>2, <2>1 DEF OnlySetUpUsed, SetUp, TypeOK
<1>12. CASE AtforkChild \/ AtforkChildFails
  BY <1>3, <1>12 DEF AtforkChild, AtforkChildFails
<1>13. CASE UNCHANGED vars
  BY <1>3, <1>13 DEF vars
<1> QED  BY <1>4, <1>5, <1>6, <1>7, <1>8, <1>9, <1>10, <1>11, <1>12, <1>13
         DEF Next, CreatorNext

(* While the hook has still to run nothing but the hook can run. *)
LEMMA StepChildIsAlone == AsyncIInv /\ [Next]_vars => ChildIsAlone'
<1> SUFFICES ASSUME AsyncIInv, [Next]_vars PROVE ChildIsAlone'
  OBVIOUS
<1>1. TypeOK /\ ChildIsAlone
  BY DEF AsyncIInv, Threads
<1>2. CASE Fork
  BY <1>1, <1>2, BoundAssumption DEF Fork, ChildIsAlone, TypeOK, Running
<1>3. CASE AtforkChild \/ AtforkChildFails
  BY <1>3 DEF AtforkChild, AtforkChildFails, ChildIsAlone
<1>4. CASE ~hook /\ UNCHANGED hook
  BY <1>4 DEF ChildIsAlone
<1>5. CASE UNCHANGED vars
  BY <1>1, <1>5 DEF vars, dispatcherVars, nativeVars, bounds, ChildIsAlone, Running
<1>6. ASSUME NEW r \in Creator, CreatorNext(r) PROVE ~hook /\ UNCHANGED hook
  BY <1>6 DEF CreatorNext, UseDispatcher, CreateDispatcher, CreateDispatcherFails,
              RegisterDispatcher
<1>7. ASSUME NEW t \in Native, \/ \E f \in Creator : InvokeCallback(t, f)
                               \/ NativeStep(t) \/ SpuriousNativeWakeup(t)
                               \/ RunnerStep(t) \/ RunnerKilled(t)
      PROVE  ~hook /\ UNCHANGED hook
  BY <1>1, <1>7 DEF ChildIsAlone, InvokeCallback, NativeStep, LockToPush, Push, Sleep, Return,
                    SpuriousNativeWakeup, RunnerStep, RunCallback, SignalDone, RunnerKilled
<1>8. ASSUME NEW d \in Creator, \/ DispatcherStep(d) \/ SpuriousWakeup(d) \/ StartRunnerFails(d)
                                \/ \E kill \in BOOLEAN : Interrupt(d, kill)
      PROVE  ~hook /\ UNCHANGED hook
  BY <1>1, <1>8 DEF ChildIsAlone, Running, DispatcherStep, DieKilled, Loop, LockToCheck,
                    WaitForCallback, Pop, StartRunner, SpuriousWakeup, StartRunnerFails, Interrupt
<1> QED  BY <1>2, <1>3, <1>4, <1>5, <1>6, <1>7, <1>8 DEF Next

(* w.cb is emptied before the dispatcher enters its wait. *)
LEMMA StepEntersEmpty == AsyncIInv /\ [Next]_vars => EntersEmpty'
<1> SUFFICES ASSUME AsyncIInv, [Next]_vars PROVE EntersEmpty'
  OBVIOUS
<1>1. TypeOK /\ EntersEmpty
  BY DEF AsyncIInv, Threads
<1>2. CASE UNCHANGED <<thread, popped>>
  BY <1>1, <1>2 DEF EntersEmpty
<1> USE DEF dispatcherVars, nativeVars
<1>3. ASSUME NEW r \in Creator, CreatorNext(r) PROVE EntersEmpty'
  BY <1>1, <1>2, <1>3, InitializeRuns
     DEF CreatorNext, UseDispatcher, CreateDispatcher, CreateDispatcherFails,
         RegisterDispatcher, EntersEmpty
<1>4. ASSUME NEW t \in Native, \/ \E f \in Creator : InvokeCallback(t, f)
                               \/ NativeStep(t) \/ SpuriousNativeWakeup(t)
                               \/ RunnerStep(t) \/ RunnerKilled(t)
      PROVE  EntersEmpty'
  <2>1. CASE Push(t)
    BY <1>1, <2>1 DEF TypeOK, Push, Signal, EntersEmpty
  <2> QED  BY <1>2, <1>4, <2>1
           DEF InvokeCallback, NativeStep, LockToPush, Sleep, Return,
               SpuriousNativeWakeup, RunnerStep, RunCallback, SignalDone, RunnerKilled
<1>5. ASSUME NEW d \in Creator, \/ DispatcherStep(d) \/ SpuriousWakeup(d) \/ StartRunnerFails(d)
                                \/ \E kill \in BOOLEAN : Interrupt(d, kill)
      PROVE  EntersEmpty'
  BY <1>1, <1>5 DEF TypeOK, EntersEmpty, DispatcherStep, DieKilled, Loop, LockToCheck,
                    WaitForCallback, Pop, StartRunner, SpuriousWakeup, StartRunnerFails,
                    Interrupt, StopWaiting, Signal
<1>6. CASE Fork
  BY <1>6 DEF Fork, EntersEmpty
<1>7. CASE AtforkChild
  BY <1>1, <1>2, <1>7, InitializeRuns DEF AtforkChild, EntersEmpty, TypeOK
<1>8. CASE AtforkChildFails
  BY <1>2, <1>8 DEF AtforkChildFails
<1> QED  BY <1>2, <1>3, <1>4, <1>5, <1>6, <1>7, <1>8 DEF Next, vars

(* Whoever changes what a sleeper waits for wakes it, and a thread falls     *)
(* asleep only after it has checked.                                         *)
LEMMA StepNoLostWakeup == AsyncIInv /\ [Next]_vars => NoLostWakeup'
<1> SUFFICES ASSUME AsyncIInv, [Next]_vars PROVE NoLostWakeup'
  OBVIOUS
<1>1. TypeOK /\ NoLostWakeup
  BY DEF AsyncIInv
<1>2. CASE UNCHANGED <<thread, list, stop, native, done>>
  BY <1>1, <1>2 DEF NoLostWakeup
<1> USE DEF dispatcherVars, nativeVars
<1>3. ASSUME NEW r \in Creator, CreatorNext(r) PROVE NoLostWakeup'
  BY <1>1, <1>2, <1>3, InitializeRuns
     DEF CreatorNext, UseDispatcher, CreateDispatcher, CreateDispatcherFails,
         RegisterDispatcher, NoLostWakeup
<1>4. ASSUME NEW t \in Native, \/ \E f \in Creator : InvokeCallback(t, f)
                               \/ NativeStep(t) \/ SpuriousNativeWakeup(t)
                               \/ RunnerStep(t) \/ RunnerKilled(t)
      PROVE  NoLostWakeup'
  <2>1. CASE Push(t)
    <3>1. target[t] \in Creator
      BY <1>1, <2>1 DEF TypeOK, Push
    <3>2. /\ UNCHANGED <<stop, done>>
          /\ \A d \in Creator : thread'[d] = "asleep" =>
               d # target[t] /\ thread[d] = "asleep" /\ list'[d] = list[d]
          /\ \A u \in Native : native'[u] = "asleep" => native[u] = "asleep"
      BY <1>1, <2>1, <3>1 DEF TypeOK, Push, Signal
    <3> QED  BY <1>1, <3>2 DEF NoLostWakeup
  <2>2. CASE ~Push(t)
    <3>1. /\ UNCHANGED <<thread, list, stop>>
          /\ \A u \in Native : native'[u] = "asleep" /\ done'[u] =>
                               native[u] = "asleep" /\ done[u]
      BY <1>1, <1>4, <2>2
         DEF TypeOK, InvokeCallback, NativeStep, LockToPush, Sleep, Return,
             SpuriousNativeWakeup, RunnerStep, RunCallback, SignalDone, RunnerKilled
    <3> QED  BY <1>1, <3>1 DEF NoLostWakeup
  <2> QED  BY <2>1, <2>2
<1>5. ASSUME NEW d \in Creator, \/ DispatcherStep(d) \/ SpuriousWakeup(d) \/ StartRunnerFails(d)
                                \/ \E kill \in BOOLEAN : Interrupt(d, kill)
      PROVE  NoLostWakeup'
  BY <1>1, <1>5 DEF TypeOK, NoLostWakeup, DispatcherStep, DieKilled, Loop, LockToCheck,
                    WaitForCallback, Pop, StartRunner, SpuriousWakeup, StartRunnerFails,
                    Interrupt, StopWaiting, Signal
<1>6. CASE Fork
  BY <1>1, <1>6 DEF Fork, NoLostWakeup, Running
<1>7. CASE AtforkChild
  BY <1>1, <1>2, <1>7, InitializeRuns DEF AtforkChild, NoLostWakeup, TypeOK
<1>8. CASE AtforkChildFails
  BY <1>1, <1>8 DEF AtforkChildFails, NoLostWakeup, TypeOK
<1> QED  BY <1>2, <1>3, <1>4, <1>5, <1>6, <1>7, <1>8 DEF Next, vars

(* A dispatcher found is the registered one, or was it once; nothing is ever *)
(* taken out of the registry.                                                *)
LEMMA StepRegistered == AsyncIInv /\ [Next]_vars => Registered'
<1> SUFFICES ASSUME AsyncIInv, [Next]_vars PROVE Registered'
  OBVIOUS
<1>1. TypeOK /\ Registered
  BY DEF AsyncIInv, Threads
<1>2. CASE UNCHANGED <<registry, dispatcher>>
  BY <1>1, <1>2 DEF Registered
<1>3. ASSUME NEW r \in Creator, CreatorNext(r) PROVE Registered'
  BY <1>1, <1>2, <1>3, NoneAssumption
     DEF CreatorNext, UseDispatcher, CreateDispatcher, CreateDispatcherFails,
         RegisterDispatcher, Registered, TypeOK
<1>4. ASSUME NEW t \in Native, \/ \E f \in Creator : InvokeCallback(t, f)
                               \/ NativeStep(t) \/ SpuriousNativeWakeup(t)
                               \/ RunnerStep(t) \/ RunnerKilled(t)
      PROVE  Registered'
  BY <1>2, <1>4 DEF InvokeCallback, NativeStep, LockToPush, Push, Sleep, Return,
                    SpuriousNativeWakeup, RunnerStep, RunCallback, SignalDone, RunnerKilled
<1>5. ASSUME NEW d \in Creator, \/ DispatcherStep(d) \/ SpuriousWakeup(d) \/ StartRunnerFails(d)
                                \/ \E kill \in BOOLEAN : Interrupt(d, kill)
      PROVE  Registered'
  BY <1>2, <1>5 DEF DispatcherStep, DieKilled, Loop, LockToCheck, WaitForCallback, Pop,
                    StartRunner, SpuriousWakeup, StartRunnerFails, Interrupt
<1>6. CASE Fork \/ AtforkChild \/ AtforkChildFails
  BY <1>2, <1>6 DEF Fork, AtforkChild, AtforkChildFails
<1> QED  BY <1>2, <1>3, <1>4, <1>5, <1>6 DEF Next, vars

(* Only an interrupt, a kill or a lack of threads ends a dispatcher, and a   *)
(* fork, after which the hook restarts the registered one.                   *)
LEMMA StepUndisturbed == AsyncIInv /\ [Next]_vars => Undisturbed'
<1> SUFFICES ASSUME AsyncIInv, [Next]_vars, faults' = 0 PROVE Undisturbed'
  BY DEF Undisturbed
<1>1. TypeOK /\ ChildIsAlone
  BY DEF AsyncIInv, Threads
<1>2. faults = 0 /\ ~Fault
  <2>1. \A n \in Nat : n + 1 # 0
    OBVIOUS
  <2> QED  BY <1>1, <2>1, FaultCounts, BoundAssumption
           DEF TypeOK, Fault, Next, vars, bounds, CreatorNext, UseDispatcher, CreateDispatcher,
               CreateDispatcherFails, RegisterDispatcher, InvokeCallback, NativeStep, LockToPush,
               Push, Sleep, Return, SpuriousNativeWakeup, RunnerStep, RunCallback, SignalDone,
               RunnerKilled, DispatcherStep, DieKilled, Loop, LockToCheck, WaitForCallback, Pop,
               StartRunner, SpuriousWakeup, StartRunnerFails, Interrupt, Fork, AtforkChild,
               AtforkChildFails
<1>3. /\ \A d \in Creator : ~stop[d] /\ ~killed[d]
      /\ ~hook => /\ registry # None => Running(registry)
                  /\ \A r \in Creator : creator[r] = "naming" => Running(r)
      /\ forks = 0 => \A d \in Creator : thread[d] # "dead"
  BY <1>2 DEF AsyncIInv, Threads, Undisturbed
<1>4. ASSUME UNCHANGED <<registry, creator, stop, killed, hook, forks>>,
             \A d \in Creator : thread'[d] = thread[d] \/ thread'[d] \notin {"unborn", "dead"}
      PROVE  Undisturbed'
  BY <1>1, <1>3, <1>4 DEF Undisturbed, Running, TypeOK
<1> USE DEF dispatcherVars, nativeVars, bounds
<1>5. ASSUME NEW r \in Creator, CreatorNext(r) PROVE Undisturbed'
  <2>1. CASE UseDispatcher(r)
    BY <1>1, <1>3, <2>1 DEF UseDispatcher, Undisturbed, Running, TypeOK
  <2>2. CASE CreateDispatcher(r)
    BY <1>1, <1>3, <2>2, InitializeRuns DEF CreateDispatcher, Undisturbed, Running, TypeOK
  <2>3. CASE RegisterDispatcher(r)
    BY <1>1, <1>3, <2>3 DEF RegisterDispatcher, Undisturbed, Running, TypeOK
  <2> QED  BY <1>2, <1>5, <2>1, <2>2, <2>3 DEF CreatorNext, CreateDispatcherFails
<1>6. ASSUME NEW t \in Native, \/ \E f \in Creator : InvokeCallback(t, f)
                               \/ NativeStep(t) \/ SpuriousNativeWakeup(t)
                               \/ RunnerStep(t) \/ RunnerKilled(t)
      PROVE  Undisturbed'
  BY <1>1, <1>2, <1>4, <1>6
     DEF TypeOK, InvokeCallback, NativeStep, LockToPush, Push, Signal, Sleep, Return,
         SpuriousNativeWakeup, RunnerStep, RunCallback, SignalDone, RunnerKilled
<1>7. ASSUME NEW d \in Creator, \/ DispatcherStep(d) \/ SpuriousWakeup(d) \/ StartRunnerFails(d)
                                \/ \E kill \in BOOLEAN : Interrupt(d, kill)
      PROVE  Undisturbed'
  <2>1. ~DieKilled(d) /\ ~StartRunnerFails(d) /\ \A kill \in BOOLEAN : ~Interrupt(d, kill)
    BY <1>2, <1>3 DEF DieKilled, StartRunnerFails, Interrupt
  <2>2. /\ UNCHANGED <<registry, creator, stop, killed, hook, forks>>
        /\ \A c \in Creator : thread'[c] = thread[c] \/ thread'[c] \notin {"unborn", "dead"}
    BY <1>1, <1>3, <1>7, <2>1
       DEF TypeOK, DispatcherStep, Loop, LockToCheck, WaitForCallback, Pop, StartRunner,
           SpuriousWakeup
  <2> QED  BY <1>4, <2>2
<1>8. CASE Fork
  BY <1>1, <1>3, <1>8, BoundAssumption DEF Fork, Undisturbed, TypeOK
<1>9. CASE AtforkChild
  <2>1. forks > 0 /\ \A r \in Creator : creator[r] # "naming"
    BY <1>1, <1>9 DEF AtforkChild, ChildIsAlone
  <2>2. /\ UNCHANGED <<registry, creator, forks>>
        /\ registry # None => Running(registry)'
        /\ \A d \in Creator : ~stop'[d] /\ ~killed'[d]
    BY <1>1, <1>3, <1>9, InitializeRuns DEF AtforkChild, Running, TypeOK
  <2> QED  BY <2>1, <2>2 DEF Undisturbed, Running
<1>10. CASE UNCHANGED vars
  BY <1>4, <1>10 DEF vars
<1>11. ~AtforkChildFails
  BY <1>2 DEF AtforkChildFails
<1> QED  BY <1>5, <1>6, <1>7, <1>8, <1>9, <1>10, <1>11 DEF Next

(* AsyncIInv is an invariant. *)
THEOREM AsyncInvariant == Spec => []AsyncIInv
<1>1. AsyncIInv /\ [Next]_vars => AsyncIInv'
  BY StepTyped, StepHandOver, StepOnlySetUpUsed, StepChildIsAlone, StepEntersEmpty,
     StepUndisturbed, StepRegistered, StepNoLostWakeup DEF AsyncIInv, Threads
<1> QED  BY <1>1, InitAsync, PTL DEF Spec

-----------------------------------------------------------------------------
(* What follows *)

(* Dispatchers, native threads and runners keep their types. *)
THEOREM CallbacksTyped == Spec => []TypeOK
<1>1. AsyncIInv => TypeOK
  BY DEF AsyncIInv
<1> QED  BY <1>1, AsyncInvariant, PTL

(* Nobody reaches the cb of a call that has returned: what a live dispatcher *)
(* or a runner holds is on the stack of a thread inside callback_invoke.     *)
THEOREM NoCallbackDangles == Spec => []NoDanglingCallback
<1>1. AsyncIInv => NoDanglingCallback
  <2> SUFFICES ASSUME AsyncIInv PROVE NoDanglingCallback
    OBVIOUS
  <2>1. TypeOK /\ Listed /\ Taken /\ RunnersOwn
    BY DEF AsyncIInv, HandOver
  <2>2. ASSUME NEW d \in Creator, Running(d), NEW e \in Range(list[d]) \cup Popped(d)
        PROVE  Pending(e.thread) /\ e = EntryOf(e.thread)
    <3>1. e \in Entry /\ e.thread \in Native
      BY <2>1, ListedEntry, PoppedEntry
    <3>2. Pending(e.thread) /\ e.call = calls[e.thread]
      BY <2>1, <2>2 DEF Listed, Taken
    <3> QED  BY <3>1, <3>2, CurrentEntry
  <2>3. \A t \in Native : runner[t] # "none" => Pending(t)
    BY <2>1 DEF RunnersOwn
  <2> QED  BY <2>2, <2>3 DEF NoDanglingCallback
<1> QED  BY <1>1, AsyncInvariant, PTL

(* A callback that waits is in one place, so it is executed at most once; it *)
(* is in no place only after something was killed.                           *)
THEOREM CallbacksHandedOverOnce == Spec => []NeitherLostNorCopied
<1>1. AsyncIInv => NeitherLostNorCopied
  <2> SUFFICES ASSUME AsyncIInv, NEW t \in Native, Pending(t)
               PROVE  /\ \A x, y \in Places(t) : x = y
                      /\ faults = 0 => Places(t) # {}
    BY DEF NeitherLostNorCopied
  <2>1. TypeOK /\ Listed /\ Taken /\ RunnersOwn /\ NotLost
    BY DEF AsyncIInv, HandOver
  <2> DEFINE e == EntryOf(t)
             d == target[t]
  <2>2. e.thread = t /\ e.call = calls[t] /\ native[t] # "idle" /\ d \in Creator
    BY <2>1 DEF EntryOf, Pending, TypeOK
  <2> HIDE DEF e, d
  <2>3. /\ \A c \in Creator : e \in Range(list[c]) \cup Popped(c) => c = d
        /\ ~(e \in Range(list[d]) /\ e \in Popped(d))
        /\ runner[t] # "none" => e \notin Range(list[d]) \cup Popped(d)
    BY <2>1, <2>2 DEF Listed, Taken, RunnersOwn, e, d
  <2>4. \A x : x \in Places(t) <=>
          \/ \E c \in Creator : \E i \in DOMAIN list[c] : list[c][i] = e /\ x = <<c, i>>
          \/ \E c \in Creator : e \in Popped(c) /\ x = <<c, 0>>
          \/ runner[t] # "none" /\ x = <<t, 0>>
    BY DEF Places, e
  <2>5. \A i, j \in DOMAIN list[d] : list[d][i] = e /\ list[d][j] = e => i = j
    BY <2>1, <2>2 DEF Listed, IsInjective
  <2>6. \A c \in Creator : \A i \in DOMAIN list[c] : list[c][i] = e => e \in Range(list[c])
    BY DEF Range
  <2>7. ASSUME NEW x \in Places(t), NEW y \in Places(t) PROVE x = y
    BY <2>2, <2>3, <2>4, <2>5, <2>6, <2>7
  <2>8. ASSUME faults = 0 PROVE Places(t) # {}
    <3>1. runner[t] # "none" \/ e \in Range(list[d]) \cup Popped(d)
      BY <2>1, <2>8 DEF NotLost, e, d
    <3>2. e \in Range(list[d]) => \E i \in DOMAIN list[d] : list[d][i] = e
      BY DEF Range
    <3>3. \E x : x \in Places(t)
      BY <2>2, <2>4, <3>1, <3>2
    <3> QED  BY <3>3
  <2> QED  BY <2>7, <2>8
<1> QED  BY <1>1, AsyncInvariant, PTL

(* Who sleeps on a condition variable has nothing to do. *)
THEOREM NoWakeupIsLost == Spec => []NoLostWakeup
<1>1. AsyncIInv => NoLostWakeup
  BY DEF AsyncIInv
<1> QED  BY <1>1, AsyncInvariant, PTL

(* Every function has a dispatcher that runs, as long as nothing is killed,  *)
(* if either no process forks or only one thread makes functions.  With both *)
(* it is false: two threads can each make a dispatcher, and the fork hook    *)
(* restarts only the one that is registered.                                 *)
THEOREM EveryDispatcherRuns ==
  ASSUME MaxForks = 0 \/ \A r, s \in Creator : r = s
  PROVE  Spec => []DispatcherRuns
<1>1. AsyncIInv => DispatcherRuns
  <2> SUFFICES ASSUME AsyncIInv, NEW f \in Creator, dispatcher[f] # None, ~hook, faults = 0
               PROVE  Running(dispatcher[f])
    BY DEF DispatcherRuns
  <2>1. /\ dispatcher[f] \in Creator /\ registry \in Creator /\ Running(registry)
        /\ thread[dispatcher[f]] # "unborn"
        /\ forks = 0 => thread[dispatcher[f]] # "dead"
    BY DEF AsyncIInv, Threads, TypeOK, OnlySetUpUsed, SetUp, Undisturbed, Registered
  <2>2. CASE MaxForks = 0
    BY <2>1, <2>2 DEF AsyncIInv, TypeOK, Running
  <2>3. CASE \A r, s \in Creator : r = s
    BY <2>1, <2>3
  <2> QED  BY <2>2, <2>3
<1> QED  BY <1>1, AsyncInvariant, PTL

-----------------------------------------------------------------------------
(* Nobody waits for nothing.  What the liveness properties need of the        *)
(* hand-over: while a call is in progress and nothing was killed, one of the  *)
(* steps that fairness obliges somebody to take is possible.                  *)

(* Who can go on: the native thread other than to sleep, the dispatcher other *)
(* than to be woken, the runner.                                              *)
NativeCan(t) == \/ native[t] = "locking" /\ mutex[target[t]] = None
                \/ native[t] = "pushing"
                \/ native[t] = "waiting" /\ done[t]

DispatcherCan(d) == \/ thread[d] \in {"loop", "checking", "back"}
                    \/ thread[d] = "locking" /\ mutex[d] = None

RunnerCan(t) == runner[t] \in {"ready", "ran"}

(* A call in progress goes on by itself, or its runner does, its dispatcher,  *)
(* or another native thread that has the dispatcher's mutex.                  *)
NobodyStuck ==
  \A t \in Native : native[t] # "idle" /\ faults = 0 =>
    \/ NativeCan(t) \/ RunnerCan(t) \/ DispatcherCan(target[t])
    \/ \E u \in Native : target[u] = target[t] /\ native[u] = "pushing"

(* A dispatcher that has to stop can go on, or waits for who holds its mutex. *)
StoppedNotStuck ==
  \A d \in Creator : Running(d) /\ stop[d] =>
    DispatcherCan(d) \/ \E u \in Native : target[u] = d /\ native[u] = "pushing"

(* The mutex of a dispatcher that runs is held by who is between lock and     *)
(* unlock.  After a fork a dead one's may be held by a thread that is gone.   *)
HolderThere ==
  \A d \in Creator : Running(d) =>
    \/ mutex[d] = None
    \/ mutex[d] = d /\ thread[d] = "checking"
    \/ \E t \in Native : mutex[d] = t /\ native[t] = "pushing" /\ target[t] = d

(* Only a kill ends a runner before it has marked its callback done. *)
RunnersFinish == faults = 0 => \A t \in Native : runner[t] # "dead"

(* Who uses a dispatcher came by one that was registered, as in Registered. *)
CallsRegistered == \A t \in Native : native[t] # "idle" => registry # None

HeldIInv == AsyncIInv /\ HolderThere /\ RunnersFinish /\ CallsRegistered

LEMMA InitHeld == Init => HolderThere /\ RunnersFinish /\ CallsRegistered
  BY DEF Init, HolderThere, RunnersFinish, CallsRegistered

(* A mutex is free when it is given up, and who takes it stays until then. *)
LEMMA StepHolderThere == AsyncIInv /\ HolderThere /\ [Next]_vars => HolderThere'
<1> SUFFICES ASSUME AsyncIInv, HolderThere, [Next]_vars PROVE HolderThere'
  OBVIOUS
<1>1. TypeOK
  BY DEF AsyncIInv
<1> USE DEF dispatcherVars, nativeVars
<1>2. ASSUME UNCHANGED <<mutex, native, target>>,
             \A d \in Creator : Running(d)' =>
               Running(d) /\ (thread[d] = "checking" => thread'[d] = "checking")
      PROVE  HolderThere'
  BY <1>2 DEF HolderThere
<1>3. ASSUME NEW d \in Creator, Initialize(d), UNCHANGED <<native, target>>
      PROVE  HolderThere'
  BY <1>1, <1>3 DEF Initialize, HolderThere, Running, TypeOK
<1>4. ASSUME NEW r \in Creator, CreatorNext(r) PROVE HolderThere'
  BY <1>2, <1>3, <1>4
     DEF CreatorNext, UseDispatcher, CreateDispatcher, CreateDispatcherFails,
         RegisterDispatcher, Running
<1>5. ASSUME NEW t \in Native, \/ \E f \in Creator : InvokeCallback(t, f)
                               \/ NativeStep(t) \/ SpuriousNativeWakeup(t)
                               \/ RunnerStep(t) \/ RunnerKilled(t)
      PROVE  HolderThere'
  <2>1. CASE LockToPush(t)
    BY <1>1, <2>1 DEF LockToPush, HolderThere, Running, TypeOK
  <2>2. CASE Push(t)
    <3>1. /\ target[t] \in Creator /\ mutex'[target[t]] = None
          /\ \A d \in Creator : d # target[t] => mutex'[d] = mutex[d] /\ thread'[d] = thread[d]
          /\ \A d \in Creator : Running(d)' => Running(d)
          /\ \A u \in Native : u # t => native'[u] = native[u]
          /\ UNCHANGED target
      BY <1>1, <2>2 DEF Push, Signal, TypeOK, Running
    <3> QED  BY <1>1, <3>1 DEF HolderThere, Running
  <2>3. CASE ~LockToPush(t) /\ ~Push(t)
    <3>1. /\ UNCHANGED <<mutex, thread>>
          /\ \A u \in Native : native[u] = "pushing" =>
               native'[u] = "pushing" /\ target'[u] = target[u]
      BY <1>1, <1>5, <2>3
         DEF TypeOK, InvokeCallback, NativeStep, Sleep, Return, SpuriousNativeWakeup,
             RunnerStep, RunCallback, SignalDone, RunnerKilled
    <3> QED  BY <3>1 DEF HolderThere, Running
  <2> QED  BY <2>1, <2>2, <2>3
<1>6. ASSUME NEW d \in Creator, \/ DispatcherStep(d) \/ SpuriousWakeup(d) \/ StartRunnerFails(d)
                                \/ \E kill \in BOOLEAN : Interrupt(d, kill)
      PROVE  HolderThere'
  <2>1. UNCHANGED <<native, target>>
    BY <1>6 DEF DispatcherStep, DieKilled, Loop, LockToCheck, WaitForCallback, Pop,
                StartRunner, SpuriousWakeup, StartRunnerFails, Interrupt
  <2>2. CASE LockToCheck(d) \/ WaitForCallback(d) \/ Pop(d)
    <3>1. /\ Running(d)
          /\ \A c \in Creator : c # d => mutex'[c] = mutex[c] /\ thread'[c] = thread[c]
          /\ mutex'[d] = None \/ (mutex'[d] = d /\ thread'[d] = "checking")
      BY <1>1, <2>2 DEF LockToCheck, WaitForCallback, Pop, Running, TypeOK
    <3> QED  BY <2>1, <3>1 DEF HolderThere, Running
  <2>3. CASE ~(LockToCheck(d) \/ WaitForCallback(d) \/ Pop(d))
    <3>1. /\ UNCHANGED mutex
          /\ \A c \in Creator : Running(c)' =>
               Running(c) /\ (thread[c] = "checking" => thread'[c] = "checking")
      BY <1>1, <1>6, <2>3
         DEF TypeOK, DispatcherStep, DieKilled, Loop, StartRunner, SpuriousWakeup,
             StartRunnerFails, Interrupt, StopWaiting, Signal, Running
    <3> QED  BY <1>2, <2>1, <3>1
  <2> QED  BY <2>2, <2>3
<1>7. CASE Fork
  BY <1>1, <1>7 DEF Fork, HolderThere, Running, TypeOK
<1>8. CASE AtforkChild
  BY <1>1, <1>2, <1>3, <1>8 DEF AtforkChild, TypeOK, Running
<1>9. CASE UNCHANGED vars
  BY <1>2, <1>9 DEF vars, Running
<1>10. CASE AtforkChildFails
  <2>1. \A d \in Creator : mutex'[d] = mutex[d] \/ mutex'[d] = None
    BY <1>1, <1>10 DEF AtforkChildFails, TypeOK
  <2> QED  BY <1>1, <1>10, <2>1 DEF AtforkChildFails, HolderThere, Running
<1> QED  BY <1>4, <1>5, <1>6, <1>7, <1>8, <1>9, <1>10 DEF Next

(* A runner dies by a kill alone, which is a fault. *)
LEMMA StepRunnersFinish == AsyncIInv /\ RunnersFinish /\ [Next]_vars => RunnersFinish'
<1> SUFFICES ASSUME AsyncIInv, RunnersFinish, [Next]_vars, faults' = 0 PROVE RunnersFinish'
  BY DEF RunnersFinish
<1>1. TypeOK
  BY DEF AsyncIInv
<1> USE DEF dispatcherVars, nativeVars, bounds
<1>2. faults = 0 /\ ~Fault
  <2>1. \A n \in Nat : n + 1 # 0
    OBVIOUS
  <2> QED  BY <1>1, <2>1, FaultCounts, BoundAssumption
           DEF TypeOK, Fault, Next, vars, CreatorNext, UseDispatcher, CreateDispatcher,
               CreateDispatcherFails, RegisterDispatcher, InvokeCallback, NativeStep, LockToPush,
               Push, Sleep, Return, SpuriousNativeWakeup, RunnerStep, RunCallback, SignalDone,
               RunnerKilled, DispatcherStep, DieKilled, Loop, LockToCheck, WaitForCallback, Pop,
               StartRunner, SpuriousWakeup, StartRunnerFails, Interrupt, Fork, AtforkChild,
               AtforkChildFails
<1>3. \A t \in Native : runner[t] # "dead"
  BY <1>2 DEF RunnersFinish
<1>4. ASSUME NEW r \in Creator, CreatorNext(r) PROVE UNCHANGED runner
  BY <1>4 DEF CreatorNext, UseDispatcher, CreateDispatcher, CreateDispatcherFails,
              RegisterDispatcher
<1>5. ASSUME NEW t \in Native, \/ \E f \in Creator : InvokeCallback(t, f)
                               \/ NativeStep(t) \/ SpuriousNativeWakeup(t)
                               \/ RunnerStep(t) \/ RunnerKilled(t)
      PROVE  \A u \in Native : runner'[u] # "dead"
  BY <1>1, <1>2, <1>3, <1>5
     DEF TypeOK, InvokeCallback, NativeStep, LockToPush, Push, Sleep, Return,
         SpuriousNativeWakeup, RunnerStep, RunCallback, SignalDone, RunnerKilled
<1>6. ASSUME NEW d \in Creator, \/ DispatcherStep(d) \/ SpuriousWakeup(d) \/ StartRunnerFails(d)
                                \/ \E kill \in BOOLEAN : Interrupt(d, kill)
      PROVE  \A u \in Native : runner'[u] # "dead"
  BY <1>1, <1>3, <1>6
     DEF TypeOK, DispatcherStep, DieKilled, Loop, LockToCheck, WaitForCallback, Pop,
         StartRunner, SpuriousWakeup, StartRunnerFails, Interrupt
<1>7. CASE Fork
  BY <1>7 DEF Fork, RunnersFinish
<1>8. CASE AtforkChild \/ AtforkChildFails \/ UNCHANGED vars
  BY <1>3, <1>8 DEF AtforkChild, AtforkChildFails, vars, RunnersFinish
<1> QED  BY <1>3, <1>4, <1>5, <1>6, <1>7, <1>8 DEF Next, RunnersFinish

(* A call takes a dispatcher from a function, which found it registered. *)
LEMMA StepCallsRegistered == AsyncIInv /\ CallsRegistered /\ [Next]_vars => CallsRegistered'
<1> SUFFICES ASSUME AsyncIInv, CallsRegistered, [Next]_vars PROVE CallsRegistered'
  OBVIOUS
<1>1. TypeOK /\ Registered
  BY DEF AsyncIInv, Threads
<1> USE DEF dispatcherVars, nativeVars
<1>2. ASSUME NEW r \in Creator, CreatorNext(r) PROVE CallsRegistered'
  BY <1>1, <1>2, NoneAssumption
     DEF CallsRegistered, TypeOK, CreatorNext, UseDispatcher, CreateDispatcher,
         CreateDispatcherFails, RegisterDispatcher
<1>3. ASSUME NEW t \in Native, \/ \E f \in Creator : InvokeCallback(t, f)
                               \/ NativeStep(t) \/ SpuriousNativeWakeup(t)
                               \/ RunnerStep(t) \/ RunnerKilled(t)
      PROVE  CallsRegistered'
  <2>1. UNCHANGED registry
    BY <1>3 DEF InvokeCallback, NativeStep, LockToPush, Push, Sleep, Return,
                SpuriousNativeWakeup, RunnerStep, RunCallback, SignalDone, RunnerKilled
  <2>2. CASE \E f \in Creator : InvokeCallback(t, f)
    BY <1>1, <2>1, <2>2 DEF InvokeCallback, Registered, CallsRegistered
  <2>3. CASE ~\E f \in Creator : InvokeCallback(t, f)
    <3>1. \A u \in Native : native'[u] # "idle" => native[u] # "idle"
      BY <1>1, <1>3, <2>3
         DEF TypeOK, NativeStep, LockToPush, Push, Sleep, Return, SpuriousNativeWakeup,
             RunnerStep, RunCallback, SignalDone, RunnerKilled
    <3> QED  BY <2>1, <3>1 DEF CallsRegistered
  <2> QED  BY <2>2, <2>3
<1>4. ASSUME NEW d \in Creator, \/ DispatcherStep(d) \/ SpuriousWakeup(d) \/ StartRunnerFails(d)
                                \/ \E kill \in BOOLEAN : Interrupt(d, kill)
      PROVE  UNCHANGED <<registry, native>>
  BY <1>4 DEF DispatcherStep, DieKilled, Loop, LockToCheck, WaitForCallback, Pop,
              StartRunner, SpuriousWakeup, StartRunnerFails, Interrupt
<1>5. CASE Fork
  BY <1>5 DEF Fork, CallsRegistered
<1>6. CASE AtforkChild \/ AtforkChildFails \/ UNCHANGED vars
  BY <1>6 DEF AtforkChild, AtforkChildFails, vars, CallsRegistered
<1> QED  BY <1>2, <1>3, <1>4, <1>5, <1>6 DEF Next, CallsRegistered

(* HeldIInv is an invariant. *)
THEOREM HeldInvariant == Spec => []HeldIInv
<1>1. HeldIInv /\ [Next]_vars => HeldIInv'
  <2>1. AsyncIInv /\ [Next]_vars => AsyncIInv'
    BY StepTyped, StepHandOver, StepOnlySetUpUsed, StepChildIsAlone, StepEntersEmpty,
       StepUndisturbed, StepRegistered, StepNoLostWakeup DEF AsyncIInv, Threads
  <2> QED  BY <2>1, StepHolderThere, StepRunnersFinish, StepCallsRegistered DEF HeldIInv
<1>2. Init => HeldIInv
  BY InitAsync, InitHeld DEF HeldIInv
<1> QED  BY <1>1, <1>2, PTL DEF Spec

(* While nothing is killed, a callback that has not returned is never stuck: *)
(* one of the steps that bring it forward is possible (callback_invoke,      *)
(* async_cb_event, async_cb_call), where either no process forks or one      *)
(* thread makes functions.                                                   *)
THEOREM NoCallbackIsStuck ==
  ASSUME MaxForks = 0 \/ \A r, s \in Creator : r = s
  PROVE  Spec => []NobodyStuck
<1>1. HeldIInv => NobodyStuck
  <2> SUFFICES ASSUME HeldIInv, NEW t \in Native, native[t] # "idle", faults = 0,
                      ~NativeCan(t), ~RunnerCan(t), ~DispatcherCan(target[t]),
                      ~\E u \in Native : target[u] = target[t] /\ native[u] = "pushing"
               PROVE  FALSE
    BY DEF NobodyStuck
  <2> DEFINE d == target[t]
  <2>1. /\ TypeOK /\ NoLostWakeup /\ RunnersOwn /\ NotLost
        /\ OnlySetUpUsed /\ ChildIsAlone /\ Undisturbed
    BY DEF HeldIInv, AsyncIInv, HandOver, Threads
  <2>2. d \in Creator
    BY <2>1 DEF TypeOK
  <2>3. Running(d)
    <3>1. ~hook /\ thread[d] # "unborn" /\ registry \in Creator
      BY <2>1 DEF TypeOK, OnlySetUpUsed, SetUp, ChildIsAlone, HeldIInv, CallsRegistered
    <3>2. CASE MaxForks = 0
      BY <2>1, <2>2, <3>1, <3>2 DEF TypeOK, Undisturbed, Running
    <3>3. CASE \A r, s \in Creator : r = s
      <4>1. registry = d
        BY <2>2, <3>1, <3>3
      <4>2. registry # None
        BY <3>1, NoneAssumption
      <4> QED  BY <2>1, <3>1, <4>1, <4>2 DEF Undisturbed
    <3> QED  BY <3>2, <3>3
  <2>4. mutex[d] = None
    BY <2>2, <2>3 DEF HeldIInv, HolderThere, DispatcherCan
  <2>5. thread[d] = "asleep" /\ list[d] = <<>>
    BY <2>1, <2>2, <2>3, <2>4 DEF TypeOK, ThreadState, Running, DispatcherCan, NoLostWakeup
  <2>6. Pending(t)
    BY <2>1, <2>4 DEF TypeOK, NativeState, NativeCan, NoLostWakeup, Pending
  <2>7. runner[t] = "none"
    BY <2>1 DEF TypeOK, RunnerState, RunnerCan, HeldIInv, RunnersFinish
  <2>8. EntryOf(t) \in Range(list[d]) \cup Popped(d)
    BY <2>1, <2>6, <2>7 DEF NotLost
  <2> QED  BY <2>5, <2>8, EmptyList DEF Popped
<1> QED  BY <1>1, HeldInvariant, PTL

(* A dispatcher that was told to stop does not sleep on: it can go on, or    *)
(* waits for a mutex whose holder can (async_cb_stop, async_cb_wait).        *)
THEOREM StoppedCanEnd == Spec => []StoppedNotStuck
<1>1. HeldIInv => StoppedNotStuck
  <2> SUFFICES ASSUME HeldIInv, NEW d \in Creator, Running(d), stop[d], ~DispatcherCan(d)
               PROVE  \E u \in Native : target[u] = d /\ native[u] = "pushing"
    BY DEF StoppedNotStuck
  <2>1. TypeOK /\ NoLostWakeup
    BY DEF HeldIInv, AsyncIInv
  <2>2. thread[d] = "locking" /\ mutex[d] # None
    BY <2>1 DEF TypeOK, ThreadState, Running, DispatcherCan, NoLostWakeup
  <2> QED  BY <2>2 DEF HeldIInv, HolderThere
<1> QED  BY <1>1, HeldInvariant, PTL

-----------------------------------------------------------------------------
(* The hand-over implements CallbackService. *)

(* A step that changes no phase and no outcome is a stutter of the service. *)
LEMMA SamePhases ==
  ASSUME UNCHANGED outcome, \A t \in Native : Phase(t)' = Phase(t)
  PROVE  [Service!Next]_(Service!vars)
BY DEF Service!vars

(* Every step of the hand-over is a step of the service: callback_invoke     *)
(* calls, the proc's execution executes, and a call returns only after that. *)
LEMMA StepServes == AsyncIInv /\ [Next]_vars => [Service!Next]_(Service!vars)
<1> SUFFICES ASSUME AsyncIInv, [Next]_vars PROVE [Service!Next]_(Service!vars)
  OBVIOUS
<1>1. TypeOK /\ Taken /\ RunnersOwn
  BY DEF AsyncIInv, HandOver
<1>2. \A t \in Native : runner[t] # "none" => native[t] \in {"waiting", "asleep"} /\ ~done[t]
  BY <1>1 DEF RunnersOwn, Pending
<1> USE DEF dispatcherVars, nativeVars
<1>3. CASE UNCHANGED <<native, done, outcome, runner>>
  <2>1. \A t \in Native : Phase(t)' = Phase(t)
    BY <1>3 DEF Phase
  <2> QED  BY <1>3, <2>1, SamePhases
<1>4. ASSUME NEW t \in Native, NEW f \in Creator, InvokeCallback(t, f)
      PROVE  Service!Next
  <2>1. /\ Phase(t) = "idle" /\ Phase(t)' = "called"
        /\ \A u \in Native \ {t} : Phase(u)' = Phase(u)
    BY <1>1, <1>2, <1>4 DEF InvokeCallback, TypeOK, Phase
  <2>2. outcome' = [outcome EXCEPT ![t] = "unset"]
    BY <1>4 DEF InvokeCallback
  <2>3. Service!Call(t)
    BY <2>1, <2>2 DEF Service!Call
  <2> QED  BY <2>3 DEF Service!Next
<1>5. ASSUME NEW t \in Native, RunCallback(t) PROVE Service!Next
  <2>1. /\ Phase(t) = "called" /\ Phase(t)' = "executed"
        /\ \A u \in Native \ {t} : Phase(u)' = Phase(u)
    BY <1>1, <1>2, <1>5 DEF RunCallback, TypeOK, Phase
  <2>2. \E o \in Outcome \ {"unset"} : outcome' = [outcome EXCEPT ![t] = o]
    BY <1>5 DEF RunCallback, Outcome
  <2>3. Service!Execute(t)
    BY <2>1, <2>2 DEF Service!Execute
  <2> QED  BY <2>3 DEF Service!Next
<1>6. ASSUME NEW t \in Native, Return(t) PROVE Service!Next
  <2>1. /\ Phase(t) = "executed" /\ Phase(t)' = "idle"
        /\ \A u \in Native \ {t} : Phase(u)' = Phase(u)
    BY <1>1, <1>6 DEF Return, TypeOK, Phase
  <2>2. outcome' = outcome
    BY <1>6 DEF Return
  <2>3. Service!Return(t)
    BY <2>1, <2>2 DEF Service!Return
  <2> QED  BY <2>3 DEF Service!Next
<1>7. CASE Fork
  <2>1. outcome' = outcome /\ \A t \in Native : Phase(t)' = "idle"
    BY <1>7 DEF Fork, Phase
  <2>2. Service!Vanish
    BY <2>1 DEF Service!Vanish
  <2> QED  BY <2>2 DEF Service!Next
<1>8. ASSUME NEW t \in Native, \/ LockToPush(t) \/ Push(t) \/ Sleep(t) \/ SpuriousNativeWakeup(t)
                               \/ SignalDone(t) \/ RunnerKilled(t)
      PROVE  [Service!Next]_(Service!vars)
  <2>1. outcome' = outcome /\ \A u \in Native : Phase(u)' = Phase(u)
    BY <1>1, <1>2, <1>8
       DEF LockToPush, Push, Sleep, SpuriousNativeWakeup, SignalDone, RunnerKilled, TypeOK, Phase
  <2> QED  BY <2>1, SamePhases
<1>9. ASSUME NEW d \in Creator, StartRunner(d) PROVE [Service!Next]_(Service!vars)
  <2>1. popped[d] # None => runner[popped[d].thread] = "none"
    <3> SUFFICES ASSUME popped[d] # None PROVE runner[popped[d].thread] = "none"
      OBVIOUS
    <3>1. popped[d] \in Popped(d)
      BY <1>9 DEF StartRunner, Popped
    <3>2. popped[d] \in Entry /\ popped[d].thread \in Native
      BY <1>1, <3>1, PoppedEntry
    <3>3. popped[d] = EntryOf(popped[d].thread)
      BY <1>1, <3>1, <3>2, CurrentEntry DEF Taken
    <3> QED  BY <1>1, <3>1, <3>2, <3>3 DEF RunnersOwn
  <2>2. outcome' = outcome /\ \A u \in Native : Phase(u)' = Phase(u)
    BY <1>1, <1>9, <2>1 DEF StartRunner, TypeOK, Phase
  <2> QED  BY <2>2, SamePhases
<1>10. ASSUME NEW r \in Creator, CreatorNext(r) PROVE UNCHANGED <<native, done, outcome, runner>>
  BY <1>10 DEF CreatorNext, UseDispatcher, CreateDispatcher, CreateDispatcherFails,
               RegisterDispatcher
<1>11. ASSUME NEW d \in Creator,
              \/ DieKilled(d) \/ Loop(d) \/ LockToCheck(d) \/ WaitForCallback(d) \/ Pop(d)
              \/ SpuriousWakeup(d) \/ StartRunnerFails(d)
              \/ \E kill \in BOOLEAN : Interrupt(d, kill)
       PROVE  UNCHANGED <<native, done, outcome, runner>>
  BY <1>11 DEF DieKilled, Loop, LockToCheck, WaitForCallback, Pop, SpuriousWakeup,
               StartRunnerFails, Interrupt
<1>12. CASE AtforkChild \/ AtforkChildFails \/ UNCHANGED vars
  BY <1>3, <1>12 DEF AtforkChild, AtforkChildFails, vars
<1> QED  BY <1>3, <1>4, <1>5, <1>6, <1>7, <1>8, <1>9, <1>10, <1>11, <1>12
         DEF Next, NativeStep, DispatcherStep, RunnerStep

(* A callback's Ruby code is executed at most once for a call, the call      *)
(* returns only after that, and with what that execution produced.           *)
THEOREM HandOverServes == Spec => ServiceSpec
<1>1. Init => Service!Init
  BY DEF Init, Service!Init, Phase
<1>2. AsyncIInv /\ [Next]_vars => [Service!Next]_(Service!vars)
  BY StepServes
<1> QED  BY <1>1, <1>2, AsyncInvariant, PTL DEF Spec, ServiceSpec, Service!Spec
=============================================================================
