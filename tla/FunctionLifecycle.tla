-------------------------- MODULE FunctionLifecycle --------------------------
(***************************************************************************)
(* FFI::Function objects, the trampolines they own, and what keeps both    *)
(* alive (Function.c, FunctionInfo.c, MethodHandle.c, lib/ffi/function.rb).*)
(*                                                                         *)
(* A function around a proc owns a closure of its type's pool: native code *)
(* calls the closure, which leads back to the function.  An attached       *)
(* function owns a closure of the default pool: the method.  Neither       *)
(* native code nor a method table is seen by the garbage collector, so the *)
(* function must be reachable otherwise: a proc passed as an argument      *)
(* caches the functions made of it, a module stashes the attached ones.    *)
(*                                                                         *)
(* The pools are used by what they promise (ClosureStore).  The garbage    *)
(* collector sweeps unreachable objects one by one, in any order.  An id   *)
(* of Func is an address: it may be taken again once it has been swept.    *)
(***************************************************************************)
EXTENDS Naturals, FiniteSets, Functions

CONSTANTS
  Func,       \* FFI::Function objects
  FType,      \* FFI::FunctionType objects that describe callbacks
  Proc,       \* procs
  Name,       \* method names of a module
  Thread,     \* Ruby threads that pass procs to native functions
  Slots,      \* closures the pool of one type can supply
  Handles,    \* closures the default pool can supply
  Default,    \* the pool of MethodHandle.c
  None

Object  == Func \cup FType \cup Proc
Closure == [pool : FType, slot : Slots] \cup [pool : {Default}, slot : Handles]

Closures(pool) == {c \in Closure : c.pool = pool}

ASSUME NoneAssumption == None \notin Object \cup Closure \cup [FType -> Func \cup {None}]
ASSUME KindsAssumption ==
  /\ Func \cap FType = {} /\ Func \cap Proc = {} /\ FType \cap Proc = {}
  /\ Default \notin FType

VARIABLES
  live,         \* objects the garbage collector has not swept
  roots,        \* objects in local variables, constants, ... of Ruby code
  type,         \* fn->rbFunctionInfo
  proc,         \* fn->rbProc, None if made from a pointer
  closure,      \* fn->closure
  handle,       \* fn->methodHandle->closure
  autorelease,  \* fn->autorelease
  address,      \* fn->base.memory.address, where it is a trampoline
  function,     \* closure->function of a method handle: where the method calls
                \* (None without a handle: nothing reads it before it is set)
  held,         \* closures that are handed out by their pool
  info,         \* closure->info: the function a trampoline leads to (of a
                \* method handle: the one it was made for)
  cbref,        \* @__ffi_callback__ of a proc
  cbtable,      \* @__ffi_callback_table__ of a proc, None before it exists
  funcs,        \* @ffi_functions of the module
  method,       \* the module's methods: the closure each one jumps to
  ready,        \* the async dispatcher is registered
  caching,      \* for each thread, the ForProc it is in the middle of
  torn,         \* history: names for which the last attach raised
  given,        \* history: callbacks native code may use, and by whose grace
  kept          \* history: closures left to native code by autorelease = false

objectVars == <<type, proc, closure, handle, autorelease, address, function>>
cacheVars  == <<cbref, cbtable, ready, caching>>
vars == <<live, roots, objectVars, held, info, cacheVars, funcs, method, torn, given, kept>>

Init ==
  /\ live = FType \cup Proc
  /\ roots = FType \cup Proc
  /\ type = [f \in Func |-> None]
  /\ proc = [f \in Func |-> None]
  /\ closure = [f \in Func |-> None]
  /\ handle = [f \in Func |-> None]
  /\ autorelease = [f \in Func |-> TRUE]
  /\ address = [f \in Func |-> None]
  /\ function = [c \in Closures(Default) |-> None]
  /\ held = {}
  /\ info = [c \in Closure |-> None]
  /\ cbref = [p \in Proc |-> None]
  /\ cbtable = [p \in Proc |-> None]
  /\ funcs = [n \in Name |-> None]
  /\ method = [n \in Name |-> None]
  /\ ready = FALSE
  /\ caching = [th \in Thread |-> None]
  /\ torn = {}
  /\ given = {}
  /\ kept = {}

-----------------------------------------------------------------------------
(* Reachability, as the mark functions and instance variables define it. *)

(* Mutation of References: a proc does not keep the functions of its table. *)
ReferencesWithoutTable(x) ==
  IF x \in Func THEN {type[x], proc[x]}
  ELSE IF x \in Proc THEN {cbref[x]} ELSE {}

(* function_mark; the instance variables of a proc. *)
References(x) ==
  IF x \in Func THEN {type[x], proc[x]}
  ELSE IF x \in Proc
    THEN {cbref[x]} \cup (IF cbtable[x] = None THEN {} ELSE Range(cbtable[x]))
    ELSE {}

(* What a thread has on its C stack while it is in rbffi_Function_ForProc. *)
OnStack ==
  UNION {{caching[th].func, caching[th].proc} : th \in {t \in Thread : caching[t] # None}}

Mark(S) == S \cup ((UNION {References(x) : x \in S}) \ {None})

(* Mutation of Reachable: the module does not stash what is attached. *)
ReachableUnstashed == Mark(Mark(Mark(roots \cup OnStack)))

(* No chain of references is longer than function, proc, function, type. *)
Reachable ==
  Mark(Mark(Mark(roots \cup OnStack \cup (Range(funcs) \ {None}))))

-----------------------------------------------------------------------------
(* Making functions. *)

(* function_init: the object f of type t around p, with the closure c, whose *)
(* code is its address.                                                      *)
MakeFunction(f, t, p, c) ==
  /\ f \notin live
  /\ live' = live \cup {f}
  /\ type' = [type EXCEPT ![f] = t]
  /\ proc' = [proc EXCEPT ![f] = p]
  /\ closure' = [closure EXCEPT ![f] = c]
  /\ address' = [address EXCEPT ![f] = c]
  /\ handle' = [handle EXCEPT ![f] = None]
  /\ autorelease' = [autorelease EXCEPT ![f] = TRUE]
  /\ UNCHANGED function
  /\ IF c = None
       THEN UNCHANGED <<held, info>>
       ELSE /\ c \in Closures(t) \ held
            /\ held' = held \cup {c}
            /\ info' = [info EXCEPT ![c] = f]

(* FFI::Function.new with a proc. *)
NewFromProc(f, t, p, c) ==
  /\ {t, p} \subseteq roots
  /\ MakeFunction(f, t, p, c)
  /\ roots' = roots \cup {f}
  /\ ready' = TRUE
  /\ UNCHANGED <<cbref, cbtable, caching, funcs, method, torn, given, kept>>

(* FFI::Function.new with a pointer to native code: nothing is allocated. *)
NewFromPointer(f, t) ==
  /\ t \in roots
  /\ MakeFunction(f, t, None, None)
  /\ roots' = roots \cup {f}
  /\ UNCHANGED <<cacheVars, funcs, method, torn, given, kept>>

(* function_init raises (no thread, no memory for the closure): what was *)
(* allocated is garbage.                                                 *)
NewFails(f, t) ==
  /\ t \in roots
  /\ MakeFunction(f, t, None, None)
  /\ UNCHANGED <<roots, cacheVars, funcs, method, torn, given, kept>>

-----------------------------------------------------------------------------
(* A proc as the argument for a callback parameter: callback_param. *)

(* What rbffi_Function_ForProc finds: the function of the ivar if it has the *)
(* right type, else that of the table.                                       *)
Cached(p, t) ==
  IF cbref[p] # None /\ type[cbref[p]] = t THEN cbref[p]
  ELSE IF cbtable[p] # None THEN cbtable[p][t]
  ELSE None

Give(c, by) == given' = given \cup {[closure |-> c, func |-> info'[c], by |-> by]}

PassCachedProc(p, t) ==
  /\ {t, p} \subseteq roots
  /\ Cached(p, t) # None
  /\ UNCHANGED info
  /\ Give(closure[Cached(p, t)], p)
  /\ UNCHANGED <<live, roots, objectVars, held, cacheVars, funcs, method, torn, kept>>

(* Mutation of StoreInCache: there is only the ivar slot. *)
StoreInSlot(p, t, f, saw) ==
  /\ cbref' = [cbref EXCEPT ![p] = f]
  /\ UNCHANGED cbtable

(* Storing the new function f; saw is what the lookup saw of p's variables. *)
StoreInCache(p, t, f, saw) ==
  IF saw.ref = None
    THEN /\ cbref' = [cbref EXCEPT ![p] = f]
         /\ UNCHANGED cbtable
    ELSE /\ cbtable' = [cbtable EXCEPT ![p] =
               IF saw.table = None
                 THEN [[u \in FType |-> None] EXCEPT ![t] = f]
                 ELSE [@ EXCEPT ![t] = f]]
         /\ UNCHANGED cbref

Seen(p) == [ref |-> cbref[p], table |-> cbtable[p]]

(* Nothing cached: a function is made and cached in one go once the dispatcher *)
(* exists.                                                                     *)
PassProc(p, t, f, c) ==
  /\ {t, p} \subseteq roots
  /\ Cached(p, t) = None
  /\ ready
  /\ c # None
  /\ MakeFunction(f, t, p, c)
  /\ StoreInCache(p, t, f, Seen(p))
  /\ Give(c, p)
  /\ UNCHANGED <<roots, ready, caching, funcs, method, torn, kept>>

(* The first function of the process starts the dispatcher, which may switch *)
(* threads between the lookup and the caching (AsyncCallback.tla).           *)
BeginPassProc(th, p, t, f) ==
  /\ {t, p} \subseteq roots
  /\ Cached(p, t) = None
  /\ ~ready
  /\ caching[th] = None
  /\ MakeFunction(f, t, None, None)
  /\ caching' = [caching EXCEPT ![th] = [func |-> f, proc |-> p, saw |-> Seen(p)]]
  /\ UNCHANGED <<roots, cbref, cbtable, ready, funcs, method, torn, given, kept>>

EndPassProc(th, c) ==
  LET f == caching[th].func  p == caching[th].proc
  IN  /\ caching[th] # None
      /\ c \in Closures(type[f]) \ held
      /\ held' = held \cup {c}
      /\ info' = [info EXCEPT ![c] = f]
      /\ closure' = [closure EXCEPT ![f] = c]
      /\ address' = [address EXCEPT ![f] = c]
      /\ autorelease' = [autorelease EXCEPT ![f] = TRUE]
      /\ proc' = [proc EXCEPT ![f] = p]
      /\ StoreInCache(p, type[f], f, caching[th].saw)
      /\ ready' = TRUE
      /\ caching' = [caching EXCEPT ![th] = None]
      /\ Give(c, p)
      /\ UNCHANGED <<live, roots, type, handle, function, funcs, method, torn, kept>>

(* A function as the argument.  Passing one that was freed is the caller's *)
(* error: its address is not reset.                                        *)
PassFunction(f) ==
  /\ f \in roots
  /\ closure[f] # None
  /\ UNCHANGED info
  /\ Give(closure[f], f)
  /\ UNCHANGED <<live, roots, objectVars, held, cacheVars, funcs, method, torn, kept>>

-----------------------------------------------------------------------------
(* Operations on a function. *)

(* Mutation of Attach: nothing is stashed in the module. *)
AttachUnstashed(f, n, c) ==
  /\ f \in roots
  /\ IF handle[f] = None
       THEN /\ c \in Closures(Default) \ held
            /\ held' = held \cup {c}
            /\ info' = [info EXCEPT ![c] = f]
            /\ handle' = [handle EXCEPT ![f] = c]
            /\ function' = [function EXCEPT ![c] = address[f]]
       ELSE c = handle[f] /\ UNCHANGED <<held, info, handle, function>>
  /\ method' = [method EXCEPT ![n] = c]
  /\ UNCHANGED <<live, roots, type, proc, closure, autorelease, address, cacheVars, funcs,
                 torn, given, kept>>

(* RegisterAttach#attach and function_attach: stashed in the module, given a *)
(* method handle if it has none, defined as a method.  The handle calls what *)
(* the function's address is then, also that of a trampoline freed before.   *)
Attach(f, n, c) ==
  /\ f \in roots
  /\ funcs' = [funcs EXCEPT ![n] = f]
  /\ IF handle[f] = None
       THEN /\ c \in Closures(Default) \ held
            /\ held' = held \cup {c}
            /\ info' = [info EXCEPT ![c] = f]
            /\ handle' = [handle EXCEPT ![f] = c]
            /\ function' = [function EXCEPT ![c] = address[f]]
       ELSE c = handle[f] /\ UNCHANGED <<held, info, handle, function>>
  /\ method' = [method EXCEPT ![n] = c]
  /\ torn' = torn \ {n}
  /\ UNCHANGED <<live, roots, type, proc, closure, autorelease, address, cacheVars,
                 given, kept>>

(* function_attach raises (no String for a name, no memory for the handle): *)
(* the module has already been changed.                                     *)
AttachFails(f, n) ==
  /\ f \in roots
  /\ funcs' = [funcs EXCEPT ![n] = f]
  /\ torn' = torn \cup {n}
  /\ UNCHANGED <<live, roots, objectVars, held, info, cacheVars, method, given, kept>>

(* Mutation of Release: fn->closure is not reset. *)
ReleaseKeepsClosure(f) ==
  /\ f \in roots
  /\ closure[f] # None
  /\ held' = held \ {closure[f]}
  /\ given' = {g \in given : g.closure # closure[f]}
  /\ UNCHANGED <<live, roots, objectVars, info, cacheVars, funcs, method, torn, kept>>

(* Function#free (function_release); it raises where there is no closure.  *)
(* The address stays, in the function and in its method handle.            *)
Release(f) ==
  /\ f \in roots
  /\ closure[f] # None
  /\ held' = held \ {closure[f]}
  /\ closure' = [closure EXCEPT ![f] = None]
  /\ given' = {g \in given : g.closure # closure[f]}
  /\ UNCHANGED <<live, roots, type, proc, handle, autorelease, address, function, info,
                 cacheVars, funcs, method, torn, kept>>

(* Function#autorelease= *)
SetAutorelease(f, on) ==
  /\ f \in roots
  /\ autorelease' = [autorelease EXCEPT ![f] = on]
  /\ UNCHANGED <<live, roots, type, proc, closure, handle, address, function, held, info,
                 cacheVars, funcs, method, torn, given, kept>>

-----------------------------------------------------------------------------
(* Ruby code and its garbage collector. *)

Drop(x) ==
  /\ x \in roots
  /\ roots' = roots \ {x}
  /\ UNCHANGED <<live, objectVars, held, info, cacheVars, funcs, method, torn, given, kept>>

(* Ruby code gets hold of a stashed function (Library#attached_functions). *)
Fetch(n) ==
  /\ funcs[n] \notin roots \cup {None}
  /\ roots' = roots \cup {funcs[n]}
  /\ UNCHANGED <<live, objectVars, held, info, cacheVars, funcs, method, torn, given, kept>>

(* Mutation of SweepFunction: the method handle is not freed. *)
SweepKeepsHandle(f) ==
  /\ f \in Func
  /\ live' = live \ {f}
  /\ held' = held \ (IF autorelease[f] THEN {closure[f]} ELSE {})
  /\ kept' = IF autorelease[f] THEN kept ELSE kept \cup ({closure[f]} \ {None})
  /\ given' = {g \in given : g.by # f}
  /\ type' = [type EXCEPT ![f] = None]
  /\ proc' = [proc EXCEPT ![f] = None]
  /\ closure' = [closure EXCEPT ![f] = None]
  /\ handle' = [handle EXCEPT ![f] = None]
  /\ autorelease' = [autorelease EXCEPT ![f] = TRUE]
  /\ address' = [address EXCEPT ![f] = None]
  /\ UNCHANGED <<roots, function, info, cacheVars, funcs, method, torn>>

(* function_free: the method handle goes, the closure if it is to, and fn. *)
SweepFunction(f) ==
  /\ f \in Func
  /\ live' = live \ {f}
  /\ held' = held \ ({handle[f]} \cup (IF autorelease[f] THEN {closure[f]} ELSE {}))
  /\ kept' = IF autorelease[f] THEN kept ELSE kept \cup ({closure[f]} \ {None})
  /\ given' = {g \in given : g.by # f}
  /\ type' = [type EXCEPT ![f] = None]
  /\ proc' = [proc EXCEPT ![f] = None]
  /\ closure' = [closure EXCEPT ![f] = None]
  /\ handle' = [handle EXCEPT ![f] = None]
  /\ autorelease' = [autorelease EXCEPT ![f] = TRUE]
  /\ address' = [address EXCEPT ![f] = None]
  /\ function' = [c \in Closures(Default) |-> IF c = handle[f] THEN None ELSE function[c]]
  /\ UNCHANGED <<roots, info, cacheVars, funcs, method, torn>>

(* A proc goes with its instance variables; fntype_free drops the reference  *)
(* to the pool, whose memory stays while one of its closures is held.        *)
SweepOther(x) ==
  /\ x \notin Func
  /\ live' = live \ {x}
  /\ given' = {g \in given : g.by # x}
  /\ UNCHANGED <<roots, objectVars, held, info, cacheVars, funcs, method, torn, kept>>

(* What a Ruby thread does that is not in the middle of rbffi_Function_ForProc. *)
RubyStep ==
  \/ \E f \in Func, t \in FType :
       \/ NewFromPointer(f, t) \/ NewFails(f, t)
       \/ \E p \in Proc, c \in Closures(t) :
            NewFromProc(f, t, p, c) \/ PassProc(p, t, f, c)
  \/ \E p \in Proc, t \in FType : PassCachedProc(p, t)
  \/ \E f \in Func :
       \/ PassFunction(f) \/ Release(f)
       \/ \E on \in BOOLEAN : SetAutorelease(f, on)
       \/ \E n \in Name :
            \/ AttachFails(f, n)
            \/ \E c \in Closures(Default) : Attach(f, n, c)
  \/ \E n \in Name : Fetch(n)
  \/ \E x \in Object : Drop(x)

Next ==
  \/ (\E th \in Thread : caching[th] = None) /\ RubyStep
  \/ \E th \in Thread :
       \/ \E f \in Func, t \in FType, p \in Proc :
            BeginPassProc(th, p, t, f)
       \/ \E c \in Closure : EndPassProc(th, c)
  \/ \E x \in live \ Reachable : SweepFunction(x) \/ SweepOther(x)

Spec == Init /\ [][Next]_vars

-----------------------------------------------------------------------------

(* Type invariant: what the objects refer to, and who refers to them. *)
TypeOK ==
  /\ live \subseteq Object /\ roots \subseteq live
  /\ type \in [Func -> FType \cup {None}]
  /\ proc \in [Func -> Proc \cup {None}]
  /\ closure \in [Func -> Closure \cup {None}]
  /\ handle \in [Func -> Closures(Default) \cup {None}]
  /\ autorelease \in [Func -> BOOLEAN]
  /\ address \in [Func -> Closure \cup {None}]
  /\ function \in [Closures(Default) -> Closure \cup {None}]
  /\ held \subseteq Closure
  /\ info \in [Closure -> Func \cup {None}]
  /\ cbref \in [Proc -> Func \cup {None}]
  /\ cbtable \in [Proc -> [FType -> Func \cup {None}] \cup {None}]
  /\ funcs \in [Name -> Func \cup {None}]
  /\ method \in [Name -> Closures(Default) \cup {None}]
  /\ ready \in BOOLEAN
  /\ torn \subseteq Name
  /\ given \subseteq [closure : Closure, func : Func, by : Func \cup Proc]
  /\ kept \subseteq Closure

Owned(f) == {closure[f], handle[f]} \ {None}

(* A trampoline has one owner, which is the function it leads to; sweeping   *)
(* or freeing the owner is the only way it is given back, and that once.     *)
OneOwner ==
  \A f \in live \cap Func : \A c \in Owned(f) : c \in held /\ info[c] = f

(* No trampoline is held for nobody, unless Ruby code asked for that.        *)
NoneLeaked ==
  held \subseteq (UNION {Owned(f) : f \in live \cap Func}) \cup kept

(* A callback that native code stored stays callable while the proc (or the  *)
(* function) that was passed is reachable and not freed: the trampoline is   *)
(* not reused, and leads to the function and the type it had then.           *)
StoredCallbacksValid ==
  \A g \in given : g.by \in Reachable =>
    /\ g.closure \in held
    /\ info[g.closure] = g.func
    /\ {g.func, type[g.func], proc[g.func]} \subseteq live

(* The method n jumps to the trampoline of a live function, and that is the  *)
(* function which is stashed under its name.                                 *)
LeadsToStashed(n) ==
  /\ method[n] \in held
  /\ info[method[n]] \in live
  /\ funcs[n] = info[method[n]]

(* Where the method goes on to: native code, or the trampoline of the very   *)
(* function that is attached, held for it, unless Ruby code freed that.      *)
CallsItsFunction(n) ==
  LET f == info[method[n]]  c == function[method[n]]
  IN  c # None /\ closure[f] # None => c \in held /\ info[c] = f

(* A method can be called as long as its module lives, whatever was swept or *)
(* freed besides, and however often its name or its function was attached    *)
(* again: unless the last attach to the name raised, or its own function was *)
(* freed (Function#free): the handle keeps the address of a trampoline that  *)
(* the pool hands out again (MethodHandle.c:107).                            *)
AttachedMethodsValid ==
  \A n \in Name \ torn : method[n] # None => LeadsToStashed(n) /\ CallsItsFunction(n)

(* Stashing an attached function "also ensures that it does not get garbage  *)
(* collected" (lib/ffi/function.rb:78), said without exception: the function *)
(* a method was made for is not swept.                                       *)
StashProtectsMethods ==
  \A n \in Name : method[n] # None => method[n] \in held /\ info[method[n]] \in live

(* "If there is no other cb already cached for this proc, we can use the     *)
(* ivar slot" (Function.c:428): a cached function is never overwritten.      *)
CacheNeverOverwritten ==
  [][\A p \in Proc : cbref[p] # None => cbref'[p] = cbref[p]]_vars
=============================================================================
