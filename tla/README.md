# A verification of ruby-ffi's core in TLA+

ruby-ffi lets Ruby call native functions and lets native functions call Ruby.
Much of its code converts values. What is hard to get right, and hard to test,
is what surrounds the conversions: objects whose lifetime two worlds share,
addresses the garbage collector cannot see, layouts that must be the C
compiler's, callbacks that arrive on threads Ruby has never seen, calls nested
through native code, a fork in the middle of it all. This directory models that,
model-checks it with TLC, and proves with TLAPS, for any number of objects, threads
and calls, every safety property that the passing runs check on a few. File and line references are to `src/`.

    tlc -workers 2 -config MCNativeObjects.cfg MCNativeObjects
    tlapm ClosurePool_proofs.tla

`PROJECT.json` lists the components, the runs, the hazards each property is
for, the findings and the theorems, and maps every definition to the lines it
translates.

## 1. Inventory

| Component | State it keeps | Operations | What makes it correct |
|---|---|---|---|
| Closure pools (`ClosurePool.c`) | reference count, list of blocks, free list | new, allocate, release, drop the owner's reference | a trampoline in use is backed by memory and is nobody else's; all memory is freed, once, with the last reference |
| Asynchronous callbacks (`Function.c` 225-330, 440-800, `ffi.rb`) | per Ractor a dispatcher: mutex, list of callbacks, thread | create on first use, push, wait, pop, run, stop, restart after fork | each callback is run once, its caller is woken, nothing reaches a stack frame that is gone |
| Calls and frames (`Call.c` `rbffi_CallFunction`, `Thread.c`, `LastError.c`) | per thread the current frame and last errno; per call a frame on the C stack | push, pop, call back, save an exception, raise it, interrupt | the exception of a callback is raised by the call it belongs to |
| Functions (`Function.c`, `FunctionInfo.c`, `MethodHandle.c`, `function.rb`) | function, its trampolines, the proc's cache, the module's stash | make, pass, attach, free, autorelease, collect | a trampoline native code or a method table holds stays valid for as long as promised |
| Memory access (`AbstractMemory.c/.h`) | address, size, flags, type size | get, put, arrays, strings, bytes | nothing outside `[0, size)` is touched; flags are respected |
| Pointers, buffers (`Pointer.c`, `MemoryPointer.c`, `Buffer.c`) | parent, storage, ownership, byte order | slice, order, free, autorelease, copy | a view keeps its parent; storage is freed once |
| AutoPointer, ManagedStruct (`autopointer.rb`) | releaser, pointer, autorelease, finalizer | make, free, view, collect, exit | the resource is given back, once, and not under a view |
| Struct layout (`StructLayout.c`, builder) | fields, offsets, size, alignment | add fields, arrays, unions, flatten for libffi | offsets, padding and classification agree with the C ABI |
| Structs (`Struct.c`, `struct.rb`) | layout, pointer, field cache, references | put, inline arrays, copy, order, new pointer | what a field's address leads to is kept as long as the struct |
| Enums (`enum.rb`) | symbol and value maps | declare, convert both ways | conversions invert, whatever the sign and the synonyms |
| Libraries (`library.rb`, `dynamic_library.rb`, `DynamicLibrary.c`) | open handles, a module's libraries, attached functions and variables | open, search, attach, collect | what is attached leads into a loaded library |
| Arguments, variadic calls (`Call.c`, `Variadic.c`) | argument vector, callback index, block | convert each argument, call | native code is given live objects, callbacks of the right type |
| Types, platform data, `IO`, long doubles | tables | registration, lookup, conversion | see section 2 |

How they interact. `FFI::Function.new` takes a closure from the pool of its
`FunctionType` and, when it wraps a proc, needs a dispatcher.
`rbffi_CallFunction` converts the arguments (a proc becomes a cached function,
a struct or pointer its address), pushes a frame and calls. A struct lies over a
pointer object, with offsets from its layout; each access goes through the
pointer's bounds check. Pointers are views of other pointers, of buffers, of an
`AutoPointer`'s resource or of a library's symbol, and mark what they are made
of. Native code calls closures; `callback_invoke` decides
by the thread: with the GVL it runs the proc in place, on a Ruby thread without
the GVL it takes it, on any other thread it hands the call to the dispatcher.
The garbage collector sweeps functions, types and procs in any order, and each
sweep gives references back to the pools. `Process._fork` restarts the
dispatcher in the child.

What is hard: the hand-over between native threads and the dispatcher; its
creation, which is not atomic; interrupts and forks between any two steps; the
order in which the collector sweeps objects that share memory; calls nested with
callbacks, exceptions, `throw`; steps that raise halfway. `hazards` in
`PROJECT.json` lists these one by one at the line where they bite.

## 2. Modules

| Module | Models | Composition |
|---|---|---|
| `ClosurePool` | `ClosurePool.c`, both builds | implements `ClosureStore` |
| `ClosureStore` | the abstract store of handles | |
| `ClosurePool_proofs` | theorems about `ClosurePool` | |
| `AsyncCallback` | the POSIX dispatcher, native threads, runners, fork | implements `CallbackService` |
| `CallbackService` | what a native caller may expect of a callback | |
| `CallFrames` | one thread's nested calls, their frames and exceptions, errno | |
| `FunctionLifecycle` | functions, trampolines, caches, stash, collector | uses each pool as `ClosureStore` allows, which is proved |
| `MemoryAccess` | which bytes each accessor touches, in wrapping arithmetic | |
| `MemoryObjects` | pointers, memory pointers, buffers, their storage and views | extends `MemoryAccess` |
| `AutoPointer` | one AutoPointer or ManagedStruct, its releaser and finalizer | |
| `StructObjects` | structs over memories and the references they keep | |
| `StructLayout` | the class body of a Struct or Union, and its layout | |
| `EnumTypes` | enums and bitmasks | |
| `Library` | DynamicLibrary objects and what is attached from them | |
| `CallParams` | the arguments of one call, and what keeps them alive | |
| `AsyncCallback_proofs`, `CallFrames_proofs`, `FunctionLifecycle_proofs` | theorems about the module of that name | |
| `MemoryObjects_proofs` | theorems about `MemoryAccess` and `MemoryObjects` | |
| `EnumTypes_proofs` | induction over numbers, and theorems about `EnumTypes` | |
| `NativeObjects_proofs` | theorems about `AutoPointer` and `StructObjects`, and of these and `MemoryObjects` side by side | extends `MCNativeObjects` |
| `Declarations_proofs` | theorems about `StructLayout`, `Library`, `CallParams`, and of these and `EnumTypes` side by side | extends `MCDeclarations`, `EnumTypes_proofs` |
| `MC*` | symmetry sets, small types and the refinement used in runs | `MCNativeObjects` and `MCDeclarations` each run components side by side |

Each component module defines, next to some actions, a *mutation*:
the action as a plausible bug would have it (a missing signal, an uncounted
reference, a frame that stays). No specification uses a mutation;
`PROJECT.json` pairs each property with one, and with it in place the property
fails. This shows that each property depends on what the code does.

### ClosurePool

`refcnt`, `blocks` and `list` are the fields of the struct of that name;
`mapped` says which pages are allocated, `held` which closures are with clients,
`owned` whether the creator still has its reference, `alive` whether the struct
has been freed. The actions are the functions of the file: `PoolFree`
(`rbffi_ClosurePool_Free`), `ClosureFree` (`rbffi_Closure_Free`), and
`rbffi_Closure_Alloc` as three actions, one per outcome: the head of the free
list, a new block, the error path. All run under the GVL and none gives it up,
so each is atomic. `UseFFIAlloc` chooses the build: with `-DUSE_FFI_ALLOC`
`ffi_closure_alloc` supplies single closures and `pool->blocks` is overwritten;
otherwise pages are carved into `PerPage` closures.

### AsyncCallback

A *creator* is a Ruby thread in `function_init`; its name also stands for the
function it makes and the dispatcher it may allocate. `CreateDispatcher` and
`RegisterDispatcher` are the two halves of
`async_cb_dispatcher_ensure_created`: between them the code calls `Thread#name=`
and `Thread#thread_variable_set`, Ruby methods at which threads may switch. A
native thread goes through `callback_invoke`, a dispatcher through
`async_cb_event` and `async_cb_wait`, a runner through `async_cb_call`. Taking
`async_cb_mutex` is an action of its own and so is what happens under it, so
that a fork can find it locked. `cb->async_mutex` protects two statements on
each side and is folded into them. Condition variables may wake up spuriously,
without bound.

`Interrupt` is `Thread#kill`, `Thread#wakeup` or the end of the interpreter,
which run `async_cb_stop` while the thread is in the blocking region. Failing
thread creation and the kill of a runner are faults too. `Fork` goes on in the
child: other threads are gone, the memory is as it was, mutexes included;
`AtforkChild` is the hook of `ffi.rb`, `AtforkChildFails` the same with no thread to
be had, a fault after which the child has no dispatcher. Naming the new thread, which
may let other threads run, is folded into the hook: nobody reads the name. The callback's position in the list
stands for the record on the native thread's stack; its identity includes the
number of the call, so a stale pointer shows.

`Places` are the places a call in progress can be in: a list, a dispatcher's
`w.cb`, a runner. `ServiceSpec` is `CallbackService` with each native thread's
`Phase` for its variable: `called` from the entry into `callback_invoke` until the
runner has run the Ruby code, `executed` from then until the return.

### CallFrames

`stack` is the C stack, as calls with a frame, foreign calls without one, and
callbacks. `current`, `prev`, `exc` are `td->frame`, `frame->prev`,
`frame->exc`. `Leave` is everything after the native function has returned: pop,
save errno (unless the function type ignores it), raise. `Invoke`,
`FinishCallback` and `FailCallback` are the callback side. `Throw` unwinds to
any Ruby code further out, over calls whose pop is then skipped. Frame
addresses are reused. `due`, `entered` and `written` are history variables that
only properties read.

### FunctionLifecycle

`References`, `OnStack` and `Reachable` are the mark functions and the instance
variables. The collector sweeps what is not reachable, one object at a time in
any order, and an address may be reused. `PassCachedProc`, `PassProc` and
`BeginPassProc`/`EndPassProc` are `callback_param` and `rbffi_Function_ForProc`:
in one step when the dispatcher exists, in two when it must be created, for a
thread switch is possible there. Pools give out closures that are not held, as
`ClosureStore` promises; that a pool keeps what is held backed is proved in
`ClosurePool_proofs`, and that functions and the collector use the pools as
`ClosureStore` allows, in `FunctionLifecycle_proofs`. `given` records which trampolines native code
has been handed and by which object's grace, `kept` those left to it by
`autorelease = false`, `torn` the method names whose last attach raised.
`address` is `fn->base.memory.address` where that is a trampoline; it stays when
the trampoline is given back, and `function` is the copy that a method handle takes
of it (`closure->function`). So a method has two links: `info`, the function whose
type and flags it uses, and `function`, where it jumps. `AttachedMethodsValid` is
about both.

### MemoryAccess

Every accessor of `AbstractMemory` as the set of offsets it touches, given the
memory's size; empty when it raises. `InBounds` is `checkBounds`; `Wrap` and
`AsLong` are the machine's sums and products, so an array's byte count that
wraps is checked wrapped but touched unwrapped. Lengths of strings and counts of
inline arrays, which the code keeps in an `int`, are bounded by `IntMax`. Struct fields
and the elements of inline arrays are accessors like the others: they differ in
which of offset and length are checked. `Reads` and `Writes` collect the
accessors that check, over all arguments. `__copy_from__` checks nothing
(`CopyFrom`); its one caller, the assignment of an inner struct, copies into a
slice, and the slice is checked (`PutStruct`). `Copies` collects what such copies
touch, on both sides. Which value a byte holds, and its byte order, is
left out.

### MemoryObjects

`heap` holds what `AbstractMemory`, `Pointer` and `Buffer` record: an address as
storage and offset, size, type size, flags, parent, ownership. One action per
operation: three ways to make an object, slice, `+`, `[]`, `order`,
`Pointer.new(pointer)`, `dup`, `freeze`, `autorelease=`, `free`, the end of a
block, and the sweep of each kind, at any time and in any order. `room` is what
was really allocated, after the seven bytes for alignment. Operations that raise
change nothing and are left out.

### AutoPointer

The releaser's `@ptr` and `@autorelease`, threads inside `free` (which calls Ruby
code before it resets `@ptr`), the finalizer after the sweep or at exit, views.
`broken` records a proc that raised after it released, or two overlapping frees:
for these the code takes no care (below).

### StructObjects

`cell` is the address in each reference field of each memory, `sRefs` is
`s->rbReferences`. A field with a memory operation is written and stored in one
step (`Put`); one with Ruby methods in two (`BeginPut`, `EndPut`), between which
other threads and the collector run. `writer` is history: the struct through
which a cell was assigned last without being disturbed.

### StructLayout

`packed`, `aligned`, `size=` and one `layout` call as `BeginLayout`, an `Add` per
field, `EndLayout`. A type is its size, alignment and leaves. `AlignUp` is a quotient
where the code masks bits; for powers of two they agree, and
`AlignmentAssumption` says what is used of that: of two alignments the smaller
divides the larger. `Filler` is `struct_layout_union_bang` for x86_64 System V, and
`LeafAssumption` says what it relies on there: libffi's scalars are as long as they
are aligned, and a leaf of a type of floats is a float. `UnionFilled` says which
filler that gives, not that C passes the union so (see below).

### EnumTypes

A declaration is read item by item as the constructors do; `EnumToNative`,
`EnumFromNative`, `BitmaskToNative`, `FlagsIn` and `Remainder` are the
conversions. A native type says two things of its sign: whether C's type is
signed, and whether it is `listed`, one of `INT8` to `INT64`, for which alone the
code sets `@signed` and takes two's complement. `Type::LONG` is signed and not
listed. Ruby's
integers have no width, so the bits of one (`Bits`) are those up to `MaxBit`, a
bound that no value of a declaration and no native type goes beyond
(`EnumAssumption`); `OfBits` is the number that has given bits, `RubyInteger` the
one that, if negative, has all the higher ones too. `Pow2` is
`1 << n`, a recursive function because the prover knows nothing of `^`.

### Library

`opened` are the handles, `ffiLibs` is `@ffi_libs`, `functions` and `variables`
what is attached, each leading to a symbol and through it to a `DynamicLibrary`.
`ffi_lib` opens anew and replaces the list; old objects are swept when nothing
marks them, and close their handle.

### CallParams

One call: `argv` (`slot`), what each parameter was given (`given`), the counters
`argidx` and `cbidx`, and the collector at every step. Conversions that write
their result back into `argv` (`to_str`, `to_native`) keep it alive; those that
do not (`to_ptr`) rely on the argument. `Callbacks` is the loop in which
`fntype_initialize` collects the callback parameters. A parameter of a mapped
function type takes the block, too, if it stands for an argument; what `to_native`
made of the argument at hand then stays in `argv`, and is what the next parameter
reads as its argument (`itself` is whatever the slot held before the parameter). A variadic call has its own first step
and an Array that keeps the original arguments.

### What the code does not promise

The models follow the code where it gives less than one may expect; the
properties exempt these cases, by name, and no finding is made of them.

- `order(:native)` of a byte swapped view returns the view (`Pointer.c:380`).
  `get_array_of_string` without a count never reads the last slot
  (`AbstractMemory.c:472`). `write_array_of_type` compares an index with a size in
  bytes (`pointer.rb:134`).
- A negative count, or a product that wraps below zero, makes an object with a
  negative size; `slice(0, LONG_MAX)` makes an unbounded one (`unsized`).
- `ptr_initialize_copy` tests the flags of the copy, not of the original
  (`Pointer.c:178`). A buffer's block frees it always, against the comment at
  `Buffer.c:322`.
- A release proc that raises late, or a second `free` during the first, releases
  twice (`autopointer.rb:137`).
- `Struct#dup` and `order` of a struct without stored references copy from NULL
  (`Struct.c:193`). `__copy_from__` checks neither bounds nor access: assigning an
  inner struct writes frozen memory and through NULL, and reads beyond a source that
  is smaller than its struct's layout; from Ruby code it takes any length
  (`AbstractMemory.c:688`). References of inner structs and inline arrays are not kept; a
  stored reference is the value assigned, not what `to_native` made of it.
- After `Function#free` the function keeps the trampoline's address
  (`Function.c:597`), and a method attached to it, before or afterwards, goes on
  jumping there (`MethodHandle.c:107`), when the pool may have handed the trampoline
  to another function.
- `find_homogeneous_leaf_type` forgets a mismatch when another leaf follows
  (`StructLayout.c:621`). A type of size zero ends a struct's elements.
- One filler stands for a whole union. The System V ABI classifies each eightbyte by
  itself, so a union of a pointer and a struct of a double and a float goes in `rdi`
  and `xmm0` in C, and as two integers here; `aligned 16` makes floats of mixed
  kinds a `long double`; and a union of packed structs of floats, aligned for
  no float, gets an integer filler (`StructLayout.c:677-683`).
- `@signed` of a bitmask leaves out `Type::LONG` (`enum.rb:194`): a flag at its sign
  bit becomes 2^63, which `NUM2LONG` refuses with a RangeError, though the comment
  at line 277 speaks of any signed type.
- `packed false` puts every field at offset 0; `packed n` pads the size (`packed 2`
  makes a lone char two bytes long, C makes it one); an
  offset named in a union may lie beyond its size; a second layout is never
  smaller than the first.
- What `to_ptr` makes anew, and the references of a struct passed by `by_ref`,
  nothing keeps during the call. A mapped type over a function type advances the
  callback counter without having an entry (`Call.c:317`).

### Not modelled

- The Windows dispatcher, with events for condition variables: a second
  refinement of `CallbackService`.
- The values of arguments, results and memory: pure conversions, covered by the
  unit tests. What conversions keep alive is in `CallParams`.
- Copies of a struct's bytes that do not go through an accessor: `Struct#dup`
  (`Struct.c:187`), structs by value as results of callbacks and of calls
  (`Function.c:992`, `Types.c:103`). They take the size from the layout or the libffi
  type and check nothing.
- Fibers inside callbacks, several Ractors, a runner that forks, code that runs
  in the child before the fork hook: each is a hazard in `PROJECT.json`, with
  the reason.
- GC compaction: references are updated in place and no decision depends on it.
- Types (`Type.c`, `Types.c`, `MappedType.c`, `ArrayType.c`, `StructByValue.c`,
  `types.rb`), platform tables, generated type maps, `LongDouble.c`, `io.rb`: they
  keep no state that changes after they are made.
- The field cache of `Struct.c` (needs several Ractors to go wrong), the table
  of a library's enums, typedefs, rules for file names.

## 3. Runs

| Run | Bounds | Shows |
|---|---|---|
| `closure_pool` | 3 pages of 2 closures | the pool keeps handles backed, free list exclusive, no closure lost, memory tracked; frees itself with the last reference; implements `ClosureStore` |
| `closure_pool_libffi` | 3 blocks, `UseFFIAlloc` | finding 1 |
| `async_callback` | 2 creators, 2 native threads, 2 callbacks each, 1 fault, 1 fork | no dangling callback record, no callback lost or copied, no lost wakeup; implements `CallbackService` |
| `async_liveness` | 1 creator, 2 native threads, 2 callbacks each, 2 faults, 1 fork | callbacks return; a stopped dispatcher ends; every function has a running dispatcher |
| `async_fork_race` | 2 creators, 1 fork | finding 2 |
| `call_frames` | 3 frames, 2 exceptions, depth 6, 1 throw | the current frame is the innermost call's; calls raise what their last callback raised; a throw disturbs only calls it led into |
| `last_error` | 2 values of errno, depth 1 | finding 3 |
| `function_lifecycle` | 2 functions, 2 types, 1 proc, 1 name, 1 slot per type, 2 method handles | one owner per trampoline, no leak, stored callbacks and attached methods stay valid, the cache is not overwritten |
| `callback_cache_race` | 2 threads, 2 functions, 1 proc | finding 4 |
| `attach_fails` | 2 functions, 1 name | finding 5 |
| `native_objects` | longs of 4 bits, 3 objects, 2 storages, types of 1 and 4 bytes; 2 freeing threads, 2 views; 2 structs, 2 memories, 2 values, 1 field, 1 thread | storage is owned, freed once and never under a view; no access leaves it; resources released once; assigned addresses lead to live objects |
| `declarations` | 3 fields in 2 layouts over 7 types; 5 items, 3 symbols, 3-bit types, signed and listed or not; 2 libraries, 3 objects, 2 names; 3 parameters | fields fit and lie where C puts them; a union's filler follows from its leaves and alignment; conversions invert; attached symbols are loaded; native code is given live, well typed arguments |

Why the bounds are enough for the cases that matter:

- Two closures per page and three pages give a page with one closure out and
  one free, a second page while the first is partly free, and pages freed
  together. `PerPage = 1` and larger values are left to the theorems.
- Two callbacks per native thread are needed for a stale record, two native
  threads for a list longer than one, two creators for the race at creation.
  One fault is enough in the safety run, for a second one can only stop more;
  the liveness run has two, to interrupt and kill.
- Depth 6 holds three calls nested with three callbacks, so the outer call has
  both an inner call and an inner call's inner call; three frame addresses make
  a reused address meet the middle of a chain. Two exceptions tell whose is
  raised.
- Two functions and two types put one function into the proc's slot and one
  into its table. One slot per type makes each trampoline reused as soon as it
  is given back. Two method handles let one name be attached over another
  function's. Two threads, where the cache is not protected, get a run of their
  own.
- With longs of 4 bits and arrays of at most 3 elements, sums and products of
  every accessor wrap; sizes of 2 to 12 bytes fall below and above what a long
  holds and what a small buffer embeds (2 bytes). One byte is added for
  alignment, where the code adds seven. Three objects give a view of
  a view of an owner. `IntMax` is as large as `LongMax` here. The theorems cover
  every width of both.
- Two structs over one memory, two memories and two values let a reference be
  overwritten, copied, left behind and reached through another struct. With one
  thread in the middle of an assignment the other one is a direct `Put`.
- Three fields give a union whose mismatch a third leaf hides, and a field
  between two others; the explicit offset 6 and the size 21 are multiples of no
  alignment. Two layouts let a class inherit the size of its first. The types are char,
  pointer, float[3], int[0], a struct of a double and a float, a packed one of a float
  and a double, and one of an int and two floats, whose own mismatch is hidden.
- Three bits hold the sign and two flags; symbols with the same value, explicit
  and negative values and one bit beyond the type all occur. `MaxBit = 9` is the
  largest integer of a declaration and the number of its items together.
- Three DynamicLibrary objects let two hold one library, so that one of them is
  closed while the other keeps it loaded. Three parameters let a block take the
  place of the first, middle or last argument.

`native_objects` and `declarations` each hold components that share no state. One
of them moves in a behaviour, the others stay in one initial state; so each run
is the sum of its components, not their product.

The bounds matter for what is left to TLC alone, the liveness properties and the
findings (end of section 6); the theorems hold without them.

Symmetry is used in safety runs only, over sets whose members no definition
tells apart. Runs that set `CHECK_DEADLOCK FALSE` have bounded resources or
calls: when these are used up the program has nothing left to do.

## 4. Fairness

Only `AsyncCallback` states fairness; the other components have safety
properties alone, for nothing obliges a program to free, to assign or to call,
or the collector to run. `FairSpec` of `AsyncCallback` assumes no more than a scheduler and the POSIX
primitives give:

- weak fairness of each native thread, dispatcher thread and runner: a thread
  that can run does run. A runner executes Ruby code that is assumed to end;
- strong fairness of taking `async_cb_mutex`, since others take and release it
  again and again while one waits;
- weak fairness of finishing a dispatcher's creation, and of the fork hook,
  which `Process._fork` runs before it returns to the caller.

Nobody is obliged to call back, to interrupt, to fork or to wake up spuriously.
`EveryCallbackReturns` excuses behaviours with a fault: a dispatcher that is
interrupted stops for good, and a runner that is killed never marks its callback
done. That is what the code does, and the native caller then waits for ever. The
list is last in, first out, so an old callback could starve under an endless
stream of new ones; the bounded number of calls hides this.

## 5. Findings

1. `ClosurePool.c:237`: with `USE_FFI_ALLOC` each allocation overwrites
   `pool->blocks`. All blocks but the last are never freed, though the list
   "Keeps track of all the allocated memory for this pool" (line 75).
   `BlocksTrackAllMemory`, `closure_pool_libffi`.
2. `Function.c:248`: two threads that make their first functions at once both
   create a dispatcher. One pointer is overwritten, but the function made with it
   keeps it; after a fork only the registered one is restarted, against
   CHANGELOG.md:47. `DispatcherRuns`, `async_fork_race`.
3. `LastError.c:179`: `FFI::LastError.error=` sets the C library's errno,
   `error` reads the copy made after the last call. Both are documented as access
   to `errno`. `ErrorReadsBack`, `last_error`.
4. `Function.c:429`: `rbffi_Function_ForProc` decides where to cache by what it
   read before it made the function. If the first function also creates the
   dispatcher, another thread can fill the slot in between, and its function is
   overwritten and may be collected. `CacheNeverOverwritten`,
   `callback_cache_race`.
5. `function.rb:86`: `attach` replaces the stashed function of a name before it
   attaches the new one. If that raises, the method that is still there has lost
   what kept its function: the run attaches one, fails to attach another, forgets the
   first, and the collector sweeps it. `StashProtectsMethods`, `attach_fails`.

The properties of findings 1, 2 and 4 are also checked where they hold: the page
allocator, a single creator, a single thread. Finding 5 has a weaker companion,
`AttachedMethodsValid`, which exempts the names whose last attach raised.

## 6. Proofs

`ClosurePool_proofs` proves, for every set of pages, every `PerPage >= 1` and,
where not said otherwise, both builds:

| Theorem | States |
|---|---|
| `InductiveInvariant` | `Spec => []IInv` |
| `TypeCorrect` | `[]TypeOK`: the reference count never becomes negative |
| `HandlesAreBacked` | `[]HandlesBacked` |
| `FreeListIsExclusive` | `[]FreeListExclusive` |
| `FreedInTime` | `[]FreedWithLastReference` |
| `NothingIsLost` | `[]NoClosureLost` |
| `AllMemoryTracked` | `[]BlocksTrackAllMemory`, without `USE_FFI_ALLOC` |
| `PoolImplementsStore` | `Spec => StoreSpec`, without `USE_FFI_ALLOC` |

None of the invariants is inductive alone. `HandlesBacked` could be broken by a
`ClosureFree` whose decrement reaches zero while others are still held; that this
cannot be takes `RefcntCounts`: the count is the owner's reference plus the
number of closures handed out, and the pool lives exactly while it is not zero.
`AllocFromList` hands out what is on the free list, so that must lie in mapped
pages (`KnownClosuresMapped`) and must not be handed out already
(`FreeListExclusive`). `IInv` is the conjunction of these and `TypeOK`. The
lemmas are facts about sequences (`PushFront`, `PopFront`, `ThreadBlock`: what
pushing, popping and threading a new page do to the range of a list and its
injectivity), about dropping a reference, and one per action.
`NothingIsLost` and `AllMemoryTracked` are proved on top of the invariant, as
inductive relative to it.

The refinement maps the abstract `backed` to the closures of mapped pages. It
really needs a build without `USE_FFI_ALLOC`: there the cleanup unmaps all
pages, as the abstract store's end does, while the other build leaves pages
behind (finding 1) and does not implement the store.

Assumptions: `PerPage \in Nat \ {0}`, `UseFFIAlloc \in BOOLEAN`, and two
distinct result values. Each run that extends the module evaluates them.

### Memory: `MemoryObjects_proofs`

For every `LongMax` and `IntMax`, every set of type sizes up to a long double's, any
objects, and whatever is made, viewed, copied, freed and collected:

| Theorem | States |
|---|---|
| `CheckBoundsExact` | `InBounds` accepts exactly the accesses inside a memory whose size is not negative, whatever wraps |
| `ReadsInside`, `WritesInside` | no accessor that checks touches an offset outside `0..(size - 1)` |
| `CopiesInside` | nor does the unchecked copy of an inner struct, if the source is as large as the layout |
| `MemoryTyped` | `[]MemoryTypeOK` |
| `OwnersHoldStorage` | `[]StorageOwned` |
| `ViewsKeepStorage` | `[]ViewsBacked` |
| `AccessesStayInside` | `[]AccessesInBounds` |

Of the accessors the interesting one is the array (`ArrayInside`): `count * t` may
wrap as a long, but Ruby refuses arrays of more than `LongMax \div ValueSize`
elements, and no type is larger than two VALUEs; so the product stays below a
word and a wrapped one is negative, which the check refuses
(`ProductBounded`, `ProductUnwrapped`). This is where
`2 * ValueSize <= LongMax` is needed.

The invariant of the objects, `MemoryIInv`, says of every object what its own
storage is (`StorageOf`: an object that owns has live storage, nobody's storage is
live without it), and of every *marked* object (`Sound`) that it exists, that it
keeps the owner of the storage it points into marked (`Rooted`), and that it lies
within the room of that storage, with no sum wrapped on the way (`Bounded`). What
is marked is the least set closed under the mark functions that holds the roots
(`Closure`); what leads from a view to its owner is kept by every step
(`LeadsKept`), for a parent is set when an object is made and never changed.

### Functions: `FunctionLifecycle_proofs`

For any functions, types, procs, names, closures and threads:

| Theorem | States |
|---|---|
| `LifecycleTyped` | `[]TypeOK` |
| `TrampolinesHaveOneOwner` | `[]OneOwner` |
| `TrampolinesDoNotLeak` | `[]NoneLeaked` |
| `MethodsLeadToStashed` | `[]AttachedMethodsValid` |
| `CallbacksStayValid` | `[]StoredCallbacksValid`, with one Ruby thread |
| `CachedFunctionStays` | `CacheNeverOverwritten`, with one Ruby thread |
| `PoolsUsedAsStores` | `HistorySpec => Store(pool)!Spec`, for the pool of each function type and that of the methods |

`LifeIInv` has four parts. `Structure`: a function in the middle of
`rbffi_Function_ForProc` is nobody else's yet (`PendingOK`), a cached function is
seen by its proc alone, so that no program frees or attaches it (`CachesOK`), and
what is reachable has not been swept (`LiveOK`). `Ownership`: `OneOwner` and
`NoneLeaked` need each other, and a function with a trampoline has a proc and a type.
`MethodsOK` and `GivenOK` tie the method table, and what was given to native code, to
the functions they came from. `AddressIInv` adds where functions and handles point: a
function that has a trampoline has that one's address, and its method handle jumps to
the function's address, because nobody attaches a function before it has got its
trampoline. `Reachable` is defined by following references a
bounded number of times; the proof bounds it from both sides: it is closed, and
it is part of every closed set that holds what the program refers to
(`ReachClosed`, `ReachLeast`).

`CallbacksStayValid` and `CachedFunctionStays` assume one Ruby thread, and with two they are false: that is
finding 4. They need two facts more: nothing happens to a proc between the lookup
and the caching (`PendingFresh`), and what was given for a proc it still caches
(`ProcGivenOK`).

*The pools and their clients.* `ClosurePool_proofs` shows what a pool promises
whoever keeps to its rules; `PoolsUsedAsStores` shows that this module keeps to
them, so the two halves meet in `ClosureStore`: a closure is taken only from a pool
whose reference somebody has, one at a time and none that is held; given back one at
a time; and a pool's reference is dropped once. The pool of a function type is
owned while the type has not been swept, that of the methods for ever. How much
memory a pool has is not in this model, so `HistorySpec` adds the history
variable `mapped`, which grows with what is handed out and is given up with the last
reference. Three facts carry the proof. A function's closure is of its type's pool
(`OfItsPool`), so a function cannot be made from a pool that is gone, for its type is alive.
Two trampolines that one step gives back are of different pools (`PoolUse`). And what is given back is
held, which `OneOwner` says: the set difference in the model would hide a second free. The proof needs
`Default \notin FType`: the pool of the methods is no function type's.

### Calls: `CallFrames_proofs`

For any frames, exceptions and depth of the stack, and any number of throws:

| Theorem | States |
|---|---|
| `FramesTyped` | `[]TypeOK` |
| `CurrentFrameIsInnermost` | `[]CurrentIsInnermost` |
| `CallsRaiseOwnException` | `[]CallsRaiseTheirOwn` |
| `DamageStaysLocal` | `[]DamageIsLocal` |

The invariant `FrameIInv` is the list of frames: calls and callbacks alternate
(`Alternating`), no frame is on the stack twice (`DistinctFrames`), `td->frame` is the
innermost call (`CurrentLinked`), each `frame->prev` the innermost call below
(`CallsLinked`), and each callback saves its exception in the call it interrupts
(`CallbacksLinked`). All of this with an exception: a throw skips pops, so the link
of a call may be wrong once a throw has led into one of its callbacks (`Excused`);
that the damage goes no further is what `DamageIsLocal` says and what makes the
invariant inductive.

### Callbacks: `AsyncCallback_proofs`

For any native threads and functions, and every bound on calls, faults and forks:

| Theorem | States |
|---|---|
| `CallbacksTyped` | `[]TypeOK` |
| `NoCallbackDangles` | `[]NoDanglingCallback` |
| `CallbacksHandedOverOnce` | `[]NeitherLostNorCopied` |
| `NoWakeupIsLost` | `[]NoLostWakeup` |
| `EveryDispatcherRuns` | `[]DispatcherRuns`, where either no process forks or one thread makes functions |
| `HandOverServes` | `Spec => ServiceSpec`: the POSIX dispatcher implements `CallbackService` |
| `NoCallbackIsStuck` | `[]NobodyStuck`, where either no process forks or one thread makes functions |
| `StoppedCanEnd` | `[]StoppedNotStuck` |

`AsyncIInv` is about who holds a record (`HandOver`): what a list holds was pushed by
a call that waits for this dispatcher (`Listed`), what is popped has left the list
(`Taken`), what a runner has is with no dispatcher (`RunnersOwn`), and what waits is
somewhere as long as nothing is killed (`NotLost`); and about threads (`Threads`):
only a dispatcher that was set up is used, the child of a fork is alone until its
hook has run, a dispatcher enters its wait with nothing popped, and without a fault
the registered one runs. After a fork a dead dispatcher's list may still hold records
of stack frames that are gone; `Listed` promises nothing of these, and
`Running(d)` in it is where the proof shows that nobody looks. The hypothesis of
`EveryDispatcherRuns` is as weak as the code allows: with a fork and two creators
it is false (finding 2). The refinement maps each step to a step of one native
thread's phase, or to a stutter.

The last two theorems are what can be proved of liveness without fairness: nobody waits for
nothing. As long as nothing is killed, whenever a callback is in progress the guard
holds of a step that `FairSpec` obliges somebody to take, of the native thread, the
runner, the dispatcher, or another native thread that has the dispatcher's mutex
(`NobodyStuck`); and a dispatcher that must stop is not asleep (`StoppedNotStuck`).
The guards are written out, for ENABLED is beyond the prover. `HeldIInv` adds to the
invariant that the mutex of a dispatcher that runs is held by somebody who is between
lock and unlock (`HolderThere`; after a fork a dead one's may be held by a thread
that is gone), that only a kill ends a runner early, and that who
calls back found a dispatcher registered. These three facts were checked by TLC on
the instances of the runs `async_callback` and `async_liveness` before they were proved. That
the steps taken also come to an end is what the run `async_liveness` checks.

### Side by side: `NativeObjects_proofs`

For any number of threads in `free`, of views, structs, memories, values and fields:

| Theorem | States |
|---|---|
| `AutoTypes` | `AutoSpec => []AutoTypeOK` |
| `ReleasesOnce` | `AutoSpec => []ReleasedOnce` |
| `FinalizerInTime` | `AutoSpec => []CollectedReleased` |
| `AssignedStaysLive` | `StructSpec => []ReferencesKeepPointees` |
| `NativeObjectsTyped` | `[]TypeOK` of the run's specification |

`ReleasedOnce` alone says nothing of a thread in the middle of `free`. `IInv` adds:
once the finalizer is due nobody is in `free` or can begin it
(`FinalizerLast`); a releaser without a pointer has released
(`ForgottenReleased`); with no late exception and no overlap, at most one thread
is in `free`, and a pointer that is set stands for a resource not given back
(`OneRelease`).

`ReferencesKeepPointees` speaks of the collector's marks; the
invariant `RInv` splits it: what is marked has not been swept (`MarkedLive`), a
cell whose writer is known holds exactly what the writer keeps (`WriterKeeps`,
so the address is marked with the writer), and a struct in the middle of an
assignment is the writer of no such field (`NoWriterMeanwhile`), for else the
store that follows would drop what another cell still needs. Assumptions:
`NilAssumption`, that the stand-ins for `nil` and NULL are no objects and no
object is both a struct and a value.

### Enums and bitmasks: `EnumTypes_proofs`

For every list of symbols and integers, every native type and every `MaxBit` that
`EnumAssumption` allows:

| Theorem | States |
|---|---|
| `EnumInvariant` | `EnumSpec => []EnumIInv` |
| `EnumValuesComeBack` | `EnumSpec => []EnumsInvert` |
| `BitmasksComeBack` | `EnumSpec => []BitmasksInvert` |
| `NothingLost` | `EnumSpec => []ConversionsInvert`, the two together |

*Enums.* Keys are unique, so a symbol has one value. A value that has a symbol gives
the last one inserted (`LargestExists`), and that symbol's value is the one it began
with, whatever the synonyms.

*Bitmasks.* First, numbers and their bits. Powers of two divide one another
(`PowersDivide`), so the remainder by `2^k` keeps the bits below `k` (`LowBits`);
one bit more adds its power (`BitStep`), and by induction the powers of a number's
bits below `k` sum up to that remainder (`BelowBits`). So the bits of a number that
is not too large determine it (`OfBitsBits`), and any set of bits is that of its sum
(`BitsOfBits`). Negative numbers have
the same low bits as what two's complement makes of them (`SameLowBits`). Then the
invariant: keys are unique, each value is a single power (`Powers`), and the next
exponent leaves room for the items to come
(`nextValue + (MaxItems - items) <= MaxBit`); without the last, a bit beyond
`MaxBit` would be lost in the model that Ruby does not lose. With one bit to a
symbol, `from_native` finds a symbol exactly if its bit is set (`SymbolBit`,
`NamedBits`), the remainder is the other bits, and both together, as `to_native`
adds them, are the number within the width of the type (`NativeComesBack`); for a type that is
not listed, nothing is cut off and a negative number keeps its infinitely many high
bits (`RubyBits`, `RubyIntegerOfBits`).
Flags come back with the synonyms of each and no remainder if the type has room for
their bits and the result is one of its values (`FlagsComeBack`).

### Declarations and arguments: `Declarations_proofs`

For layouts of any fields, any number of libraries, and calls with any number of
parameters:

| Theorem | States |
|---|---|
| `FieldsFit` | `LayoutSpec => []LayoutFits` |
| `PlainLayoutsAsC` | `LayoutSpec => []LayoutAsC`: offsets, not the size |
| `FillersOfUnions` | `LayoutSpec => []UnionFilled` |
| `AttachedStaysLoaded` | `LibSpec => []AttachedLoaded` |
| `WhatNativeReaches` | `ParamsSpec => []NativeReachesLive` |
| `CallbacksOfTheirType` | `ParamsSpec => []CallbacksTyped` |
| `DeclarationsTyped` | `[]TypeOK` of the run's specification |

*Layouts.* The properties speak of a finished layout; the invariant `LayoutIInv`
says the same of the fields a builder has so far (`Apart`, `AsC`), with one addition:
the builder's size is beyond every placed field, and for plain fields is the end of
the last. A placed field starts at the next multiple of its alignment
(`AlignUpBounds`), and that is a multiple of the type's own alignment also when
`aligned` raised it, since alignments divide one another (`Divides`). For unions it
takes `AlignmentReached`: the builder's alignment is some type's, `packed`'s or
`aligned`'s. A filler aligned for no more than that divides the size (`FillerFits`):
it is as long as it is aligned, and alignments divide one another. It was
found by the union's alignment, or it is the leaf of an element (`LeafOfElement`),
perhaps not the only one, and the common one if there is one (`LeafLoop`).

*Libraries.* `LInv`: the handle of
a symbol's own object is open on the library the symbol was found in, and so are
the objects of `@ffi_libs`. That is stronger than being loaded, which another
object's handle would do too.

*Arguments.* `ParamsIInv`: the arity check has let pass one argument per
parameter, or one less with a block (`Arity`); `argidx` and `cbidx` follow from the
parameters converted (`Indices`), which is where the recursive function `Callbacks`
comes in (`CallbacksPrefix`: what it has collected after `n` parameters it keeps);
the arguments not yet converted are as they were (`Unread`); and what native code was
given is marked and has not been swept (`GivenHeld`).

### What the prover could not do

Induction is available where it can be said about a set: a set of naturals with 0
and every successor is all of them (`SetInduction`, `BoundedInduction` of
`EnumTypes_proofs`, from the library's `WFMin`). So the loops that are written as
recursive functions (`Callbacks`, `LeafOf`, `Pow2`, `OfBits`) can be reasoned about:
`Recursion` shows once that such a function exists. The library's induction
theorems, which take an operator, cannot be used, nor can `RECURSIVE` operators; the
modules have none.

Only model-checked, of the properties of the passing runs: liveness under fairness,
`EveryCallbackReturns` and `StopEndsDispatcher`, which is beyond the prover;
`NoCallbackIsStuck` and `StoppedCanEnd` are what it can show of them. The
five findings are counterexamples of TLC.

## 7. Plan

1. **Windows**: the other dispatcher against `CallbackService`.
2. **Ractors**: the field cache, the closure pool without its lock.
3. **Results**: what a returned pointer, string or struct is a view of.
