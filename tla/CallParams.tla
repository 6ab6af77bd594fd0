------------------------------ MODULE CallParams ------------------------------
(***************************************************************************)
(* The arguments of one call into native code, from Ruby objects to        *)
(* addresses (rbffi_SetupCallParams and getPointer in Call.c,              *)
(* variadic_invoke in Variadic.c, variadic.rb, struct_by_reference.rb).    *)
(*                                                                         *)
(* Arguments are converted one after the other; a conversion may run Ruby  *)
(* code, and while the native function runs other threads or its callbacks *)
(* may.  So the collector may run at every step, and what the native       *)
(* function was given must have been kept by then.  What keeps it is the   *)
(* caller's argument vector, into which conversions write their results.   *)
(*                                                                         *)
(* Each argument is a little graph: the object itself, the memory or       *)
(* function it leads to ("inner"), and, for a struct, the memory its fields*)
(* point to ("pointee"), which only the struct keeps.                      *)
(***************************************************************************)
EXTENDS Integers, Sequences, FiniteSets, SequencesExt

CONSTANTS MaxParams   \* bound: parameters of the function

ParamKind == {"number", "string", "address", "function", "mapped", "mapped function"}

\* What each kind of parameter takes; anything else raises
Takes(param) ==
  CASE param = "number"   -> {"number", "symbol"}
    [] param = "string"   -> {"nil", "string", "to_str"}
    [] param = "address"  -> {"nil", "string", "memory", "struct", "to_ptr", "to_ptr anew"}
    [] param = "function" -> {"nil", "function", "proc"}
    [] param = "mapped"   -> {"nil", "converted", "struct by_ref"}
    [] param = "mapped function" -> {"converted"}

ASSUME ParamsAssumption == MaxParams \in Nat

VARIABLES
  params,     \* the types of the parameters
  variadic,   \* called through a VariadicInvoker, whose Array keeps the arguments
  argc,       \* arguments given
  block,      \* a block is given
  phase,      \* "before", "converting", "native", "done", "raised"
  args,       \* what each argument turned out to be
  slot,       \* argv: the object itself or what a conversion replaced it with
  given,      \* what each parameter was given: [arg, part], or Nothing
  closureOf,  \* the parameter whose function type a callback was made for
  argidx, cbidx, callbackProc,   \* locals of rbffi_SetupCallParams
  swept       \* objects that are gone, [arg, part]

inputs == <<params, variadic, argc, block>>
locals == <<argidx, cbidx, callbackProc>>
paramVars == <<inputs, phase, args, slot, given, closureOf, locals, swept>>

Nothing == [arg |-> 0, part |-> "none"]
BlockArg == MaxParams + 1
Arg == 1..BlockArg
Object == [arg : Arg, part : {"itself", "inner", "pointee"}]
Seqs(S, n) == UNION {[1..k -> S] : k \in 0..n}

\* callbackParameters, after the first n parameters: those of function type; a
\* mapped type is not one
Callbacks[n \in 0..Len(params)] ==
  IF n = 0 THEN <<>>
  ELSE IF params[n] = "function" THEN Append(Callbacks[n - 1], n) ELSE Callbacks[n - 1]
CallbackParameters == Callbacks[Len(params)]

ParamsInit ==
  /\ params \in Seqs(ParamKind, MaxParams)
  /\ variadic \in BOOLEAN /\ block \in BOOLEAN
  /\ argc \in IF variadic THEN {Len(params)} ELSE 0..MaxParams
  /\ phase = "before"
  /\ args = [a \in Arg |-> "unknown"]
  /\ slot = [a \in Arg |-> "itself"]
  /\ given = <<>> /\ closureOf = <<>>
  /\ argidx = 1 /\ cbidx = 1 /\ callbackProc = FALSE
  /\ swept = {}

-----------------------------------------------------------------------------
(* The collector *)

\* What an argument keeps besides itself
Keeps(kind) ==
  CASE kind \in {"struct", "struct by_ref"} -> {"inner", "pointee"}
    [] kind \in {"to_ptr", "proc"} -> {"inner"}
    [] OTHER -> {}

\* Mutation of Rooted: the block is not guarded
RootedWithoutBlock ==
  {[arg |-> a, part |-> slot[a]] : a \in 1..argc}
  \cup (IF variadic THEN {[arg |-> a, part |-> "itself"] : a \in 1..argc} ELSE {})

\* argv, callbackProc, and the Array of a variadic call
Rooted ==
  {[arg |-> a, part |-> slot[a]] : a \in 1..argc}
  \cup (IF callbackProc THEN {[arg |-> BlockArg, part |-> "itself"]} ELSE {})
  \cup (IF variadic THEN {[arg |-> a, part |-> "itself"] : a \in 1..argc} ELSE {})
MarkedArgs ==
  Rooted \cup {o \in Object : [arg |-> o.arg, part |-> "itself"] \in Rooted /\ o.part \in Keeps(args[o.arg])}

\* All that nothing marks is swept
SweepArgs ==
  /\ phase \in {"converting", "native"}
  /\ swept' = swept \cup {o \in Object : args[o.arg] # "unknown" /\ o \notin MarkedArgs}
  /\ swept' # swept
  /\ UNCHANGED <<inputs, phase, args, slot, given, closureOf, locals>>

-----------------------------------------------------------------------------
\* The arity check: a block stands for a missing callback argument
BeginParams ==
  /\ phase = "before" /\ ~variadic
  /\ \/ /\ argc = Len(params)
        /\ phase' = "converting" /\ UNCHANGED callbackProc
     \/ /\ argc # Len(params)
        /\ IF argc = Len(params) - 1 /\ Len(CallbackParameters) = 1 /\ block
             THEN phase' = "converting" /\ callbackProc' = TRUE
             ELSE phase' = "raised" /\ UNCHANGED callbackProc
  /\ UNCHANGED <<inputs, args, slot, given, closureOf, argidx, cbidx, swept>>

\* variadic_invoke, up to the conversion: the types may be refused.  There are as
\* many values as types, VariadicInvoker#call has seen to that.
BeginVariadic ==
  /\ phase = "before" /\ variadic
  /\ phase' \in {"converting", "raised"}
  /\ UNCHANGED <<inputs, args, slot, given, closureOf, locals, swept>>

Param == params[Len(given) + 1]
Give(a, kind, part) ==
  /\ phase = "converting" /\ Len(given) < Len(params)
  /\ args' = [args EXCEPT ![a] = kind]
  /\ given' = Append(given, IF kind = "nil" \/ part = "none" THEN Nothing ELSE [arg |-> a, part |-> part])
  /\ UNCHANGED <<inputs, phase, callbackProc, swept>>

\* A number, or a symbol that the enums know
GiveNumber(kind) ==
  /\ Param = "number"
  /\ Give(argidx, kind, "none")
  /\ argidx' = argidx + 1
  /\ UNCHANGED <<slot, closureOf, cbidx>>

\* StringValueCStr, which writes the String it converted to into argv
GiveString(kind) ==
  LET part == IF kind = "to_str" THEN "inner" ELSE "itself"
  IN  /\ Param = "string"
      /\ Give(argidx, kind, part)
      /\ slot' = [slot EXCEPT ![argidx] = part]
      /\ argidx' = argidx + 1
      /\ UNCHANGED <<closureOf, cbidx>>

\* getPointer: what to_ptr returns is not written into argv
GiveAddress(kind) ==
  /\ Param = "address"
  /\ Give(argidx, kind, IF kind \in {"string", "memory"} THEN "itself" ELSE "inner")
  /\ argidx' = argidx + 1
  /\ UNCHANGED <<slot, closureOf, cbidx>>

\* Mutation of GiveMapped: what to_native returns is not written into argv
GiveMappedUnwritten(kind) ==
  /\ Param = "mapped"
  /\ Give(argidx, kind, "inner")
  /\ argidx' = argidx + 1
  /\ UNCHANGED <<slot, closureOf, cbidx>>

\* to_native, whose result replaces the argument in argv
GiveMapped(kind) ==
  /\ Param = "mapped"
  /\ Give(argidx, kind, "inner")
  /\ slot' = [slot EXCEPT ![argidx] = "inner"]
  /\ argidx' = argidx + 1
  /\ UNCHANGED <<closureOf, cbidx>>

\* The function type of the cbidx-th callback; none is left, it reads on
CallbackType == IF cbidx \in DOMAIN CallbackParameters THEN CallbackParameters[cbidx] ELSE 0
AddClosure(kind) ==
  closureOf' = Append(closureOf, [param |-> Len(given) + 1,
                                  type |-> IF kind \in {"nil", "function"} /\ ~callbackProc
                                             THEN Len(given) + 1 ELSE CallbackType])

\* Mutation of GiveFunction: all callbacks take the first function type
GiveFunctionFirst(kind) ==
  /\ Param = "function"
  /\ AddClosure(kind)
  /\ IF callbackProc THEN Give(BlockArg, "proc", "inner") /\ UNCHANGED argidx
     ELSE Give(argidx, kind, IF kind = "function" THEN "itself" ELSE "inner") /\ argidx' = argidx + 1
  /\ UNCHANGED <<slot, cbidx>>

\* Mutation of GiveMappedFunction: the argument is counted by callback_param too
GiveMappedFunctionTwice(kind) ==
  /\ Param = "mapped function"
  /\ AddClosure(kind)
  /\ cbidx' = cbidx + 1
  /\ IF callbackProc THEN Give(BlockArg, "proc", "inner") /\ UNCHANGED <<argidx, slot>>
     ELSE /\ Give(argidx, kind, "inner")
          /\ slot' = [slot EXCEPT ![argidx] = "inner"]
          /\ argidx' = argidx + 2

\* callback_param: the block if there is one; the Function made of a Proc is cached
\* in the Proc
GiveFunction(kind) ==
  /\ Param = "function"
  /\ AddClosure(kind)
  /\ cbidx' = cbidx + 1
  /\ IF callbackProc THEN Give(BlockArg, "proc", "inner") /\ UNCHANGED argidx
     ELSE Give(argidx, kind, IF kind = "function" THEN "itself" ELSE "inner") /\ argidx' = argidx + 1
  /\ UNCHANGED slot

\* A mapped type over a function type: to_native's result goes on to callback_param.
\* With a block it is not used: it stays in argv as the next parameter's argument.
GiveMappedFunction(kind) ==
  /\ Param = "mapped function"
  /\ AddClosure(kind)
  /\ cbidx' = cbidx + 1
  /\ IF callbackProc THEN Give(BlockArg, "proc", "inner") /\ UNCHANGED <<argidx, slot>>
     ELSE /\ Give(argidx, kind, "inner")
          /\ slot' = [slot EXCEPT ![argidx] = "inner"]
          /\ argidx' = argidx + 1

\* A conversion raises: nothing was called, no frame pushed
ParamRaises ==
  /\ phase = "converting" /\ phase' = "raised"
  /\ UNCHANGED <<inputs, args, slot, given, closureOf, locals, swept>>

\* ffi_call, with or without the GVL
CallNative ==
  /\ phase = "converting" /\ Len(given) = Len(params)
  /\ phase' = "native"
  /\ UNCHANGED <<inputs, args, slot, given, closureOf, locals, swept>>

\* Back from the native function; what was swept may be taken again
FinishNative ==
  /\ phase = "native" /\ phase' = "done"
  /\ UNCHANGED <<inputs, args, slot, given, closureOf, locals, swept>>

ParamsNext ==
  \/ BeginParams \/ BeginVariadic \/ ParamRaises \/ CallNative \/ FinishNative \/ SweepArgs
  \/ /\ phase = "converting" /\ Len(given) < Len(params)
     /\ \E kind \in Takes(Param) :
          \/ GiveNumber(kind) \/ GiveString(kind) \/ GiveAddress(kind)
          \/ GiveMapped(kind) \/ GiveFunction(kind) \/ GiveMappedFunction(kind)

ParamsSpec == ParamsInit /\ [][ParamsNext]_paramVars

-----------------------------------------------------------------------------
\* Type invariant
ParamsTypeOK ==
  /\ params \in Seqs(ParamKind, MaxParams) /\ {variadic, block, callbackProc} \subseteq BOOLEAN
  /\ argc \in 0..MaxParams
  /\ phase \in {"before", "converting", "native", "done", "raised"}
  /\ \A a \in Arg : slot[a] \in {"itself", "inner"}
  /\ Len(given) <= Len(params) /\ \A i \in DOMAIN given : given[i] \in Object \cup {Nothing}
  /\ argidx <= argc + 1 /\ cbidx <= BlockArg
  /\ swept \subseteq Object

\* While native code runs, what it was given is there, whenever the collector ran:
\* strings, memory, the Function made of a Proc or a block, what to_native and
\* to_str returned, and the memory a struct's fields point to.  Two things are not
\* kept: memory that to_ptr makes anew, and the references of a struct passed
\* by_ref, which its pointer replaces in argv.
NativeReachesLive ==
  phase = "native" =>
    \A i \in DOMAIN given :
      LET a == given[i].arg
      IN  given[i] # Nothing =>
            /\ given[i] \in swept => args[a] = "to_ptr anew"
            /\ args[a] = "struct" => [arg |-> a, part |-> "pointee"] \notin swept

\* A callback is called with its own parameter's function type, and with a block in
\* an argument's place every other argument still goes to its own parameter; unless
\* a mapped type lies over a function type, which has no entry in
\* callbackParameters.
CallbacksTyped ==
  (\A i \in DOMAIN params : params[i] # "mapped function") =>
    /\ \A i \in DOMAIN closureOf : closureOf[i].type = closureOf[i].param
    /\ phase = "native" => argidx = argc + 1
=============================================================================
