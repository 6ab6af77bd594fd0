------------------------------- MODULE Library -------------------------------
(***************************************************************************)
(* FFI::Library: native libraries that a module opens, and what it attaches*)
(* from them (lib/ffi/library.rb, dynamic_library.rb, DynamicLibrary.c).   *)
(*                                                                         *)
(* A DynamicLibrary object closes its native library when it is swept; the *)
(* system unloads a library that was closed as often as it was opened.     *)
(* Functions, variadic invokers and global variables lead to a symbol, and *)
(* a symbol to the DynamicLibrary it was looked up in.                     *)
(***************************************************************************)
EXTENDS Integers, Sequences, FiniteSets, SequencesExt

CONSTANTS
  NativeLib,   \* native libraries
  Exports,     \* the names each of them exports
  Dl,          \* DynamicLibrary objects
  MaxNames,    \* bound: names given to ffi_lib
  NotOpen, NotAttached

Name == UNION {Exports[l] : l \in NativeLib}
Symbols == [dl : Dl, name : Name, lib : NativeLib]

ASSUME LibraryAssumption ==
  /\ NotOpen \notin NativeLib /\ NotAttached \notin Symbols /\ DOMAIN Exports = NativeLib
  /\ MaxNames \in Nat

VARIABLES
  opened,      \* library->handle of each object
  ffiLibs,     \* @ffi_libs; empty when not set
  functions,   \* @ffi_functions: the symbol each method calls
  variables,   \* @ffi_gvars, @ffi_gsvars: the symbol each struct lies over
  symHeld,     \* symbols, and functions and pointers made of them, that Ruby code holds
  dlHeld       \* DynamicLibrary objects Ruby code holds

attachedVars == <<functions, variables>>
libVars == <<opened, ffiLibs, attachedVars, symHeld, dlHeld>>

LibInit ==
  /\ opened = [d \in Dl |-> NotOpen]
  /\ ffiLibs = <<>>
  /\ functions = [n \in Name |-> NotAttached]
  /\ variables = [n \in Name |-> NotAttached]
  /\ symHeld = {} /\ dlHeld = {}

Loaded(l) == \E d \in Dl : opened[d] = l
Attached == ({functions[n] : n \in Name} \cup {variables[n] : n \in Name}) \ {NotAttached}

\* Mutation of MarkedDl: symbols do not mark their library
MarkedDlByModule == ToSet(ffiLibs) \cup dlHeld

\* @ffi_libs, and symbol_mark behind function_mark, variadic_mark and struct_mark
MarkedDl == ToSet(ffiLibs) \cup dlHeld \cup {s.dl : s \in Attached \cup symHeld}

-----------------------------------------------------------------------------
\* DynamicLibrary.open of each of ls, in order
Opens(ds, ls) ==
  /\ Len(ds) = Len(ls) /\ IsInjective(ds)
  /\ \A i \in DOMAIN ds : opened[ds[i]] = NotOpen
  /\ opened' = [d \in Dl |-> IF \E i \in DOMAIN ds : ds[i] = d
                               THEN ls[CHOOSE i \in DOMAIN ds : ds[i] = d] ELSE opened[d]]

\* ffi_lib: load_library of every name; the last names given replace the others
FfiLib(ds, ls) ==
  /\ Opens(ds, ls) /\ ls # <<>>
  /\ ffiLibs' = ds
  /\ UNCHANGED <<attachedVars, symHeld, dlHeld>>

\* A name that no file can be opened for raises, after those before it were opened
FfiLibFails(ds, ls) ==
  /\ Opens(ds, ls) /\ Len(ls) < MaxNames
  /\ UNCHANGED <<ffiLibs, attachedVars, symHeld, dlHeld>>

OpenLibrary(d, l) ==
  /\ Opens(<<d>>, <<l>>)
  /\ dlHeld' = dlHeld \cup {d}
  /\ UNCHANGED <<ffiLibs, attachedVars, symHeld>>

\* find_function, find_variable, find_symbol
SymbolIn(d, n) == [dl |-> d, name |-> n, lib |-> opened[d]]
Exporting(n) == {i \in DOMAIN ffiLibs : n \in Exports[opened[ffiLibs[i]]]}

\* attach_function: the first library that has the name; NotFoundError changes
\* nothing
AttachFunction(n) ==
  \E i \in Exporting(n) :
    /\ \A j \in Exporting(n) : i <= j
    /\ functions' = [functions EXCEPT ![n] = SymbolIn(ffiLibs[i], n)]
    /\ UNCHANGED <<opened, ffiLibs, variables, symHeld, dlHeld>>

AttachVariable(n) ==
  \E i \in Exporting(n) :
    /\ \A j \in Exporting(n) : i <= j
    /\ variables' = [variables EXCEPT ![n] = SymbolIn(ffiLibs[i], n)]
    /\ UNCHANGED <<opened, ffiLibs, functions, symHeld, dlHeld>>

FindSymbol(d, n) ==
  /\ d \in dlHeld \cup ToSet(ffiLibs) /\ n \in Exports[opened[d]]
  /\ symHeld' = symHeld \cup {SymbolIn(d, n)}
  /\ UNCHANGED <<opened, ffiLibs, attachedVars, dlHeld>>

ForgetSymbol(s) ==
  /\ symHeld' = symHeld \ {s}
  /\ UNCHANGED <<opened, ffiLibs, attachedVars, dlHeld>>
ForgetLibrary(d) ==
  /\ dlHeld' = dlHeld \ {d}
  /\ UNCHANGED <<opened, ffiLibs, attachedVars, symHeld>>

\* library_free: dlclose
SweepLibrary(d) ==
  /\ opened[d] # NotOpen /\ d \notin MarkedDl
  /\ opened' = [opened EXCEPT ![d] = NotOpen]
  /\ UNCHANGED <<ffiLibs, attachedVars, symHeld, dlHeld>>

LibNext ==
  \/ \E k \in 0..MaxNames : \E ds \in [1..k -> Dl], ls \in [1..k -> NativeLib] :
       FfiLib(ds, ls) \/ FfiLibFails(ds, ls)
  \/ \E d \in Dl, l \in NativeLib : OpenLibrary(d, l)
  \/ \E n \in Name : AttachFunction(n) \/ AttachVariable(n) \/ \E d \in Dl : FindSymbol(d, n)
  \/ \E s \in symHeld : ForgetSymbol(s)
  \/ \E d \in dlHeld : ForgetLibrary(d)
  \/ \E d \in Dl : SweepLibrary(d)

LibSpec == LibInit /\ [][LibNext]_libVars

-----------------------------------------------------------------------------
\* Type invariant
LibTypeOK ==
  /\ opened \in [Dl -> NativeLib \cup {NotOpen}]
  /\ ToSet(ffiLibs) \subseteq Dl /\ Len(ffiLibs) <= MaxNames
  /\ functions \in [Name -> Symbols \cup {NotAttached}]
  /\ variables \in [Name -> Symbols \cup {NotAttached}]
  /\ symHeld \subseteq Symbols /\ dlHeld \subseteq Dl

\* Whatever is attached or held leads into a library that is still loaded and
\* exports the name, also after ffi_lib was called again and the old
\* DynamicLibrary objects were collected (symbol_mark, library_free).
AttachedLoaded == \A s \in Attached \cup symHeld : Loaded(s.lib) /\ s.name \in Exports[s.lib]
=============================================================================
