---------------------- MODULE FunctionLifecycle_proofs ----------------------
(***************************************************************************)
(* For any number of functions, types, procs, names and closures: who owns *)
(* a trampoline, and what keeps the trampolines alive that native code and *)
(* method tables hold.                                                     *)
(*                                                                         *)
(* What the collector sees is bounded from both sides: Reachable is closed *)
(* under References (so the chains of Reachable are long enough), and is   *)
(* part of every closed set that holds what the program refers to.         *)
(***************************************************************************)
EXTENDS FunctionLifecycle, TLAPS

Base == roots \cup OnStack \cup ({funcs[n] : n \in Name} \ {None})

LEMMA RangeFacts ==
  ASSUME NEW S, NEW T, NEW f \in [S -> T]
  PROVE  Range(f) = {f[x] : x \in S}
BY DEF Range

LEMMA BaseFacts ==
  /\ TypeOK => Reachable = Mark(Mark(Mark(Base)))
  /\ TypeOK' => Reachable' = Mark(Mark(Mark(Base)))'
<1>1. TypeOK => Range(funcs) = {funcs[n] : n \in Name}
  <2>1. TypeOK => funcs \in [Name -> Func \cup {None}]
    BY DEF TypeOK
  <2> QED
    BY <2>1, RangeFacts
<1>2. TypeOK' => Range(funcs') = {funcs'[n] : n \in Name}
  <2>1. TypeOK' => funcs' \in [Name -> Func \cup {None}]
    BY DEF TypeOK
  <2> QED
    BY <2>1, RangeFacts
<1> QED
  BY <1>1, <1>2 DEF Reachable, Base

LEMMA FunctionReferences ==
  \A f \in Func : References(f) = {type[f], proc[f]} /\ References(f)' = {type'[f], proc'[f]}
BY DEF References

LEMMA ReferenceFacts ==
  /\ TypeOK =>
       /\ \A f \in Func : References(f) = {type[f], proc[f]}
       /\ \A p \in Proc : References(p) =
            {cbref[p]} \cup (IF cbtable[p] = None THEN {} ELSE {cbtable[p][t] : t \in FType})
       /\ \A t \in FType : References(t) = {}
  /\ TypeOK' =>
       /\ \A f \in Func : References(f)' = {type'[f], proc'[f]}
       /\ \A p \in Proc : References(p)' =
            {cbref'[p]} \cup (IF cbtable'[p] = None THEN {} ELSE {cbtable'[p][t] : t \in FType})
       /\ \A t \in FType : References(t)' = {}
<1>1. ASSUME TypeOK, NEW p \in Proc, cbtable[p] # None
      PROVE  Range(cbtable[p]) = {cbtable[p][t] : t \in FType}
  <2>1. cbtable[p] \in [FType -> Func \cup {None}]
    BY <1>1 DEF TypeOK
  <2> QED
    BY <2>1, RangeFacts
<1>2. ASSUME TypeOK', NEW p \in Proc, cbtable'[p] # None
      PROVE  Range(cbtable'[p]) = {cbtable'[p][t] : t \in FType}
  <2>1. cbtable'[p] \in [FType -> Func \cup {None}]
    BY <1>2 DEF TypeOK
  <2> QED
    BY <2>1, RangeFacts
<1> QED
  BY <1>1, <1>2, KindsAssumption DEF References

\* Reachable is part of every closed set that holds what the program refers to
LEMMA ReachLeast ==
  /\ TypeOK => \A S : Base \subseteq S /\ (\A x \in S : References(x) \ {None} \subseteq S)
                        => Reachable \subseteq S
  /\ TypeOK' => \A S : Base' \subseteq S /\ (\A x \in S : References(x)' \ {None} \subseteq S)
                        => Reachable' \subseteq S
<1>1. \A S, X : X \subseteq S /\ (\A x \in S : References(x) \ {None} \subseteq S)
                  => Mark(X) \subseteq S
  BY DEF Mark
<1>2. ASSUME NEW S, NEW X, X \subseteq S, \A x \in S : References(x)' \ {None} \subseteq S
      PROVE  X \cup ((UNION {References(x)' : x \in X}) \ {None}) \subseteq S
  BY <1>2
<1>3. ASSUME TypeOK', NEW S, Base' \subseteq S, \A x \in S : References(x)' \ {None} \subseteq S
      PROVE  Reachable' \subseteq S
  <2>1. Mark(Base)' \subseteq S
    BY <1>2, <1>3 DEF Mark
  <2>2. Mark(Mark(Base))' \subseteq S
    BY <1>2, <1>3, <2>1 DEF Mark
  <2>3. Mark(Mark(Mark(Base)))' \subseteq S
    BY <1>2, <1>3, <2>2 DEF Mark
  <2> QED
    BY <1>3, <2>3, BaseFacts
<1> QED
  BY <1>1, <1>3, BaseFacts

-----------------------------------------------------------------------------
(* The inductive invariant *)

PendingCall ==
  [func : Func, proc : Proc,
   saw : [ref : Func \cup {None}, table : [FType -> Func \cup {None}] \cup {None}]]

Busy == {th \in Thread : caching[th] # None}

Typed == TypeOK /\ caching \in [Thread -> PendingCall \cup {None}]

\* A function in the middle of rbffi_Function_ForProc is nobody else's yet
PendingOK ==
  \A th \in Busy :
    /\ caching[th].func \notin roots
    /\ \A n \in Name : funcs[n] # caching[th].func
    /\ type[caching[th].func] \in FType
    /\ closure[caching[th].func] = None /\ proc[caching[th].func] = None
    /\ caching[th].saw.table # None => cbtable[caching[th].proc] # None
    /\ \A u \in Busy : caching[u].func = caching[th].func => u = th

\* A cached function is seen only by its proc, so nobody frees or attaches it
CachesOK ==
  \A p \in Proc \cap Reachable : \A f \in References(p) \ {None} :
    /\ f \notin roots /\ \A n \in Name : funcs[n] # f
    /\ proc[f] = p /\ closure[f] # None

LiveOK == Reachable \subseteq live

FunctionsOK ==
  \A f \in live \cap Func :
    /\ type[f] \in FType
    /\ closure[f] # None => proc[f] \in Proc /\ closure[f] # handle[f]

MethodsOK ==
  \A n \in Name \ torn : method[n] # None => funcs[n] \in Func /\ handle[funcs[n]] = method[n]

\* A function that was passed itself
GivenOK ==
  \A g \in given : g.by \in Func =>
    g.by \in live /\ g.func = g.by /\ closure[g.by] = g.closure

Structure == Typed /\ PendingOK /\ CachesOK /\ LiveOK
Ownership == FunctionsOK /\ OneOwner /\ NoneLeaked
LifeIInv  == Structure /\ Ownership /\ MethodsOK /\ GivenOK

LEMMA CachedIsFunction ==
  /\ TypeOK => \A p \in Proc : References(p) \ {None} \subseteq Func
  /\ TypeOK' => \A p \in Proc : References(p)' \ {None} \subseteq Func
<1>1. ASSUME TypeOK, NEW p \in Proc
      PROVE  References(p) \ {None} \subseteq Func
  <2>1. cbref[p] \in Func \cup {None} /\ cbtable[p] \in [FType -> Func \cup {None}] \cup {None}
    BY <1>1 DEF TypeOK
  <2> QED
    BY <1>1, <2>1, ReferenceFacts
<1>2. ASSUME TypeOK', NEW p \in Proc
      PROVE  References(p)' \ {None} \subseteq Func
  <2>1. cbref'[p] \in Func \cup {None} /\ cbtable'[p] \in [FType -> Func \cup {None}] \cup {None}
    BY <1>2 DEF TypeOK
  <2> QED
    BY <1>2, <2>1, ReferenceFacts
<1> QED
  BY <1>1, <1>2

\* No chain of references is longer than those of Reachable
LEMMA ReachClosed ==
  ASSUME Structure
  PROVE  /\ Base \subseteq Reachable /\ Reachable \subseteq Object
         /\ \A x \in Reachable : References(x) \ {None} \subseteq Reachable
<1> DEFINE L1 == Mark(Base)
<1> DEFINE L2 == Mark(L1)
<1>0. TypeOK
  BY DEF Structure, Typed
<1>1. Reachable = Mark(L2)
  BY <1>0, BaseFacts
<1>2. /\ Base \subseteq L1 /\ L1 \subseteq L2 /\ L2 \subseteq Reachable
      /\ \A x \in Base : References(x) \ {None} \subseteq L1
      /\ \A x \in L1 : References(x) \ {None} \subseteq L2
      /\ \A x \in L2 : References(x) \ {None} \subseteq Reachable
      /\ \A x \in L1 \ Base : \E y \in Base : x \in References(y) \ {None}
      /\ \A x \in L2 \ L1 : \E y \in L1 : x \in References(y) \ {None}
      /\ \A x \in Reachable \ L2 : \E y \in L2 : x \in References(y) \ {None}
  BY <1>1 DEF Mark
<1>3. \A x \in Object : References(x) \ {None} \subseteq Object
  <2>1. \A f \in Func : {type[f], proc[f]} \ {None} \subseteq FType \cup Proc
    BY <1>0 DEF TypeOK
  <2> QED
    BY <1>0, <2>1, ReferenceFacts, CachedIsFunction DEF Object
<1>4. Base \subseteq Object
  <2>1. \A th \in Thread : caching[th] # None =>
          caching[th].func \in Object /\ caching[th].proc \in Object
    BY DEF Structure, Typed, PendingCall, Object
  <2>2. OnStack \subseteq Object
    BY <2>1 DEF OnStack
  <2>3. roots \subseteq Object /\ {funcs[n] : n \in Name} \ {None} \subseteq Object
    BY <1>0 DEF TypeOK, Object
  <2> QED
    BY <2>2, <2>3 DEF Base
<1>5. Reachable \subseteq Object
  BY <1>0, <1>3, <1>4, ReachLeast
<1> HIDE DEF L1, L2
<1>6. \A x \in Proc, y \in Object : x \in References(y) \ {None} => y \in Func /\ proc[y] = x
  <2>1. \A f \in Func : type[f] \in FType \cup {None}
    BY <1>0 DEF TypeOK
  <2> QED
    BY <1>0, <2>1, ReferenceFacts, CachedIsFunction, KindsAssumption DEF Object
<1>7. \A x \in Func, y \in Object : x \in References(y) \ {None} => y \in Proc
  <2>1. \A f \in Func : type[f] \in FType \cup {None} /\ proc[f] \in Proc \cup {None}
    BY <1>0 DEF TypeOK
  <2> QED
    BY <1>0, <2>1, ReferenceFacts, KindsAssumption DEF Object
<1>8. \A x \in Func, y \in Proc \cap Reachable : x \in References(y) \ {None} => proc[x] = y
  BY DEF Structure, CachesOK
<1>9. ASSUME NEW x \in Reachable
      PROVE  References(x) \ {None} \subseteq Reachable
  <2>1. CASE x \in FType
    BY <1>0, <2>1, ReferenceFacts
  <2>2. CASE x \in Proc
    <3>1. CASE x \notin L2
      <4>1. PICK y \in L2 : x \in References(y) \ {None}
        BY <1>2, <3>1
      <4>2. y \in Func /\ proc[y] = x
        BY <1>2, <1>5, <1>6, <2>2, <4>1
      <4>3. CASE y \notin L1
        <5>1. PICK z \in L1 : y \in References(z) \ {None}
          BY <1>2, <4>3
        <5>2. z \in Proc /\ proc[y] = z
          BY <1>2, <1>5, <1>7, <1>8, <4>2, <5>1
        <5> QED
          BY <1>2, <4>2, <5>1, <5>2
      <4>4. CASE y \in L1
        BY <1>2, <4>1, <4>4
      <4> QED
        BY <4>3, <4>4
    <3> QED
      BY <1>2, <3>1
  <2>3. CASE x \in Func
    <3>1. CASE x \notin L2
      <4>1. PICK y \in L2 : x \in References(y) \ {None}
        BY <1>2, <3>1
      <4>2. y \in Proc /\ y \notin L1
        BY <1>2, <1>5, <1>7, <2>3, <3>1, <4>1
      <4>3. PICK z \in L1 : y \in References(z) \ {None}
        BY <1>2, <4>2
      <4>4. z \in Func /\ proc[z] = y
        BY <1>2, <1>5, <1>6, <4>2, <4>3
      <4>5. z \notin Base
        BY <1>2, <4>2, <4>3
      <4>6. PICK w \in Base : z \in References(w) \ {None}
        BY <1>2, <4>5
      <4>7. w \in Proc /\ proc[z] = w
        BY <1>2, <1>5, <1>7, <1>8, <4>4, <4>6
      <4> QED
        BY <1>2, <4>2, <4>4, <4>6, <4>7
    <3> QED
      BY <1>2, <3>1
  <2> QED
    BY <1>5, <2>1, <2>2, <2>3 DEF Object
<1> QED
  BY <1>2, <1>5, <1>9

LEMMA InitLife == Init => LifeIInv
<1> SUFFICES ASSUME Init
             PROVE  LifeIInv
  OBVIOUS
<1>1. Typed
  <2>1. TypeOK
    BY DEF Init, TypeOK, Object
  <2> QED
    BY <2>1 DEF Init, Typed
<1>2. Reachable \subseteq FType \cup Proc
  <2>1. Base \subseteq FType \cup Proc
    BY DEF Init, Base, OnStack
  <2>2. \A x \in FType \cup Proc : References(x) \ {None} = {}
    BY <1>1, ReferenceFacts DEF Typed, Init
  <2> QED
    BY <1>1, <2>1, <2>2, ReachLeast DEF Typed
<1>3. PendingOK /\ CachesOK
  <2>1. \A x \in Proc : References(x) \ {None} = {}
    BY <1>1, ReferenceFacts DEF Typed, Init
  <2> QED
    BY <2>1 DEF Init, PendingOK, Busy, CachesOK
<1>4. LiveOK
  BY <1>2 DEF Init, LiveOK
<1>5. FunctionsOK /\ OneOwner /\ NoneLeaked
  BY KindsAssumption DEF Init, FunctionsOK, OneOwner, NoneLeaked
<1>6. MethodsOK /\ GivenOK
  BY DEF Init, MethodsOK, GivenOK
<1> QED
  BY <1>1, <1>3, <1>4, <1>5, <1>6 DEF LifeIInv, Structure, Ownership

-----------------------------------------------------------------------------
(* What a step reaches *)

LEMMA ReachStep ==
  ASSUME Structure, TypeOK', NEW N, Base' \subseteq Reachable \cup N,
         \A x \in Reachable \cup N : References(x)' \ {None} \subseteq Reachable \cup N
  PROVE  Reachable' \subseteq Reachable \cup N
BY ReachLeast

LEMMA StackFacts ==
  /\ \A x : x \in OnStack <=> \E th \in Busy : x = caching[th].func \/ x = caching[th].proc
  /\ \A x : x \in OnStack' <=> \E th \in Busy' : x = caching'[th].func \/ x = caching'[th].proc
BY DEF OnStack, Busy

\* Steps that make nothing and store nothing in a cache
LEMMA QuietStructure ==
  ASSUME Structure, Typed', UNCHANGED <<cbref, cbtable, caching>>,
         roots' \subseteq Reachable,
         \A n \in Name : funcs'[n] # None => funcs'[n] \in Reachable,
         Reachable \subseteq live',
         \A f \in Reachable \cap Func : type'[f] = type[f] /\ proc'[f] = proc[f],
         \A f \in roots' : f \notin roots => \E n \in Name : funcs[n] = f,
         \A n \in Name : funcs'[n] = funcs[n] \/ funcs'[n] \in roots,
         \A f \in Func : closure'[f] = closure[f] \/ f \in roots \/ f \notin Reachable
  PROVE  Structure' /\ Reachable' \subseteq Reachable
<1>1. TypeOK /\ TypeOK'
  BY DEF Structure, Typed
<1>2. \A x \in Reachable : References(x)' \ {None} \subseteq Reachable
  <2>1. \A x \in Reachable \cap Func : References(x)' = References(x)
    BY FunctionReferences
  <2>2. \A x \in FType \cup Proc : References(x)' = References(x)
    BY KindsAssumption DEF References
  <2> QED
    BY <2>1, <2>2, ReachClosed DEF Object
<1>3. OnStack' = OnStack
  BY DEF OnStack
<1>4. Reachable' \subseteq Reachable
  BY <1>1, <1>2, <1>3, ReachClosed, ReachLeast DEF Base
<1>5. \A p \in Proc : References(p)' = References(p)
  BY KindsAssumption DEF References
<1>6. CachesOK'
  <2>1. ASSUME NEW p \in Proc \cap Reachable, NEW f \in References(p) \ {None}
        PROVE  /\ f \notin roots' /\ \A n \in Name : funcs'[n] # f
               /\ proc'[f] = p /\ closure'[f] # None
    <3>1. f \in Func /\ f \in Reachable
      BY <1>1, ReachClosed, CachedIsFunction
    <3>2. f \notin roots /\ (\A n \in Name : funcs[n] # f) /\ proc[f] = p /\ closure[f] # None
      BY DEF Structure, CachesOK
    <3> QED
      BY <3>1, <3>2
  <2> QED
    BY <1>4, <1>5, <2>1 DEF CachesOK
<1>7. PendingOK'
  <2>1. ASSUME NEW th \in Busy
        PROVE  /\ caching[th].func \notin roots' /\ \A n \in Name : funcs'[n] # caching[th].func
               /\ type'[caching[th].func] \in FType
               /\ closure'[caching[th].func] = None /\ proc'[caching[th].func] = None
    <3>1. caching[th].func \in Func /\ caching[th].func \in Reachable
      <4>1. caching[th].func \in Func
        BY DEF Structure, Typed, Busy, PendingCall
      <4> QED
        BY <4>1, StackFacts, ReachClosed DEF Base
    <3> QED
      BY <3>1 DEF Structure, PendingOK
  <2>2. Busy' = Busy
    BY DEF Busy
  <2> QED
    BY <2>1, <2>2 DEF Structure, PendingOK
<1>8. LiveOK'
  BY <1>4 DEF LiveOK
<1> QED
  BY <1>4, <1>6, <1>7, <1>8 DEF Structure

-----------------------------------------------------------------------------
(* Making a function *)

\* What MakeFunction does, field by field
Made(f, t, p, c) ==
  /\ f \notin live /\ live' = live \cup {f}
  /\ type' \in [Func -> FType \cup {None}] /\ proc' \in [Func -> Proc \cup {None}]
  /\ closure' \in [Func -> Closure \cup {None}]
  /\ handle' \in [Func -> Closures(Default) \cup {None}]
  /\ autorelease' \in [Func -> BOOLEAN]
  /\ address' = [address EXCEPT ![f] = c] /\ function' = function
  /\ held' \subseteq Closure /\ info' \in [Closure -> Func \cup {None}]
  /\ type'[f] = t /\ proc'[f] = p /\ closure'[f] = c /\ handle'[f] = None
  /\ \A g \in Func \ {f} : /\ type'[g] = type[g] /\ proc'[g] = proc[g]
                          /\ closure'[g] = closure[g] /\ handle'[g] = handle[g]
  /\ c = None => held' = held /\ info' = info
  /\ c # None => /\ c \in Closure \ held /\ held' = held \cup {c} /\ info'[c] = f
                 /\ \A d \in Closure \ {c} : info'[d] = info[d]

LEMMA MakeFacts ==
  ASSUME TypeOK, NEW f \in Func, NEW t \in FType, NEW p \in Proc \cup {None},
         NEW c \in Closures(t) \cup {None}, MakeFunction(f, t, p, c)
  PROVE  Made(f, t, p, c)
<1>1. c \in Closure \cup {None}
  BY DEF Closures
<1>2. /\ type' = [type EXCEPT ![f] = t] /\ proc' = [proc EXCEPT ![f] = p]
      /\ closure' = [closure EXCEPT ![f] = c] /\ handle' = [handle EXCEPT ![f] = None]
      /\ autorelease' = [autorelease EXCEPT ![f] = TRUE]
      /\ address' = [address EXCEPT ![f] = c] /\ function' = function
      /\ f \notin live /\ live' = live \cup {f}
  BY DEF MakeFunction
<1>3. /\ type' \in [Func -> FType \cup {None}] /\ proc' \in [Func -> Proc \cup {None}]
      /\ closure' \in [Func -> Closure \cup {None}]
      /\ handle' \in [Func -> Closures(Default) \cup {None}]
      /\ autorelease' \in [Func -> BOOLEAN]
  BY <1>1, <1>2 DEF TypeOK
<1>4. /\ type'[f] = t /\ proc'[f] = p /\ closure'[f] = c /\ handle'[f] = None
      /\ \A g \in Func \ {f} : /\ type'[g] = type[g] /\ proc'[g] = proc[g]
                              /\ closure'[g] = closure[g] /\ handle'[g] = handle[g]
  BY <1>2 DEF TypeOK
<1>5. c = None => held' = held /\ info' = info
  BY DEF MakeFunction
<1>6. ASSUME c # None
      PROVE  /\ c \in Closure \ held /\ held' = held \cup {c} /\ info'[c] = f
             /\ info' \in [Closure -> Func \cup {None}]
             /\ \A d \in Closure \ {c} : info'[d] = info[d]
  <2>1. c \in Closures(t) \ held /\ held' = held \cup {c} /\ info' = [info EXCEPT ![c] = f]
    BY <1>6 DEF MakeFunction
  <2> QED
    BY <1>1, <1>6, <2>1 DEF TypeOK
<1>7. held' \subseteq Closure /\ info' \in [Closure -> Func \cup {None}]
  BY <1>5, <1>6 DEF TypeOK
<1> QED
  BY <1>2, <1>3, <1>4, <1>5, <1>6, <1>7 DEF Made

\* A function for the program, or for nobody
LEMMA MadeStructure ==
  ASSUME Structure, Typed', NEW f \in Func, NEW t \in roots, NEW p \in roots \cup {None}, NEW c,
         Made(f, t, p, c), roots' \subseteq roots \cup {f},
         UNCHANGED <<cbref, cbtable, caching, funcs>>
  PROVE  Structure' /\ Reachable' \subseteq Reachable \cup {f}
<1>1. TypeOK /\ TypeOK' /\ LiveOK
  BY DEF Structure, Typed
<1>2. f \notin Reachable /\ roots \subseteq Reachable
  BY <1>1, ReachClosed DEF Made, LiveOK, Base
<1>3. \A x \in Reachable \cup {f} : References(x)' \ {None} \subseteq Reachable \cup {f}
  <2>1. \A x \in Reachable : References(x)' = References(x)
    <3>1. \A g \in Func : g # f => References(g)' = References(g)
      BY FunctionReferences DEF Made
    <3>2. \A q \in Proc : References(q)' = References(q)
      BY KindsAssumption DEF References
    <3>3. \A u \in FType : References(u)' = References(u)
      BY KindsAssumption DEF References
    <3> QED
      BY <1>2, <3>1, <3>2, <3>3, ReachClosed DEF Object
  <2>2. References(f)' \ {None} \subseteq Reachable
    BY <1>1, <1>2, ReferenceFacts DEF Made
  <2> QED
    BY <2>1, <2>2, ReachClosed
<1>4. Base' \subseteq Reachable \cup {f}
  <2>1. OnStack' = OnStack
    BY DEF OnStack
  <2> QED
    BY <1>2, <2>1, ReachClosed DEF Base
<1>5. Reachable' \subseteq Reachable \cup {f}
  BY <1>1, <1>3, <1>4, ReachStep
<1>6. CachesOK'
  <2>1. \A q \in Proc : References(q)' = References(q)
    BY KindsAssumption DEF References
  <2>2. Proc \cap Reachable' \subseteq Proc \cap Reachable
    BY <1>5, KindsAssumption
  <2>3. ASSUME NEW q \in Proc \cap Reachable, NEW g \in References(q) \ {None}
        PROVE  /\ g \notin roots' /\ \A n \in Name : funcs'[n] # g
               /\ proc'[g] = q /\ closure'[g] # None
    <3>1. g \in Func /\ g # f
      BY <1>1, <1>2, ReachClosed, CachedIsFunction
    <3>2. g \notin roots /\ (\A n \in Name : funcs[n] # g) /\ proc[g] = q /\ closure[g] # None
      BY DEF Structure, CachesOK
    <3> QED
      BY <3>1, <3>2 DEF Made
  <2> QED
    BY <2>1, <2>2, <2>3 DEF CachesOK
<1>7. PendingOK'
  <2>1. ASSUME NEW th \in Busy
        PROVE  caching[th].func \in Func \ {f}
    <3>1. caching[th].func \in Func
      BY DEF Structure, Typed, Busy, PendingCall
    <3> QED
      BY <1>2, <3>1, StackFacts, ReachClosed DEF Base
  <2>2. Busy' = Busy
    BY DEF Busy
  <2> QED
    BY <2>1, <2>2 DEF Structure, PendingOK, Made
<1>8. LiveOK'
  BY <1>1, <1>5 DEF LiveOK, Made
<1> QED
  BY <1>5, <1>6, <1>7, <1>8 DEF Structure

-----------------------------------------------------------------------------
(* Storing a function in the cache of a proc *)

LEMMA StoreFacts ==
  ASSUME TypeOK, NEW p \in Proc, NEW t \in FType, NEW f \in Func, NEW saw,
         saw.table # None => cbtable[p] # None, StoreInCache(p, t, f, saw)
  PROVE  /\ cbref' \in [Proc -> Func \cup {None}]
         /\ cbtable' \in [Proc -> [FType -> Func \cup {None}] \cup {None}]
         /\ \A q \in Proc : cbtable[q] # None => cbtable'[q] # None
         /\ \A q \in Proc : References(q)' \subseteq References(q) \cup (IF q = p THEN {f, None} ELSE {})
<1>1. /\ cbref \in [Proc -> Func \cup {None}]
      /\ cbtable \in [Proc -> [FType -> Func \cup {None}] \cup {None}]
  BY DEF TypeOK
<1>2. CASE saw.ref = None
  <2>1. cbref' = [cbref EXCEPT ![p] = f] /\ cbtable' = cbtable
    BY <1>2 DEF StoreInCache
  <2>2. \A q \in Proc : References(q)' \subseteq References(q) \cup (IF q = p THEN {f, None} ELSE {})
    BY <1>1, <2>1, KindsAssumption DEF References
  <2> QED
    BY <1>1, <2>1, <2>2
<1>3. CASE saw.ref # None
  <2> DEFINE table == IF saw.table = None
                        THEN [[u \in FType |-> None] EXCEPT ![t] = f]
                        ELSE [cbtable[p] EXCEPT ![t] = f]
  <2>1. cbref' = cbref /\ cbtable' = [cbtable EXCEPT ![p] = table]
    BY <1>1, <1>3 DEF StoreInCache
  <2>2. saw.table # None => cbtable[p] \in [FType -> Func \cup {None}]
    BY <1>1
  <2>3. table \in [FType -> Func \cup {None}] /\ table # None
    <3>1. table \in [FType -> Func \cup {None}]
      BY <2>2
    <3> QED
      BY <3>1, NoneAssumption
  <2>4. Range(table) = {table[u] : u \in FType}
    <3> HIDE DEF table
    <3> QED
      BY <2>3, RangeFacts
  <2>5. \A u \in FType : table[u] # f => table[u] = None \/ (saw.table # None /\ table[u] = cbtable[p][u])
    BY <2>2
  <2>6. saw.table # None => Range(cbtable[p]) = {cbtable[p][u] : u \in FType}
    BY <2>2, RangeFacts
  <2> HIDE DEF table
  <2>7. cbtable' \in [Proc -> [FType -> Func \cup {None}] \cup {None}] /\ cbtable'[p] = table
        /\ \A q \in Proc \ {p} : cbtable'[q] = cbtable[q]
    BY <1>1, <2>1, <2>3
  <2>8. References(p)' \subseteq References(p) \cup {f, None}
    <3>1. References(p)' = {cbref[p]} \cup Range(table)
      BY <2>1, <2>3, <2>7, KindsAssumption DEF References
    <3>2. References(p) = {cbref[p]} \cup (IF cbtable[p] = None THEN {} ELSE Range(cbtable[p]))
      BY KindsAssumption DEF References
    <3> QED
      BY <2>4, <2>5, <2>6, <3>1, <3>2
  <2>9. \A q \in Proc \ {p} : References(q)' = References(q)
    BY <2>1, <2>7, KindsAssumption DEF References
  <2> QED
    BY <1>1, <2>1, <2>3, <2>7, <2>8, <2>9
<1> QED
  BY <1>2, <1>3

LEMMA StoredStructure ==
  ASSUME Structure, Typed', NEW f \in Func, NEW p \in Proc \cap Reachable,
         type'[f] \in FType \cap Reachable, proc'[f] = p, closure'[f] # None,
         f \notin roots, \A n \in Name : funcs[n] # f, f \in Reachable => proc[f] = None,
         UNCHANGED <<roots, funcs>>, live' = live \cup {f},
         \A g \in Func \ {f} : type'[g] = type[g] /\ proc'[g] = proc[g] /\ closure'[g] = closure[g],
         \A q \in Proc : References(q)' \subseteq References(q) \cup (IF q = p THEN {f, None} ELSE {}),
         \A q \in Proc : cbtable[q] # None => cbtable'[q] # None,
         \A th \in Busy' : th \in Busy /\ caching'[th] = caching[th] /\ caching[th].func # f
  PROVE  Structure' /\ Reachable' \subseteq Reachable \cup {f}
<1>1. TypeOK /\ TypeOK' /\ LiveOK
  BY DEF Structure, Typed
<1>2. \A x \in Reachable \cup {f} : References(x)' \ {None} \subseteq Reachable \cup {f}
  <2>1. \A g \in Func : g # f => References(g)' = References(g)
    BY FunctionReferences
  <2>2. References(f)' \subseteq Reachable
    BY <1>1, ReferenceFacts
  <2>3. \A u \in FType : References(u)' = {}
    BY <1>1, ReferenceFacts
  <2> QED
    BY <2>1, <2>2, <2>3, ReachClosed DEF Object
<1>3. Base' \subseteq Reachable \cup {f}
  <2>1. OnStack' \subseteq OnStack
    BY StackFacts
  <2> QED
    BY <2>1, ReachClosed DEF Base
<1>4. Reachable' \subseteq Reachable \cup {f}
  BY <1>1, <1>2, <1>3, ReachStep
<1>5. CachesOK'
  <2>1. Proc \cap Reachable' \subseteq Proc \cap Reachable
    BY <1>4, KindsAssumption
  <2>2. ASSUME NEW q \in Proc \cap Reachable, NEW g \in References(q)' \ {None}
        PROVE  /\ g \notin roots' /\ \A n \in Name : funcs'[n] # g
               /\ proc'[g] = q /\ closure'[g] # None
    <3>1. CASE g \in References(q)
      <4>1. g \notin roots /\ (\A n \in Name : funcs[n] # g) /\ proc[g] = q /\ closure[g] # None
        BY <3>1 DEF Structure, CachesOK
      <4>2. g \in Func /\ g \in Reachable
        BY <1>1, <3>1, ReachClosed, CachedIsFunction
      <4>3. g # f
        BY <4>1, <4>2, NoneAssumption DEF Object
      <4> QED
        BY <4>1, <4>2, <4>3
    <3>2. CASE g \notin References(q)
      <4>1. q = p /\ g = f
        BY <3>2
      <4> QED
        BY <4>1
    <3> QED
      BY <3>1, <3>2
  <2> QED
    BY <2>1, <2>2 DEF CachesOK
<1>6. PendingOK'
  <2>1. \A th \in Busy : caching[th].func \in Func /\ caching[th].proc \in Proc
    BY DEF Structure, Typed, Busy, PendingCall
  <2> QED
    BY <2>1 DEF Structure, PendingOK
<1>7. LiveOK'
  BY <1>1, <1>4 DEF LiveOK
<1> QED
  BY <1>4, <1>5, <1>6, <1>7 DEF Structure

-----------------------------------------------------------------------------
(* The structure after each step *)

LEMMA MadeTyped ==
  ASSUME Typed, NEW f \in Func, NEW t, NEW p, NEW c, Made(f, t, p, c),
         roots' \subseteq roots \cup {f},
         cbref' \in [Proc -> Func \cup {None}],
         cbtable' \in [Proc -> [FType -> Func \cup {None}] \cup {None}],
         caching' \in [Thread -> PendingCall \cup {None}], ready' \in BOOLEAN,
         given' \subseteq [closure : Closure, func : Func, by : Func \cup Proc],
         UNCHANGED <<funcs, method, torn, kept>>
  PROVE  Typed'
<1>1. c \in Closure \cup {None}
  BY DEF Made
<1>2. address' \in [Func -> Closure \cup {None}]
      /\ function' \in [Closures(Default) -> Closure \cup {None}]
  BY <1>1 DEF Typed, TypeOK, Made
<1> QED
  BY <1>2 DEF Typed, TypeOK, Made, Object

LEMMA NewStructure ==
  ASSUME Structure, NEW f \in Func, NEW t \in FType, NEW p \in Proc \cup {None},
         NEW c \in Closures(t) \cup {None}, MakeFunction(f, t, p, c),
         t \in roots, p \in roots \cup {None}, roots' \subseteq roots \cup {f}, ready' \in BOOLEAN,
         UNCHANGED <<cbref, cbtable, caching, funcs, method, torn, given, kept>>
  PROVE  /\ Made(f, t, p, c) /\ Structure' /\ Reachable' \subseteq Reachable \cup {f}
         /\ \A q \in Proc : References(q)' = References(q)
<1>1. Typed /\ TypeOK
  BY DEF Structure, Typed
<1>2. Made(f, t, p, c)
  BY <1>1, MakeFacts
<1>3. /\ cbref' \in [Proc -> Func \cup {None}]
      /\ cbtable' \in [Proc -> [FType -> Func \cup {None}] \cup {None}]
      /\ caching' \in [Thread -> PendingCall \cup {None}]
      /\ given' \subseteq [closure : Closure, func : Func, by : Func \cup Proc]
  BY <1>1 DEF Typed, TypeOK
<1>4. Typed'
  BY <1>1, <1>2, <1>3, MadeTyped
<1>5. Structure' /\ Reachable' \subseteq Reachable \cup {f}
  BY <1>2, <1>4, MadeStructure
<1>6. \A q \in Proc : References(q)' = References(q)
  BY KindsAssumption DEF References
<1> QED
  BY <1>2, <1>5, <1>6

LEMMA PassStructure ==
  ASSUME Structure, NEW p \in Proc, NEW t \in FType, NEW f \in Func, NEW c \in Closures(t),
         PassProc(p, t, f, c)
  PROVE  Made(f, t, p, c) /\ Structure' /\ Reachable' \subseteq Reachable \cup {f}
<1>1. Typed /\ TypeOK /\ LiveOK
  BY DEF Structure, Typed
<1>2. Made(f, t, p, c)
  BY <1>1, MakeFacts DEF PassProc
<1>3. StoreInCache(p, t, f, Seen(p)) /\ (Seen(p).table # None => cbtable[p] # None)
  BY DEF PassProc, Seen
<1>4. /\ cbref' \in [Proc -> Func \cup {None}]
      /\ cbtable' \in [Proc -> [FType -> Func \cup {None}] \cup {None}]
      /\ \A q \in Proc : cbtable[q] # None => cbtable'[q] # None
      /\ \A q \in Proc : References(q)' \subseteq References(q) \cup (IF q = p THEN {f, None} ELSE {})
  BY <1>1, <1>3, StoreFacts
<1>5. given' \subseteq [closure : Closure, func : Func, by : Func \cup Proc]
  <2>1. given' = given \cup {[closure |-> c, func |-> f, by |-> p]} /\ c \in Closure
    BY <1>2 DEF PassProc, Give, Closures, Made
  <2> QED
    BY <1>1, <2>1 DEF TypeOK
<1>6. UNCHANGED <<roots, ready, caching, funcs, method, torn, kept>> /\ {t, p} \subseteq roots /\ c # None
  BY DEF PassProc
<1>7. Typed'
  <2>1. caching' \in [Thread -> PendingCall \cup {None}] /\ ready' \in BOOLEAN
    BY <1>1, <1>6 DEF Typed, TypeOK
  <2> QED
    BY <1>1, <1>2, <1>4, <1>5, <1>6, <2>1, MadeTyped
<1>8. {t, p} \subseteq Reachable /\ f \notin Reachable
  BY <1>1, <1>2, <1>6, ReachClosed DEF Base, LiveOK, Made
<1>9. f \notin roots /\ \A n \in Name : funcs[n] # f
  BY <1>8, NoneAssumption, ReachClosed DEF Base, Object
<1>10. \A th \in Busy' : th \in Busy /\ caching'[th] = caching[th] /\ caching[th].func # f
  BY <1>6, <1>8, StackFacts, ReachClosed DEF Base, Busy
<1>11. Structure' /\ Reachable' \subseteq Reachable \cup {f}
  BY <1>2, <1>4, <1>6, <1>7, <1>8, <1>9, <1>10, StoredStructure DEF Made
<1> QED
  BY <1>2, <1>11

LEMMA BeginStructure ==
  ASSUME Structure, NEW th \in Thread, NEW p \in Proc, NEW t \in FType, NEW f \in Func,
         BeginPassProc(th, p, t, f)
  PROVE  /\ Made(f, t, None, None) /\ Structure' /\ Reachable' \subseteq Reachable \cup {f}
         /\ \A q \in Proc : References(q)' = References(q)
<1>1. Typed /\ TypeOK /\ LiveOK
  BY DEF Structure, Typed
<1>2. Made(f, t, None, None)
  BY <1>1, MakeFacts DEF BeginPassProc
<1>3. /\ {t, p} \subseteq roots /\ caching[th] = None
      /\ UNCHANGED <<roots, cbref, cbtable, ready, funcs, method, torn, given, kept>>
      /\ caching' = [caching EXCEPT ![th] = [func |-> f, proc |-> p, saw |-> Seen(p)]]
  BY DEF BeginPassProc
<1>4. [func |-> f, proc |-> p, saw |-> Seen(p)] \in PendingCall
  BY <1>1 DEF TypeOK, Seen, PendingCall
<1>5. Typed'
  <2>1. /\ cbref' \in [Proc -> Func \cup {None}]
        /\ cbtable' \in [Proc -> [FType -> Func \cup {None}] \cup {None}]
        /\ ready' \in BOOLEAN
        /\ given' \subseteq [closure : Closure, func : Func, by : Func \cup Proc]
    BY <1>1, <1>3 DEF TypeOK
  <2>2. caching' \in [Thread -> PendingCall \cup {None}]
    BY <1>1, <1>3, <1>4 DEF Typed
  <2> QED
    BY <1>1, <1>2, <1>3, <2>1, <2>2, MadeTyped
<1>6. f \notin Reachable /\ roots \subseteq Reachable
  BY <1>1, <1>2, ReachClosed DEF Made, LiveOK, Base
<1>7. \A q \in Proc : References(q)' = References(q)
  BY <1>3, KindsAssumption DEF References
<1>8. \A x \in Reachable \cup {f} : References(x)' \ {None} \subseteq Reachable \cup {f}
  <2>1. \A g \in Func : g # f => References(g)' = References(g)
    BY <1>2, FunctionReferences DEF Made
  <2>2. References(f)' \ {None} \subseteq Reachable
    BY <1>2, <1>3, <1>5, <1>6, ReferenceFacts DEF Made, Typed
  <2>3. \A u \in FType : References(u)' = References(u)
    BY KindsAssumption DEF References
  <2> QED
    BY <1>7, <2>1, <2>2, <2>3, ReachClosed DEF Object
<1>9. \A u \in Busy' : \/ u = th /\ caching'[u] = [func |-> f, proc |-> p, saw |-> Seen(p)]
                       \/ u \in Busy /\ u # th /\ caching'[u] = caching[u]
  BY <1>1, <1>3 DEF Typed, Busy
<1>10. Reachable' \subseteq Reachable \cup {f}
  <2>1. OnStack' \subseteq OnStack \cup {f, p}
    BY <1>9, StackFacts
  <2>2. Base' \subseteq Reachable \cup {f}
    BY <1>3, <1>6, <2>1, ReachClosed DEF Base
  <2> QED
    BY <1>5, <1>8, <2>2, ReachStep DEF Typed
<1>11. CachesOK'
  <2>1. Proc \cap Reachable' \subseteq Proc \cap Reachable
    BY <1>10, KindsAssumption
  <2>2. ASSUME NEW q \in Proc \cap Reachable, NEW g \in References(q) \ {None}
        PROVE  /\ g \notin roots' /\ \A n \in Name : funcs'[n] # g
               /\ proc'[g] = q /\ closure'[g] # None
    <3>1. g \in Func /\ g # f
      BY <1>1, <1>6, ReachClosed, CachedIsFunction
    <3>2. g \notin roots /\ (\A n \in Name : funcs[n] # g) /\ proc[g] = q /\ closure[g] # None
      BY DEF Structure, CachesOK
    <3> QED
      BY <1>2, <1>3, <3>1, <3>2 DEF Made
  <2> QED
    BY <1>7, <2>1, <2>2 DEF CachesOK
<1>12. PendingOK'
  <2>1. \A u \in Busy : caching[u].func \in Func \ {f}
    BY <1>1, <1>6, StackFacts, ReachClosed DEF Base, Typed, Busy, PendingCall
  <2>2. f \notin roots' /\ \A n \in Name : funcs'[n] # f
    BY <1>3, <1>6, NoneAssumption, ReachClosed DEF Base, Object
  <2>3. Seen(p).table # None => cbtable'[p] # None
    BY <1>3 DEF Seen
  <2>4. ASSUME NEW u \in Busy', u \in Busy, u # th, caching'[u] = caching[u]
        PROVE  /\ caching'[u].func \notin roots'
               /\ \A n \in Name : funcs'[n] # caching'[u].func
               /\ type'[caching'[u].func] \in FType
               /\ closure'[caching'[u].func] = None /\ proc'[caching'[u].func] = None
               /\ caching'[u].saw.table # None => cbtable'[caching'[u].proc] # None
    BY <1>2, <1>3, <2>1, <2>4 DEF Structure, PendingOK, Made
  <2>5. \A u, w \in Busy' : caching'[w].func = caching'[u].func => w = u
    BY <1>9, <2>1 DEF Structure, PendingOK
  <2>6. ASSUME NEW u \in Busy', u = th, caching'[u] = [func |-> f, proc |-> p, saw |-> Seen(p)]
        PROVE  /\ caching'[u].func \notin roots'
               /\ \A n \in Name : funcs'[n] # caching'[u].func
               /\ type'[caching'[u].func] \in FType
               /\ closure'[caching'[u].func] = None /\ proc'[caching'[u].func] = None
               /\ caching'[u].saw.table # None => cbtable'[caching'[u].proc] # None
    BY <1>2, <2>2, <2>3, <2>6 DEF Made
  <2> QED
    BY <1>9, <2>4, <2>5, <2>6 DEF PendingOK
<1>13. LiveOK'
  BY <1>1, <1>2, <1>10 DEF LiveOK, Made
<1> QED
  BY <1>2, <1>5, <1>7, <1>10, <1>11, <1>12, <1>13 DEF Structure

LEMMA EndStructure ==
  ASSUME Structure, NEW th \in Thread, NEW c \in Closure, EndPassProc(th, c)
  PROVE  LET f == caching[th].func  p == caching[th].proc
         IN  /\ Structure' /\ Reachable' \subseteq Reachable
             /\ f \in Func \cap Reachable /\ p \in Proc \cap Reachable
             /\ type[f] \in FType /\ closure[f] = None /\ proc[f] = None
<1> DEFINE f == caching[th].func
<1> DEFINE p == caching[th].proc
<1>1. Typed /\ TypeOK /\ LiveOK
  BY DEF Structure, Typed
<1>2. th \in Busy /\ caching[th] \in PendingCall
  BY <1>1 DEF EndPassProc, Busy, Typed
<1>3. f \in Func /\ p \in Proc
  BY <1>2 DEF PendingCall
<1>4. {f, p} \subseteq Reachable /\ f \in live
  BY <1>1, <1>2, StackFacts, ReachClosed DEF Base, LiveOK
<1>5. /\ f \notin roots /\ \A n \in Name : funcs[n] # f
      /\ type[f] \in FType /\ closure[f] = None /\ proc[f] = None
      /\ caching[th].saw.table # None => cbtable[p] # None
      /\ \A u \in Busy : caching[u].func = f => u = th
  BY <1>2 DEF Structure, PendingOK
<1> HIDE DEF f, p
<1>6. /\ c \in Closures(type[f]) \ held
      /\ held' = held \cup {c}
      /\ info' = [info EXCEPT ![c] = f]
      /\ closure' = [closure EXCEPT ![f] = c]
      /\ address' = [address EXCEPT ![f] = c]
      /\ autorelease' = [autorelease EXCEPT ![f] = TRUE]
      /\ proc' = [proc EXCEPT ![f] = p]
      /\ StoreInCache(p, type[f], f, caching[th].saw)
      /\ ready' = TRUE
      /\ caching' = [caching EXCEPT ![th] = None]
      /\ Give(c, p)
      /\ UNCHANGED <<live, roots, type, handle, function, funcs, method, torn, kept>>
  BY DEF EndPassProc, f, p
<1>7. /\ cbref' \in [Proc -> Func \cup {None}]
      /\ cbtable' \in [Proc -> [FType -> Func \cup {None}] \cup {None}]
      /\ \A q \in Proc : cbtable[q] # None => cbtable'[q] # None
      /\ \A q \in Proc : References(q)' \subseteq References(q) \cup (IF q = p THEN {f, None} ELSE {})
  BY <1>1, <1>3, <1>5, <1>6, StoreFacts
<1>8. Typed'
  <2>1. caching' \in [Thread -> PendingCall \cup {None}]
    BY <1>1, <1>6 DEF Typed
  <2>2. closure' \in [Func -> Closure \cup {None}] /\ proc' \in [Func -> Proc \cup {None}]
        /\ autorelease' \in [Func -> BOOLEAN] /\ info' \in [Closure -> Func \cup {None}]
        /\ held' \subseteq Closure
    BY <1>1, <1>3, <1>6 DEF TypeOK
  <2>3. given' \subseteq [closure : Closure, func : Func, by : Func \cup Proc]
    <3>1. info'[c] = f
      BY <1>1, <1>6 DEF TypeOK
    <3>2. given' = given \cup {[closure |-> c, func |-> f, by |-> p]}
      BY <1>6, <3>1 DEF Give
    <3> QED
      BY <1>1, <1>3, <3>2 DEF TypeOK
  <2> QED
    BY <1>1, <1>6, <1>7, <2>1, <2>2, <2>3 DEF Typed, TypeOK
<1>9. proc'[f] = p /\ closure'[f] = c /\ type'[f] = type[f]
      /\ \A g \in Func \ {f} : type'[g] = type[g] /\ proc'[g] = proc[g] /\ closure'[g] = closure[g]
  BY <1>1, <1>3, <1>6 DEF TypeOK
<1>10. type[f] \in Reachable /\ c # None
  <2>1. type[f] # None /\ c # None
    BY <1>5, NoneAssumption DEF Object
  <2>2. type[f] \in References(f)
    BY <1>3, FunctionReferences
  <2> QED
    BY <1>4, <2>1, <2>2, ReachClosed
<1>11. \A u \in Busy' : u \in Busy /\ caching'[u] = caching[u] /\ caching[u].func # f
  <2>1. \A u \in Thread : caching'[u] = IF u = th THEN None ELSE caching[u]
    BY <1>1, <1>6 DEF Typed
  <2> QED
    BY <1>5, <2>1 DEF Busy
<1>12. Structure' /\ Reachable' \subseteq Reachable \cup {f}
  <2>1. type'[f] \in FType \cap Reachable /\ closure'[f] # None /\ live' = live \cup {f}
    BY <1>4, <1>5, <1>6, <1>9, <1>10
  <2> QED
    BY <1>3, <1>4, <1>5, <1>6, <1>7, <1>8, <1>9, <1>11, <2>1, StoredStructure
<1> QED
  BY <1>3, <1>4, <1>5, <1>12 DEF f, p

\* What a proc has cached is a live function of its own, whose trampoline leads to it
LEMMA CachedFacts ==
  ASSUME Structure, NEW p \in Proc, NEW t \in FType, Cached(p, t) # None
  PROVE  /\ Cached(p, t) \in References(p) \ {None}
         /\ p \in Reachable => /\ Cached(p, t) \in Func \cap live
                               /\ closure[Cached(p, t)] \in Closure /\ proc[Cached(p, t)] = p
<1>1. TypeOK
  BY DEF Structure, Typed
<1>2. Cached(p, t) \in References(p) \ {None}
  BY <1>1, ReferenceFacts DEF Cached
<1>3. ASSUME p \in Reachable
      PROVE  /\ Cached(p, t) \in Func \cap live
             /\ closure[Cached(p, t)] \in Closure /\ proc[Cached(p, t)] = p
  <2>1. Cached(p, t) \in Func \cap live
    BY <1>1, <1>2, <1>3, ReachClosed, CachedIsFunction DEF Structure, LiveOK
  <2>2. closure[Cached(p, t)] # None /\ proc[Cached(p, t)] = p
    BY <1>2, <1>3 DEF Structure, CachesOK
  <2> QED
    BY <1>1, <2>1, <2>2 DEF TypeOK
<1> QED
  BY <1>2, <1>3

\* Passing what exists already changes neither objects nor references
LEMMA GivenStructure ==
  ASSUME Structure, given' \subseteq [closure : Closure, func : Func, by : Func \cup Proc],
         autorelease' \in [Func -> BOOLEAN],
         UNCHANGED <<live, roots, type, proc, closure, handle, address, function, held, info, cacheVars,
                     funcs, method, torn, kept>>
  PROVE  Structure' /\ Reachable' \subseteq Reachable
<1>1. UNCHANGED <<live, roots, type, proc, closure, cbref, cbtable, caching, funcs>>
  BY DEF cacheVars
<1>2. Typed /\ TypeOK /\ LiveOK
  BY DEF Structure, Typed
<1>3. Typed'
  BY <1>2 DEF Typed, TypeOK, cacheVars
<1>4. roots \subseteq Reachable /\ \A n \in Name : funcs[n] # None => funcs[n] \in Reachable
  BY ReachClosed DEF Base
<1> QED
  BY <1>1, <1>2, <1>3, <1>4, QuietStructure DEF LiveOK

LEMMA PassCachedStructure ==
  ASSUME Structure, OneOwner, NEW p \in Proc, NEW t \in FType, PassCachedProc(p, t)
  PROVE  /\ Structure' /\ Reachable' \subseteq Reachable
         /\ LET f == Cached(p, t)
            IN  f \in Func \cap live /\ closure[f] \in Closure /\ proc[f] = p
                /\ given' = given \cup {[closure |-> closure[f], func |-> f, by |-> p]}
<1> DEFINE f == Cached(p, t)
<1>1. Typed /\ TypeOK
  BY DEF Structure, Typed
<1>2. /\ f # None /\ p \in roots /\ UNCHANGED info /\ Give(closure[f], p)
      /\ UNCHANGED <<live, roots, objectVars, held, cacheVars, funcs, method, torn, kept>>
  BY DEF PassCachedProc
<1>3. f \in Func \cap live /\ closure[f] \in Closure /\ proc[f] = p
  BY <1>2, CachedFacts, ReachClosed DEF Base
<1> HIDE DEF f
<1>4. info[closure[f]] = f
  BY <1>3, NoneAssumption DEF OneOwner, Owned
<1>5. given' = given \cup {[closure |-> closure[f], func |-> f, by |-> p]}
  BY <1>2, <1>4 DEF Give
<1>6. given' \subseteq [closure : Closure, func : Func, by : Func \cup Proc]
  BY <1>1, <1>3, <1>5 DEF TypeOK
<1>7. autorelease' \in [Func -> BOOLEAN]
  BY <1>1, <1>2 DEF TypeOK, objectVars
<1>8. Structure' /\ Reachable' \subseteq Reachable
  BY <1>2, <1>6, <1>7, GivenStructure DEF objectVars
<1> QED
  BY <1>3, <1>5, <1>8 DEF f

LEMMA PassFunctionStructure ==
  ASSUME Structure, OneOwner, NEW f \in Func, PassFunction(f)
  PROVE  /\ Structure' /\ Reachable' \subseteq Reachable
         /\ f \in live /\ given' = given \cup {[closure |-> closure[f], func |-> f, by |-> f]}
<1>1. Typed /\ TypeOK
  BY DEF Structure, Typed
<1>2. /\ f \in roots /\ closure[f] # None /\ UNCHANGED info /\ Give(closure[f], f)
      /\ UNCHANGED <<live, roots, objectVars, held, cacheVars, funcs, method, torn, kept>>
  BY DEF PassFunction
<1>3. f \in live /\ closure[f] \in Closure
  BY <1>1, <1>2 DEF TypeOK
<1>4. info[closure[f]] = f
  BY <1>2, <1>3 DEF OneOwner, Owned
<1>5. given' = given \cup {[closure |-> closure[f], func |-> f, by |-> f]}
  BY <1>2, <1>4 DEF Give
<1>6. given' \subseteq [closure : Closure, func : Func, by : Func \cup Proc]
  BY <1>1, <1>3, <1>5 DEF TypeOK
<1>7. autorelease' \in [Func -> BOOLEAN]
  BY <1>1, <1>2 DEF TypeOK, objectVars
<1>8. Structure' /\ Reachable' \subseteq Reachable
  BY <1>2, <1>6, <1>7, GivenStructure DEF objectVars
<1> QED
  BY <1>3, <1>5, <1>8

LEMMA SetAutoreleaseStructure ==
  ASSUME Structure, NEW f \in Func, NEW on \in BOOLEAN, SetAutorelease(f, on)
  PROVE  Structure' /\ Reachable' \subseteq Reachable
<1>1. TypeOK
  BY DEF Structure, Typed
<1>2. autorelease' \in [Func -> BOOLEAN]
      /\ given' \subseteq [closure : Closure, func : Func, by : Func \cup Proc]
  BY <1>1 DEF TypeOK, SetAutorelease
<1>3. UNCHANGED <<live, roots, type, proc, closure, handle, address, function, held, info, cacheVars,
                  funcs, method, torn, kept>>
  BY DEF SetAutorelease
<1> QED
  BY <1>2, <1>3, GivenStructure

LEMMA AttachStructure ==
  ASSUME Structure, NEW f \in Func, NEW n \in Name,
         AttachFails(f, n) \/ \E c \in Closures(Default) : Attach(f, n, c)
  PROVE  Structure' /\ Reachable' \subseteq Reachable
<1>1. Typed /\ TypeOK /\ LiveOK
  BY DEF Structure, Typed
<1>2. /\ f \in roots /\ funcs' = [funcs EXCEPT ![n] = f]
      /\ UNCHANGED <<live, roots, type, proc, closure, autorelease, cbref, cbtable, ready, caching, given, kept>>
  BY DEF AttachFails, Attach, objectVars, cacheVars
<1>8. address' = address /\ function' \in [Closures(Default) -> Closure \cup {None}]
  <2>1. address[f] \in Closure \cup {None}
    BY <1>1 DEF TypeOK
  <2> QED
    BY <1>1, <2>1 DEF TypeOK, AttachFails, Attach, objectVars
<1>3. /\ handle' \in [Func -> Closures(Default) \cup {None}] /\ held' \subseteq Closure
      /\ info' \in [Closure -> Func \cup {None}]
      /\ method' \in [Name -> Closures(Default) \cup {None}] /\ torn' \subseteq Name
  <2>1. CASE AttachFails(f, n)
    BY <1>1, <2>1 DEF TypeOK, AttachFails, objectVars
  <2>2. ASSUME NEW c \in Closures(Default), Attach(f, n, c)
        PROVE  /\ handle' \in [Func -> Closures(Default) \cup {None}] /\ held' \subseteq Closure
               /\ info' \in [Closure -> Func \cup {None}]
               /\ method' \in [Name -> Closures(Default) \cup {None}] /\ torn' \subseteq Name
    <3>1. c \in Closure
      BY DEF Closures
    <3>2. method' = [method EXCEPT ![n] = c] /\ torn' = torn \ {n}
      BY <2>2 DEF Attach
    <3>3. CASE handle[f] = None
      <4>1. held' = held \cup {c} /\ info' = [info EXCEPT ![c] = f] /\ handle' = [handle EXCEPT ![f] = c]
        BY <2>2, <3>3 DEF Attach
      <4> QED
        BY <1>1, <3>1, <3>2, <4>1 DEF TypeOK
    <3>4. CASE handle[f] # None
      <4>1. UNCHANGED <<held, info, handle>>
        BY <2>2, <3>4 DEF Attach
      <4> QED
        BY <1>1, <3>2, <4>1 DEF TypeOK
    <3> QED
      BY <3>3, <3>4
  <2> QED
    BY <2>1, <2>2
<1>4. Typed'
  <2>1. funcs' \in [Name -> Func \cup {None}]
    BY <1>1, <1>2 DEF TypeOK
  <2> QED
    BY <1>1, <1>2, <1>3, <1>8, <2>1 DEF Typed, TypeOK
<1>5. \A m \in Name : funcs'[m] = funcs[m] \/ funcs'[m] \in roots
  BY <1>1, <1>2 DEF TypeOK
<1>6. roots \subseteq Reachable /\ \A m \in Name : funcs[m] # None => funcs[m] \in Reachable
  BY ReachClosed DEF Base
<1>7. \A m \in Name : funcs'[m] # None => funcs'[m] \in Reachable
  BY <1>5, <1>6
<1> QED
  BY <1>1, <1>2, <1>4, <1>5, <1>6, <1>7, QuietStructure DEF LiveOK

LEMMA ReleaseStructure ==
  ASSUME Structure, NEW f \in Func, Release(f)
  PROVE  Structure' /\ Reachable' \subseteq Reachable
<1>1. Typed /\ TypeOK /\ LiveOK
  BY DEF Structure, Typed
<1>2. /\ f \in roots /\ closure' = [closure EXCEPT ![f] = None]
      /\ held' \subseteq held /\ given' \subseteq given
      /\ UNCHANGED <<live, roots, type, proc, handle, autorelease, address, function, info, cbref,
                     cbtable, ready, caching, funcs, method, torn, kept>>
  BY DEF Release, cacheVars
<1>3. Typed'
  BY <1>1, <1>2 DEF Typed, TypeOK
<1>4. \A g \in Func : closure'[g] = closure[g] \/ g \in roots
  BY <1>1, <1>2 DEF TypeOK
<1>5. roots \subseteq Reachable /\ \A n \in Name : funcs[n] # None => funcs[n] \in Reachable
  BY ReachClosed DEF Base
<1> QED
  BY <1>1, <1>2, <1>3, <1>4, <1>5, QuietStructure DEF LiveOK

LEMMA DropStructure ==
  ASSUME Structure, (\E x \in Object : Drop(x)) \/ (\E n \in Name : Fetch(n))
  PROVE  /\ Structure' /\ Reachable' \subseteq Reachable
         /\ UNCHANGED <<live, type, proc, closure, handle, held, info, cacheVars, funcs, method, torn, given, kept>>
<1>1. Typed /\ TypeOK /\ LiveOK
  BY DEF Structure, Typed
<1>2. UNCHANGED <<live, type, proc, closure, handle, autorelease, address, function, held, info,
                  cbref, cbtable, ready, caching, funcs, method, torn, given, kept>>
  BY DEF Drop, Fetch, objectVars, cacheVars
<1>3. roots \subseteq Reachable /\ \A n \in Name : funcs[n] # None => funcs[n] \in Reachable
  BY ReachClosed DEF Base
<1>4. roots' \subseteq Reachable /\ \A g \in roots' : g \notin roots => \E n \in Name : funcs[n] = g
  BY <1>3 DEF Drop, Fetch
<1>5. Typed'
  <2>1. roots' \subseteq live
    BY <1>1, <1>4 DEF LiveOK
  <2> QED
    BY <1>1, <1>2, <2>1 DEF Typed, TypeOK
<1> QED
  BY <1>1, <1>2, <1>3, <1>4, <1>5, QuietStructure DEF LiveOK, cacheVars

LEMMA SweepStructure ==
  ASSUME Structure, NEW x \in live \ Reachable, SweepFunction(x) \/ SweepOther(x)
  PROVE  Structure' /\ Reachable' \subseteq Reachable
<1>1. Typed /\ TypeOK /\ LiveOK
  BY DEF Structure, Typed
<1>2. live' = live \ {x} /\ UNCHANGED <<roots, info, cbref, cbtable, ready, caching, funcs, method, torn>>
  BY DEF SweepFunction, SweepOther, cacheVars
<1>3. roots \subseteq Reachable /\ \A n \in Name : funcs[n] # None => funcs[n] \in Reachable
  BY ReachClosed DEF Base
<1>4. /\ type' \in [Func -> FType \cup {None}] /\ proc' \in [Func -> Proc \cup {None}]
      /\ closure' \in [Func -> Closure \cup {None}]
      /\ handle' \in [Func -> Closures(Default) \cup {None}] /\ autorelease' \in [Func -> BOOLEAN]
      /\ address' \in [Func -> Closure \cup {None}]
      /\ function' \in [Closures(Default) -> Closure \cup {None}]
      /\ held' \subseteq Closure /\ kept' \subseteq Closure
      /\ given' \subseteq [closure : Closure, func : Func, by : Func \cup Proc]
      /\ \A g \in Func : g # x => type'[g] = type[g] /\ proc'[g] = proc[g] /\ closure'[g] = closure[g]
  <2>1. CASE SweepOther(x)
    BY <1>1, <2>1 DEF TypeOK, SweepOther, objectVars
  <2>2. CASE SweepFunction(x)
    <3>1. x \in Func => closure[x] \in Closure \cup {None}
      BY <1>1 DEF TypeOK
    <3>2. /\ x \in Func /\ held' \subseteq held /\ kept' \subseteq kept \cup ({closure[x]} \ {None})
          /\ given' \subseteq given
          /\ type' = [type EXCEPT ![x] = None] /\ proc' = [proc EXCEPT ![x] = None]
          /\ closure' = [closure EXCEPT ![x] = None] /\ handle' = [handle EXCEPT ![x] = None]
          /\ autorelease' = [autorelease EXCEPT ![x] = TRUE]
          /\ address' = [address EXCEPT ![x] = None]
          /\ function' = [c \in Closures(Default) |-> IF c = handle[x] THEN None ELSE function[c]]
      BY <2>2 DEF SweepFunction
    <3> QED
      BY <1>1, <3>1, <3>2 DEF TypeOK
  <2> QED
    BY <2>1, <2>2
<1>5. Typed'
  <2>1. live' \subseteq Object /\ roots' \subseteq live'
    BY <1>1, <1>2, <1>3 DEF TypeOK
  <2> QED
    BY <1>1, <1>2, <1>4, <2>1 DEF Typed, TypeOK
<1> QED
  BY <1>1, <1>2, <1>3, <1>4, <1>5, QuietStructure DEF LiveOK

-----------------------------------------------------------------------------
(* Who owns what after each step *)

StashedLive == \A n \in Name : funcs[n] # None => funcs[n] \in live

LEMMA StashFacts ==
  ASSUME Structure
  PROVE  StashedLive /\ OnStack \subseteq live
BY ReachClosed DEF Structure, LiveOK, Base, StashedLive

LEMMA OwnedFacts ==
  /\ \A f : Owned(f) = {closure[f], handle[f]} \ {None}
  /\ \A f : Owned(f)' = {closure'[f], handle'[f]} \ {None}
BY DEF Owned

LEMMA MadeOwnership ==
  ASSUME LifeIInv, NEW f \in Func, NEW t \in FType, NEW p \in Proc \cup {None}, NEW c,
         Made(f, t, p, c), c # None => p \in Proc,
         \A g \in given' : g \in given \/ g.by \notin Func,
         UNCHANGED <<funcs, method, torn, kept>>
  PROVE  Ownership' /\ MethodsOK' /\ GivenOK'
<1>1. Structure /\ TypeOK /\ FunctionsOK /\ OneOwner /\ NoneLeaked /\ MethodsOK /\ GivenOK
  BY DEF LifeIInv, Ownership, Structure, Typed
<1>2. FunctionsOK'
  BY <1>1 DEF FunctionsOK, Made
<1>3. \A g \in live \cap Func : g # f /\ Owned(g)' = Owned(g)
  BY OwnedFacts DEF Made
<1>4. Owned(f)' = {c} \ {None}
  BY OwnedFacts DEF Made
<1>5. live' \cap Func = (live \cap Func) \cup {f}
  BY DEF Made
<1>6. held' = held \cup ({c} \ {None})
  BY DEF Made
<1>7. OneOwner'
  <2>1. ASSUME NEW g \in live \cap Func, NEW d \in Owned(g)
        PROVE  d \in held' /\ info'[d] = g
    <3>1. d \in held /\ info[d] = g
      BY <1>1 DEF OneOwner
    <3>2. d \in Closure /\ held \subseteq held'
      BY <1>1, <1>6, <3>1 DEF TypeOK
    <3>3. info'[d] = info[d]
      BY <3>1, <3>2 DEF Made
    <3> QED
      BY <3>1, <3>2, <3>3
  <2>2. \A d \in Owned(f)' : d \in held' /\ info'[d] = f
    BY <1>4 DEF Made
  <2> QED
    BY <1>3, <1>5, <2>1, <2>2 DEF OneOwner
<1>8. NoneLeaked'
  BY <1>1, <1>3, <1>4, <1>5, <1>6 DEF NoneLeaked
<1>9. MethodsOK'
  <2>1. \A n \in Name : funcs[n] \in Func => handle'[funcs[n]] = handle[funcs[n]]
    BY <1>1, StashFacts, NoneAssumption DEF Made, StashedLive, Object
  <2> QED
    BY <1>1, <2>1 DEF MethodsOK
<1>10. GivenOK'
  BY <1>1 DEF GivenOK, Made
<1> QED
  BY <1>2, <1>7, <1>8, <1>9, <1>10 DEF Ownership

LEMMA EndOwnership ==
  ASSUME LifeIInv, NEW th \in Thread, NEW c \in Closure, EndPassProc(th, c)
  PROVE  Ownership' /\ MethodsOK' /\ GivenOK'
<1>1. Structure /\ TypeOK /\ FunctionsOK /\ OneOwner /\ NoneLeaked /\ MethodsOK /\ GivenOK
  BY DEF LifeIInv, Ownership, Structure, Typed
<1>2. PICK f \in Func \cap live, p \in Proc :
        /\ f = caching[th].func /\ p = caching[th].proc
        /\ type[f] \in FType /\ closure[f] = None
  BY <1>1, EndStructure DEF Structure, LiveOK
<1>3. /\ c \notin held /\ held' = held \cup {c} /\ info' = [info EXCEPT ![c] = f]
      /\ closure' = [closure EXCEPT ![f] = c] /\ proc' = [proc EXCEPT ![f] = p]
      /\ Give(c, p) /\ UNCHANGED <<live, type, handle, funcs, method, torn, kept>>
  BY <1>2 DEF EndPassProc
<1>4. /\ \A d \in Closure : info'[d] = IF d = c THEN f ELSE info[d]
      /\ \A g \in Func : closure'[g] = IF g = f THEN c ELSE closure[g]
      /\ \A g \in Func : proc'[g] = IF g = f THEN p ELSE proc[g]
  BY <1>1, <1>3 DEF TypeOK
<1>5. \A g \in live \cap Func : g # f => Owned(g)' = Owned(g)
  BY <1>3, <1>4, OwnedFacts
<1>6. Owned(f)' = Owned(f) \cup {c}
  <2>1. c # None /\ handle'[f] = handle[f] /\ closure'[f] = c
    BY <1>2, <1>3, <1>4, NoneAssumption
  <2> QED
    BY <1>2, <2>1, OwnedFacts
<1>7. FunctionsOK'
  <2>1. c # handle[f]
    BY <1>1, <1>2, <1>3, OwnedFacts, NoneAssumption DEF OneOwner
  <2> QED
    BY <1>1, <1>2, <1>3, <1>4, <2>1 DEF FunctionsOK
<1>8. OneOwner'
  <2>1. ASSUME NEW g \in live \cap Func, NEW d \in Owned(g)
        PROVE  d \in held' /\ info'[d] = g
    <3>1. d \in held /\ info[d] = g /\ d \in Closure
      BY <1>1 DEF OneOwner, TypeOK
    <3> QED
      BY <1>3, <1>4, <3>1
  <2>2. c \in held' /\ info'[c] = f
    BY <1>3, <1>4
  <2> QED
    <3>1. \A g \in live \cap Func : \A d \in Owned(g)' : d \in Owned(g) \/ (g = f /\ d = c)
      BY <1>5, <1>6
    <3> QED
      BY <1>3, <2>1, <2>2, <3>1 DEF OneOwner
<1>9. NoneLeaked'
  <2>1. \A g \in live \cap Func : Owned(g) \subseteq Owned(g)'
    BY <1>5, <1>6
  <2>2. \A d \in held : d \in kept \/ \E g \in live \cap Func : d \in Owned(g)'
    BY <1>1, <2>1 DEF NoneLeaked
  <2> QED
    BY <1>2, <1>3, <1>6, <2>2 DEF NoneLeaked
<1>10. MethodsOK'
  BY <1>1, <1>3 DEF MethodsOK
<1>11. GivenOK'
  <2>1. \A g \in given' : g \in given \/ g.by = p
    BY <1>3 DEF Give
  <2>2. ASSUME NEW g \in given, g.by \in Func
        PROVE  g.by \in live /\ g.func = g.by /\ closure'[g.by] = g.closure
    <3>1. g.by \in live /\ g.func = g.by /\ closure[g.by] = g.closure
      BY <1>1, <2>2 DEF GivenOK
    <3>2. g.closure # None
      BY <1>1, NoneAssumption DEF TypeOK
    <3> QED
      BY <1>2, <1>4, <2>2, <3>1, <3>2
  <2> QED
    BY <1>2, <1>3, <2>1, <2>2, KindsAssumption DEF GivenOK
<1> QED
  BY <1>7, <1>8, <1>9, <1>10, <1>11 DEF Ownership

\* Steps that leave functions and trampolines alone
LEMMA QuietOwnership ==
  ASSUME LifeIInv, UNCHANGED <<live, type, proc, closure, handle, held, info, kept>>
  PROVE  Ownership'
<1>1. FunctionsOK /\ OneOwner /\ NoneLeaked
  BY DEF LifeIInv, Ownership
<1>2. \A f : Owned(f)' = Owned(f)
  BY OwnedFacts
<1>3. FunctionsOK'
  BY <1>1 DEF FunctionsOK
<1>4. OneOwner'
  BY <1>1, <1>2 DEF OneOwner
<1>5. NoneLeaked'
  BY <1>1, <1>2 DEF NoneLeaked
<1> QED
  BY <1>3, <1>4, <1>5 DEF Ownership

LEMMA AttachOwnership ==
  ASSUME LifeIInv, NEW f \in Func, NEW n \in Name, NEW c \in Closures(Default), Attach(f, n, c)
  PROVE  Ownership' /\ MethodsOK' /\ GivenOK'
<1>1. Structure /\ TypeOK /\ FunctionsOK /\ OneOwner /\ NoneLeaked /\ MethodsOK /\ GivenOK
  BY DEF LifeIInv, Ownership, Structure, Typed
<1>2. /\ f \in live /\ c \in Closure
      /\ method' = [method EXCEPT ![n] = c] /\ funcs' = [funcs EXCEPT ![n] = f] /\ torn' = torn \ {n}
      /\ UNCHANGED <<live, roots, type, proc, closure, given, kept>>
  BY <1>1 DEF Attach, TypeOK, Closures
<1>3. /\ \A m \in Name : method'[m] = IF m = n THEN c ELSE method[m]
      /\ \A m \in Name : funcs'[m] = IF m = n THEN f ELSE funcs[m]
  BY <1>1, <1>2 DEF TypeOK
<1>4. GivenOK'
  BY <1>1, <1>2 DEF GivenOK
<1>5. CASE handle[f] # None
  <2>1. c = handle[f] /\ UNCHANGED <<held, info, handle>>
    BY <1>5 DEF Attach
  <2>2. Ownership'
    BY <1>2, <2>1, QuietOwnership
  <2>3. MethodsOK'
    BY <1>1, <1>2, <1>3, <2>1 DEF MethodsOK
  <2> QED
    BY <1>4, <2>2, <2>3
<1>6. CASE handle[f] = None
  <2>1. /\ c \notin held /\ held' = held \cup {c} /\ info' = [info EXCEPT ![c] = f]
        /\ handle' = [handle EXCEPT ![f] = c]
    BY <1>6 DEF Attach
  <2>2. /\ \A d \in Closure : info'[d] = IF d = c THEN f ELSE info[d]
        /\ \A g \in Func : handle'[g] = IF g = f THEN c ELSE handle[g]
    BY <1>1, <2>1 DEF TypeOK
  <2>3. \A g \in live \cap Func : g # f => Owned(g)' = Owned(g)
    BY <1>2, <2>2, OwnedFacts
  <2>4. Owned(f)' = Owned(f) \cup {c}
    BY <1>2, <1>6, <2>2, OwnedFacts, NoneAssumption
  <2>5. FunctionsOK'
    <3>1. closure[f] # c
      BY <1>1, <1>2, <2>1, OwnedFacts, NoneAssumption DEF OneOwner
    <3> QED
      BY <1>1, <1>2, <2>2, <3>1 DEF FunctionsOK
  <2>6. OneOwner'
    <3>1. ASSUME NEW g \in live \cap Func, NEW d \in Owned(g)
          PROVE  d \in held' /\ info'[d] = g
      <4>1. d \in held /\ info[d] = g /\ d \in Closure
        BY <1>1 DEF OneOwner, TypeOK
      <4> QED
        BY <2>1, <2>2, <4>1
    <3>2. c \in held' /\ info'[c] = f
      BY <1>2, <2>1, <2>2
    <3> QED
      BY <1>2, <2>3, <2>4, <3>1, <3>2 DEF OneOwner
  <2>7. NoneLeaked'
    BY <1>1, <1>2, <2>1, <2>3, <2>4 DEF NoneLeaked
  <2>8. MethodsOK'
    <3>1. ASSUME NEW m \in Name \ torn, m # n, method[m] # None
          PROVE  funcs[m] \in Func /\ funcs[m] # f /\ handle[funcs[m]] = method[m]
      BY <1>1, <1>6, <3>1 DEF MethodsOK
    <3> QED
      BY <1>2, <1>3, <2>2, <3>1 DEF MethodsOK
  <2> QED
    BY <1>4, <2>5, <2>6, <2>7, <2>8 DEF Ownership
<1> QED
  BY <1>5, <1>6

LEMMA ReleaseOwnership ==
  ASSUME LifeIInv, NEW f \in Func, Release(f)
  PROVE  Ownership' /\ MethodsOK' /\ GivenOK'
<1>1. Structure /\ TypeOK /\ FunctionsOK /\ OneOwner /\ NoneLeaked /\ MethodsOK /\ GivenOK
  BY DEF LifeIInv, Ownership, Structure, Typed
<1>2. /\ f \in live /\ closure[f] # None
      /\ held' = held \ {closure[f]} /\ given' = {g \in given : g.closure # closure[f]}
      /\ UNCHANGED <<live, type, proc, handle, info, funcs, method, torn, kept>>
  BY <1>1 DEF Release, TypeOK
<1>3. \A g \in Func : closure'[g] = IF g = f THEN None ELSE closure[g]
  BY <1>1 DEF Release, TypeOK
<1>4. \A g \in live \cap Func : g # f => Owned(g)' = Owned(g)
  BY <1>2, <1>3, OwnedFacts
<1>5. Owned(f)' = Owned(f) \ {closure[f]}
  BY <1>1, <1>2, <1>3, OwnedFacts DEF FunctionsOK
<1>6. FunctionsOK'
  BY <1>1, <1>2, <1>3 DEF FunctionsOK
<1>7. OneOwner'
  <2>1. \A g \in live \cap Func : \A d \in Owned(g)' : d \in Owned(g) /\ d # closure[f]
    <3>1. closure[f] \in Owned(f)
      BY <1>2, OwnedFacts
    <3> QED
      BY <1>1, <1>2, <1>4, <1>5, <3>1 DEF OneOwner
  <2> QED
    BY <1>1, <1>2, <2>1 DEF OneOwner
<1>8. NoneLeaked'
  BY <1>1, <1>2, <1>4, <1>5 DEF NoneLeaked
<1>9. MethodsOK'
  BY <1>1, <1>2 DEF MethodsOK
<1>10. GivenOK'
  BY <1>1, <1>2, <1>3 DEF GivenOK
<1> QED
  BY <1>6, <1>7, <1>8, <1>9, <1>10 DEF Ownership

LEMMA SweepOwnership ==
  ASSUME LifeIInv, NEW x \in live \ Reachable, SweepFunction(x) \/ SweepOther(x)
  PROVE  Ownership' /\ MethodsOK' /\ GivenOK'
<1>1. Structure /\ TypeOK /\ FunctionsOK /\ OneOwner /\ NoneLeaked /\ MethodsOK /\ GivenOK
  BY DEF LifeIInv, Ownership, Structure, Typed
<1>2. \A n \in Name : funcs[n] # x
  BY NoneAssumption, <1>1, ReachClosed DEF Base, TypeOK
<1>3. CASE SweepOther(x)
  <2>1. /\ live' \cap Func = live \cap Func /\ given' = {g \in given : g.by # x}
        /\ live' = live \ {x}
        /\ UNCHANGED <<type, proc, closure, handle, held, info, funcs, method, torn, kept>>
    BY <1>3 DEF SweepOther, objectVars
  <2>2. \A f : Owned(f)' = Owned(f)
    BY <2>1, OwnedFacts
  <2>3. FunctionsOK' /\ MethodsOK'
    BY <1>1, <2>1 DEF FunctionsOK, MethodsOK
  <2>4. OneOwner' /\ NoneLeaked'
    BY <1>1, <2>1, <2>2 DEF OneOwner, NoneLeaked
  <2>5. GivenOK'
    BY <1>1, <2>1 DEF GivenOK
  <2> QED
    BY <2>3, <2>4, <2>5 DEF Ownership
<1>4. CASE SweepFunction(x)
  <2>1. /\ x \in Func /\ live' = live \ {x}
        /\ held' = held \ ({handle[x]} \cup (IF autorelease[x] THEN {closure[x]} ELSE {}))
        /\ kept' = IF autorelease[x] THEN kept ELSE kept \cup ({closure[x]} \ {None})
        /\ given' = {g \in given : g.by # x}
        /\ UNCHANGED <<info, funcs, method, torn>>
    BY <1>4 DEF SweepFunction
  <2>2. \A g \in Func \ {x} : /\ type'[g] = type[g] /\ proc'[g] = proc[g]
                             /\ closure'[g] = closure[g] /\ handle'[g] = handle[g]
    BY <1>1, <1>4 DEF SweepFunction, TypeOK
  <2>3. live' \cap Func = (live \cap Func) \ {x}
    BY <2>1
  <2>4. \A g \in live' \cap Func : Owned(g)' = Owned(g)
    BY <2>2, <2>3, OwnedFacts
  <2>5. FunctionsOK'
    BY <1>1, <2>2, <2>3 DEF FunctionsOK
  <2>6. OneOwner'
    <3>1. ASSUME NEW g \in live' \cap Func, NEW d \in Owned(g)
          PROVE  d \in held' /\ info[d] = g
      <4>1. d \in held /\ info[d] = g /\ d # None /\ g # x
        BY <1>1, <2>3, OwnedFacts DEF OneOwner
      <4>2. d \notin Owned(x)
        BY <1>1, <2>1, <4>1 DEF OneOwner
      <4> QED
        BY <2>1, <4>1, <4>2, OwnedFacts
    <3> QED
      BY <2>1, <2>4, <3>1 DEF OneOwner
  <2>7. NoneLeaked'
    <3>1. ASSUME NEW d \in held'
          PROVE  d \in kept' \/ \E g \in live' \cap Func : d \in Owned(g)
      <4>1. d \in held /\ d \in Closure
        BY <1>1, <2>1 DEF TypeOK
      <4>2. kept \subseteq kept'
        BY <2>1
      <4>3. d \in Owned(x) => d \in kept'
        BY <2>1, <3>1, OwnedFacts
      <4> QED
        BY <1>1, <2>3, <4>1, <4>2, <4>3 DEF NoneLeaked
    <3> QED
      BY <2>4, <3>1 DEF NoneLeaked
  <2>8. MethodsOK'
    BY <1>1, <1>2, <2>1, <2>2 DEF MethodsOK
  <2>9. GivenOK'
    BY <1>1, <2>1, <2>2 DEF GivenOK
  <2> QED
    BY <2>5, <2>6, <2>7, <2>8, <2>9 DEF Ownership
<1> QED
  BY <1>3, <1>4

-----------------------------------------------------------------------------
(* The invariant *)

\* Steps after which only what native code was given has changed
LEMMA GivenLife ==
  ASSUME LifeIInv, Structure', NEW by, by \in Func => by \in live,
         \A g \in given' : g \in given \/ (g.by = by /\ g.func = by /\ g.closure = closure[by]) \/ g.by \notin Func,
         UNCHANGED <<live, type, proc, closure, handle, held, info, funcs, method, torn, kept>>
  PROVE  LifeIInv'
<1>1. Ownership'
  BY QuietOwnership
<1>2. MethodsOK'
  BY DEF LifeIInv, MethodsOK
<1>3. GivenOK'
  BY DEF LifeIInv, GivenOK
<1> QED
  BY <1>1, <1>2, <1>3 DEF LifeIInv

LEMMA RubyStepLife ==
  ASSUME LifeIInv, RubyStep
  PROVE  LifeIInv'
<1>1. Structure /\ TypeOK /\ OneOwner /\ MethodsOK /\ GivenOK
  BY DEF LifeIInv, Ownership, Structure, Typed
<1>2. ASSUME NEW f \in Func, NEW t \in FType, NewFromPointer(f, t) \/ NewFails(f, t)
      PROVE  LifeIInv'
  <2>1. /\ t \in roots /\ MakeFunction(f, t, None, None) /\ roots' \subseteq roots \cup {f}
        /\ UNCHANGED <<cbref, cbtable, ready, caching, funcs, method, torn, given, kept>>
    BY <1>2 DEF NewFromPointer, NewFails, cacheVars
  <2>2. ready' \in BOOLEAN
    BY <1>1, <2>1 DEF TypeOK
  <2>3. Made(f, t, None, None) /\ Structure'
    BY <1>1, <2>1, <2>2, NewStructure
  <2> QED
    BY <2>1, <2>3, MadeOwnership DEF LifeIInv
<1>3. ASSUME NEW f \in Func, NEW t \in FType, NEW p \in Proc, NEW c \in Closures(t),
             NewFromProc(f, t, p, c)
      PROVE  LifeIInv'
  <2>1. /\ t \in roots /\ p \in roots /\ MakeFunction(f, t, p, c) /\ roots' \subseteq roots \cup {f}
        /\ ready' \in BOOLEAN
        /\ UNCHANGED <<cbref, cbtable, caching, funcs, method, torn, given, kept>>
    BY <1>3 DEF NewFromProc
  <2>2. Made(f, t, p, c) /\ Structure'
    BY <1>1, <2>1, NewStructure
  <2> QED
    BY <2>1, <2>2, MadeOwnership DEF LifeIInv
<1>4. ASSUME NEW f \in Func, NEW t \in FType, NEW p \in Proc, NEW c \in Closures(t),
             PassProc(p, t, f, c)
      PROVE  LifeIInv'
  <2>1. Made(f, t, p, c) /\ Structure'
    BY <1>1, <1>4, PassStructure
  <2>2. \A g \in given' : g \in given \/ g.by \notin Func
    BY <1>4, KindsAssumption DEF PassProc, Give
  <2>3. UNCHANGED <<funcs, method, torn, kept>>
    BY <1>4 DEF PassProc
  <2> QED
    BY <2>1, <2>2, <2>3, MadeOwnership DEF LifeIInv
<1>5. ASSUME NEW p \in Proc, NEW t \in FType, PassCachedProc(p, t)
      PROVE  LifeIInv'
  <2>1. Structure' /\ \A g \in given' : g \in given \/ g.by \notin Func
    BY <1>1, <1>5, PassCachedStructure, KindsAssumption
  <2>2. UNCHANGED <<live, type, proc, closure, handle, held, info, funcs, method, torn, kept>>
    BY <1>5 DEF PassCachedProc, objectVars
  <2> QED
    BY <2>1, <2>2, GivenLife, KindsAssumption
<1>6. ASSUME NEW f \in Func, PassFunction(f)
      PROVE  LifeIInv'
  <2>1. Structure' /\ f \in live
        /\ \A g \in given' : g \in given \/ (g.by = f /\ g.func = f /\ g.closure = closure[f])
    BY <1>1, <1>6, PassFunctionStructure
  <2>2. UNCHANGED <<live, type, proc, closure, handle, held, info, funcs, method, torn, kept>>
    BY <1>6 DEF PassFunction, objectVars
  <2> QED
    BY <2>1, <2>2, GivenLife
<1>7. ASSUME NEW f \in Func, NEW on \in BOOLEAN, SetAutorelease(f, on)
      PROVE  LifeIInv'
  <2>1. Structure'
    BY <1>1, <1>7, SetAutoreleaseStructure
  <2>2. UNCHANGED <<live, type, proc, closure, handle, held, info, funcs, method, torn, given, kept>>
    BY <1>7 DEF SetAutorelease
  <2> QED
    BY <1>1, <2>1, <2>2, QuietOwnership DEF LifeIInv, MethodsOK, GivenOK
<1>8. ASSUME NEW f \in Func, Release(f)
      PROVE  LifeIInv'
  BY <1>1, <1>8, ReleaseStructure, ReleaseOwnership DEF LifeIInv
<1>9. ASSUME NEW f \in Func, NEW n \in Name, AttachFails(f, n)
      PROVE  LifeIInv'
  <2>1. Structure'
    BY <1>1, <1>9, AttachStructure
  <2>2. /\ UNCHANGED <<live, type, proc, closure, handle, held, info, method, given, kept>>
        /\ funcs' = [funcs EXCEPT ![n] = f] /\ torn' = torn \cup {n}
    BY <1>9 DEF AttachFails, objectVars
  <2>3. MethodsOK'
    <3>1. \A m \in Name \ torn' : funcs'[m] = funcs[m] /\ m \notin torn
      BY <1>1, <2>2 DEF TypeOK
    <3> QED
      BY <1>1, <2>2, <3>1 DEF MethodsOK
  <2> QED
    BY <1>1, <2>1, <2>2, <2>3, QuietOwnership DEF LifeIInv, GivenOK
<1>10. ASSUME NEW f \in Func, NEW n \in Name, NEW c \in Closures(Default), Attach(f, n, c)
       PROVE  LifeIInv'
  BY <1>1, <1>10, AttachStructure, AttachOwnership DEF LifeIInv
<1>11. ASSUME (\E x \in Object : Drop(x)) \/ (\E n \in Name : Fetch(n))
       PROVE  LifeIInv'
  <2>1. /\ Structure'
        /\ UNCHANGED <<live, type, proc, closure, handle, held, info, funcs, method, torn, given, kept>>
    BY <1>1, <1>11, DropStructure
  <2> QED
    BY <1>1, <2>1, QuietOwnership DEF LifeIInv, MethodsOK, GivenOK
<1> QED
  BY <1>2, <1>3, <1>4, <1>5, <1>6, <1>7, <1>8, <1>9, <1>10, <1>11 DEF RubyStep

LEMMA LifeStep == LifeIInv /\ [Next]_vars => LifeIInv'
<1> SUFFICES ASSUME LifeIInv, [Next]_vars
             PROVE  LifeIInv'
  OBVIOUS
<1>1. Structure
  BY DEF LifeIInv
<1>2. CASE RubyStep
  BY <1>2, RubyStepLife
<1>3. ASSUME NEW th \in Thread, NEW f \in Func, NEW t \in FType, NEW p \in Proc,
             BeginPassProc(th, p, t, f)
      PROVE  LifeIInv'
  <2>1. Made(f, t, None, None) /\ Structure'
    BY <1>1, <1>3, BeginStructure
  <2>2. UNCHANGED <<funcs, method, torn, given, kept>>
    BY <1>3 DEF BeginPassProc
  <2> QED
    BY <2>1, <2>2, MadeOwnership DEF LifeIInv
<1>4. ASSUME NEW th \in Thread, NEW c \in Closure, EndPassProc(th, c)
      PROVE  LifeIInv'
  BY <1>1, <1>4, EndStructure, EndOwnership DEF LifeIInv
<1>5. ASSUME NEW x \in live \ Reachable, SweepFunction(x) \/ SweepOther(x)
      PROVE  LifeIInv'
  BY <1>1, <1>5, SweepStructure, SweepOwnership DEF LifeIInv
<1>6. CASE UNCHANGED vars
  <2>1. /\ UNCHANGED <<live, roots, type, proc, closure, handle, address, function, held, info,
                       cacheVars, funcs, method, torn, kept>>
        /\ given' = given /\ autorelease' = autorelease
    BY <1>6 DEF vars, objectVars
  <2>2. Structure'
    BY <1>1, <2>1, GivenStructure DEF Structure, Typed, TypeOK
  <2> QED
    BY <2>1, <2>2, QuietOwnership DEF LifeIInv, MethodsOK, GivenOK
<1> QED
  BY <1>2, <1>3, <1>4, <1>5, <1>6 DEF Next

THEOREM LifeInvariant == Spec => []LifeIInv
<1> QED
  BY InitLife, LifeStep, PTL DEF Spec

\* The memory of functions, closures and caches has the shape the code expects
THEOREM LifecycleTyped == Spec => []TypeOK
<1>1. LifeIInv => TypeOK
  BY DEF LifeIInv, Structure, Typed
<1> QED
  BY <1>1, LifeInvariant, PTL

\* A trampoline has one owner, and is given back once (function_free, function_release)
THEOREM TrampolinesHaveOneOwner == Spec => []OneOwner
<1>1. LifeIInv => OneOwner
  BY DEF LifeIInv, Ownership
<1> QED
  BY <1>1, LifeInvariant, PTL

\* No trampoline is held for nobody, unless autorelease is false
THEOREM TrampolinesDoNotLeak == Spec => []NoneLeaked
<1>1. LifeIInv => NoneLeaked
  BY DEF LifeIInv, Ownership
<1> QED
  BY <1>1, LifeInvariant, PTL

-----------------------------------------------------------------------------
(* What a method calls.  Its handle keeps the address that the function had *)
(* when it was attached first; no step but the making of a function sets it. *)

AddressesOK ==
  /\ \A f \in live \cap Func :
       /\ closure[f] # None => address[f] = closure[f]
       /\ handle[f] # None => function[handle[f]] = address[f]
  /\ \A th \in Busy : handle[caching[th].func] = None

AddressIInv == LifeIInv /\ AddressesOK

LEMMA InitAddresses == Init => AddressesOK
BY DEF Init, AddressesOK, Busy

\* Steps that make no function, attach none and sweep none
LEMMA QuietAddresses ==
  ASSUME AddressesOK, UNCHANGED <<handle, address, function, caching>>,
         \A f \in live' \cap Func : f \in live,
         \A f \in live \cap Func : closure'[f] = closure[f] \/ closure'[f] = None
  PROVE  AddressesOK'
BY DEF AddressesOK, Busy

LEMMA BusyFacts ==
  ASSUME Structure
  PROVE  \A th \in Busy : /\ caching[th].func \in (live \cap Func) \ roots
                          /\ \A n \in Name : funcs[n] # caching[th].func
<1>1. Typed /\ LiveOK /\ PendingOK
  BY DEF Structure
<1>2. \A th \in Busy : caching[th].func \in Func /\ caching[th].func \in Reachable
  BY <1>1, StackFacts, ReachClosed DEF Base, Typed, Busy, PendingCall
<1> QED
  BY <1>1, <1>2 DEF LiveOK, PendingOK

LEMMA MadeAddresses ==
  ASSUME AddressIInv, NEW f \in Func, NEW t, NEW p, NEW c, Made(f, t, p, c),
         \A th \in Busy' : (th \in Busy /\ caching'[th] = caching[th]) \/ caching'[th].func = f
  PROVE  AddressesOK'
<1>1. Structure /\ TypeOK /\ AddressesOK
  BY DEF AddressIInv, LifeIInv, Structure, Typed
<1>2. /\ f \notin live /\ live' = live \cup {f}
      /\ closure'[f] = c /\ handle'[f] = None /\ function' = function
      /\ address'[f] = c
      /\ \A g \in Func \ {f} : closure'[g] = closure[g] /\ handle'[g] = handle[g] /\ address'[g] = address[g]
  BY <1>1 DEF Made, TypeOK
<1>3. \A th \in Busy : caching[th].func \in Func \ {f}
  BY <1>1, <1>2, BusyFacts
<1> QED
  BY <1>1, <1>2, <1>3 DEF AddressesOK

LEMMA AttachAddresses ==
  ASSUME AddressIInv, NEW f \in Func, NEW n \in Name, NEW c \in Closures(Default), Attach(f, n, c)
  PROVE  AddressesOK'
<1>1. Structure /\ TypeOK /\ OneOwner /\ AddressesOK
  BY DEF AddressIInv, LifeIInv, Structure, Typed, Ownership
<1>2. f \in roots /\ UNCHANGED <<live, closure, address, caching>>
  BY DEF Attach, cacheVars
<1>3. CASE handle[f] # None
  <2>1. UNCHANGED <<handle, function>>
    BY <1>3 DEF Attach
  <2> QED
    BY <1>1, <1>2, <2>1, QuietAddresses
<1>4. CASE handle[f] = None
  <2>1. /\ c \notin held /\ handle' = [handle EXCEPT ![f] = c]
        /\ function' = [function EXCEPT ![c] = address[f]]
    BY <1>4 DEF Attach
  <2>2. ASSUME NEW g \in live \cap Func, g # f, handle[g] # None
        PROVE  handle[g] \in Closures(Default) /\ handle[g] # c
    BY <1>1, <2>1, <2>2, OwnedFacts DEF OneOwner, TypeOK
  <2>3. /\ handle'[f] = c /\ function'[c] = address[f]
        /\ \A g \in Func : g # f => handle'[g] = handle[g]
        /\ \A d \in Closures(Default) : d # c => function'[d] = function[d]
    BY <1>1, <2>1 DEF TypeOK
  <2>4. \A th \in Busy : caching[th].func \in Func /\ caching[th].func # f
    BY <1>1, <1>2, BusyFacts
  <2> QED
    BY <1>1, <1>2, <2>2, <2>3, <2>4 DEF AddressesOK, Busy
<1> QED
  BY <1>3, <1>4

LEMMA EndAddresses ==
  ASSUME AddressIInv, NEW th \in Thread, NEW c \in Closure, EndPassProc(th, c)
  PROVE  AddressesOK'
<1> DEFINE f == caching[th].func
<1>1. Structure /\ TypeOK /\ AddressesOK /\ Typed
  BY DEF AddressIInv, LifeIInv, Structure, Typed
<1>2. /\ th \in Busy /\ UNCHANGED <<live, handle, function>>
      /\ closure' = [closure EXCEPT ![f] = c] /\ address' = [address EXCEPT ![f] = c]
      /\ caching' = [caching EXCEPT ![th] = None]
  BY DEF EndPassProc, Busy
<1>3. f \in live \cap Func /\ handle[f] = None
  BY <1>1, <1>2, BusyFacts DEF AddressesOK
<1> HIDE DEF f
<1>4. /\ closure'[f] = c /\ address'[f] = c
      /\ \A g \in Func : g # f => closure'[g] = closure[g] /\ address'[g] = address[g]
  BY <1>1, <1>2, <1>3 DEF TypeOK
<1>5. \A u \in Busy' : u \in Busy /\ caching'[u] = caching[u]
  BY <1>1, <1>2 DEF Busy, Typed
<1> QED
  BY <1>1, <1>2, <1>3, <1>4, <1>5 DEF AddressesOK

LEMMA SweepAddresses ==
  ASSUME AddressIInv, NEW x \in live \ Reachable, SweepFunction(x) \/ SweepOther(x)
  PROVE  AddressesOK'
<1>1. Structure /\ TypeOK /\ OneOwner /\ AddressesOK
  BY DEF AddressIInv, LifeIInv, Structure, Typed, Ownership
<1>2. CASE SweepOther(x)
  <2>1. UNCHANGED <<closure, handle, address, function, caching>> /\ live' \subseteq live
    BY <1>2 DEF SweepOther, objectVars, cacheVars
  <2> QED
    BY <1>1, <2>1, QuietAddresses
<1>3. CASE SweepFunction(x)
  <2>1. /\ x \in Func /\ live' = live \ {x} /\ caching' = caching
        /\ closure' = [closure EXCEPT ![x] = None] /\ handle' = [handle EXCEPT ![x] = None]
        /\ address' = [address EXCEPT ![x] = None]
        /\ function' = [c \in Closures(Default) |-> IF c = handle[x] THEN None ELSE function[c]]
    BY <1>3 DEF SweepFunction, cacheVars
  <2>2. \A g \in Func : g # x => closure'[g] = closure[g] /\ handle'[g] = handle[g] /\ address'[g] = address[g]
    BY <1>1, <2>1 DEF TypeOK
  <2>3. ASSUME NEW g \in live \cap Func, g # x, handle[g] # None
        PROVE  function'[handle[g]] = function[handle[g]]
    <3>1. handle[g] \in Closures(Default)
      BY <1>1, <2>3 DEF TypeOK
    <3>2. handle[g] # handle[x]
      BY <1>1, <2>1, <2>3, OwnedFacts DEF OneOwner
    <3> QED
      BY <2>1, <3>1, <3>2
  <2>4. \A th \in Busy : caching[th].func \in Func /\ caching[th].func # x
    <3>1. \A th \in Busy : caching[th].func \in Reachable
      BY <1>1, StackFacts, ReachClosed DEF Base
    <3> QED
      BY <1>1, <3>1, BusyFacts
  <2> QED
    BY <1>1, <2>1, <2>2, <2>3, <2>4 DEF AddressesOK, Busy
<1> QED
  BY <1>2, <1>3

LEMMA RubyStepAddresses ==
  ASSUME AddressIInv, RubyStep
  PROVE  AddressesOK'
<1>1. LifeIInv /\ Structure /\ TypeOK /\ AddressesOK
  BY DEF AddressIInv, LifeIInv, Structure, Typed
<1>2. ASSUME NEW f \in Func, NEW t \in FType, NEW p \in Proc \cup {None}, NEW c \in Closures(t) \cup {None},
             MakeFunction(f, t, p, c), caching' = caching
      PROVE  AddressesOK'
  <2>1. Made(f, t, p, c)
    BY <1>1, <1>2, MakeFacts
  <2> QED
    BY <1>2, <2>1, MadeAddresses DEF Busy
<1>3. ASSUME NEW f \in Func, NEW t \in FType, NewFromPointer(f, t) \/ NewFails(f, t)
      PROVE  AddressesOK'
  BY <1>2, <1>3 DEF NewFromPointer, NewFails, cacheVars
<1>4. ASSUME NEW f \in Func, NEW t \in FType, NEW p \in Proc, NEW c \in Closures(t),
             NewFromProc(f, t, p, c) \/ PassProc(p, t, f, c)
      PROVE  AddressesOK'
  BY <1>2, <1>4 DEF NewFromProc, PassProc
<1>5. ASSUME \/ \E p \in Proc, t \in FType : PassCachedProc(p, t)
             \/ \E f \in Func : PassFunction(f) \/ \E on \in BOOLEAN : SetAutorelease(f, on)
             \/ \E f \in Func, n \in Name : AttachFails(f, n)
             \/ (\E x \in Object : Drop(x)) \/ (\E n \in Name : Fetch(n))
      PROVE  AddressesOK'
  <2>1. UNCHANGED <<live, closure, handle, address, function, caching>>
    BY <1>5 DEF PassCachedProc, PassFunction, SetAutorelease, AttachFails, Drop, Fetch, objectVars, cacheVars
  <2> QED
    BY <1>1, <2>1, QuietAddresses
<1>6. ASSUME NEW f \in Func, Release(f)
      PROVE  AddressesOK'
  <2>1. closure' = [closure EXCEPT ![f] = None] /\ UNCHANGED <<live, handle, address, function, caching>>
    BY <1>6 DEF Release, cacheVars
  <2>2. \A g \in Func : closure'[g] = closure[g] \/ closure'[g] = None
    BY <1>1, <2>1 DEF TypeOK
  <2> QED
    BY <1>1, <2>1, <2>2, QuietAddresses
<1>7. ASSUME NEW f \in Func, NEW n \in Name, NEW c \in Closures(Default), Attach(f, n, c)
      PROVE  AddressesOK'
  BY <1>7, AttachAddresses
<1> QED
  BY <1>3, <1>4, <1>5, <1>6, <1>7 DEF RubyStep

LEMMA AddressStep == AddressIInv /\ [Next]_vars => AddressIInv'
<1> SUFFICES ASSUME AddressIInv, [Next]_vars
             PROVE  AddressesOK'
  BY LifeStep DEF AddressIInv
<1>1. LifeIInv /\ Structure /\ AddressesOK
  BY DEF AddressIInv, LifeIInv
<1>2. CASE RubyStep
  BY <1>2, RubyStepAddresses
<1>3. ASSUME NEW th \in Thread, NEW f \in Func, NEW t \in FType, NEW p \in Proc,
             BeginPassProc(th, p, t, f)
      PROVE  AddressesOK'
  <2>1. Made(f, t, None, None)
    BY <1>1, <1>3, BeginStructure
  <2>2. \A u \in Busy' : (u \in Busy /\ caching'[u] = caching[u]) \/ caching'[u].func = f
    BY <1>1, <1>3 DEF BeginPassProc, Busy, Structure, Typed
  <2> QED
    BY <2>1, <2>2, MadeAddresses
<1>4. ASSUME NEW th \in Thread, NEW c \in Closure, EndPassProc(th, c)
      PROVE  AddressesOK'
  BY <1>4, EndAddresses
<1>5. ASSUME NEW x \in live \ Reachable, SweepFunction(x) \/ SweepOther(x)
      PROVE  AddressesOK'
  BY <1>5, SweepAddresses
<1>6. CASE UNCHANGED vars
  BY <1>1, <1>6, QuietAddresses DEF vars, objectVars, cacheVars
<1> QED
  BY <1>2, <1>3, <1>4, <1>5, <1>6 DEF Next

\* A method jumps to the trampoline of the function stashed under its name
\* (RegisterAttach#attach, function_attach), which calls native code or the
\* trampoline of that same function: unless its last attach raised, or the
\* function was freed
THEOREM MethodsLeadToStashed == Spec => []AttachedMethodsValid
<1>1. AddressIInv => AttachedMethodsValid
  <2> SUFFICES ASSUME AddressIInv, NEW n \in Name \ torn, method[n] # None
               PROVE  LeadsToStashed(n) /\ CallsItsFunction(n)
    BY DEF AttachedMethodsValid
  <2> DEFINE f == funcs[n]
  <2>1. Structure /\ OneOwner /\ MethodsOK /\ AddressesOK
    BY DEF AddressIInv, LifeIInv, Ownership
  <2>2. f \in Func /\ handle[f] = method[n]
    BY <2>1 DEF MethodsOK
  <2>3. f \in live
    BY <2>1, <2>2, StashFacts, NoneAssumption DEF StashedLive, Object
  <2> HIDE DEF f
  <2>4. method[n] \in Owned(f)
    BY <2>2 DEF Owned
  <2>5. method[n] \in held /\ info[method[n]] = f
    BY <2>1, <2>2, <2>3, <2>4 DEF OneOwner
  <2>6. closure[f] # None => closure[f] \in held /\ info[closure[f]] = f
    BY <2>1, <2>2, <2>3 DEF OneOwner, Owned
  <2>7. function[method[n]] = address[f] /\ (closure[f] # None => address[f] = closure[f])
    BY <2>1, <2>2, <2>3 DEF AddressesOK
  <2>8. LeadsToStashed(n)
    BY <2>3, <2>5 DEF LeadsToStashed, f
  <2>9. CallsItsFunction(n)
    BY <2>5, <2>6, <2>7 DEF CallsItsFunction
  <2> QED
    BY <2>8, <2>9
<1>2. Init => AddressIInv
  BY InitLife, InitAddresses DEF AddressIInv
<1> QED
  BY <1>1, <1>2, AddressStep, PTL DEF Spec

-----------------------------------------------------------------------------
(* Callbacks that native code stored, where Ruby runs in one thread.  With *)
(* two, the thread switch of the first function of the process lets one    *)
(* cached function overwrite another.                                      *)

OneThread == \A a, b \in Thread : a = b

\* Nothing happens to the proc between the lookup and the caching
PendingFresh ==
  \A th \in Busy :
    /\ caching[th].saw = Seen(caching[th].proc)
    /\ Cached(caching[th].proc, type[caching[th].func]) = None

\* What was given for a proc stays cached by it
ProcGivenOK ==
  \A g \in given : g.by \in Proc \cap Reachable =>
    g.func \in References(g.by) \ {None} /\ closure[g.func] = g.closure

LoneIInv == LifeIInv /\ PendingFresh /\ ProcGivenOK

\* Nothing is overwritten if nothing was cached since the lookup
LEMMA StoreKeeps ==
  ASSUME TypeOK, NEW p \in Proc, NEW t \in FType, NEW f \in Func,
         Cached(p, t) = None, StoreInCache(p, t, f, Seen(p))
  PROVE  /\ \A q \in Proc : References(q) \ {None} \subseteq References(q)'
         /\ f \in References(p)' \ {None}
         /\ \A q \in Proc : cbref[q] # None => cbref'[q] = cbref[q]
<1>1. /\ cbref \in [Proc -> Func \cup {None}]
      /\ cbtable \in [Proc -> [FType -> Func \cup {None}] \cup {None}]
  BY DEF TypeOK
<1>2. f # None
  BY NoneAssumption DEF Object
<1>3. \A q \in Proc : References(q) = {cbref[q]} \cup (IF cbtable[q] = None THEN {} ELSE Range(cbtable[q]))
  BY KindsAssumption DEF References
<1>4. \A q \in Proc : References(q)' = {cbref'[q]} \cup (IF cbtable'[q] = None THEN {} ELSE Range(cbtable'[q]))
  BY KindsAssumption DEF References
<1>5. CASE cbref[p] = None
  <2>1. cbref' = [cbref EXCEPT ![p] = f] /\ cbtable' = cbtable
    BY <1>5 DEF StoreInCache, Seen
  <2>2. \A q \in Proc : cbref'[q] = IF q = p THEN f ELSE cbref[q]
    BY <1>1, <2>1
  <2> QED
    BY <1>2, <1>3, <1>4, <1>5, <2>1, <2>2
<1>6. CASE cbref[p] # None
  <2> DEFINE table == IF cbtable[p] = None
                        THEN [[u \in FType |-> None] EXCEPT ![t] = f]
                        ELSE [cbtable[p] EXCEPT ![t] = f]
  <2>1. cbref' = cbref /\ cbtable' = [cbtable EXCEPT ![p] = table]
    BY <1>1, <1>6 DEF StoreInCache, Seen
  <2>2. table \in [FType -> Func \cup {None}] /\ table # None
    <3>1. table \in [FType -> Func \cup {None}]
      BY <1>1
    <3> QED
      BY <3>1, NoneAssumption
  <2>3. table[t] = f
    BY <1>1
  <2>4. cbtable[p] # None => \A u \in FType : cbtable[p][u] = None \/ table[u] = cbtable[p][u]
    <3>1. cbtable[p] # None => cbtable[p][t] = None
      BY <1>6 DEF Cached
    <3> QED
      BY <1>1, <3>1
  <2>5. cbtable[p] # None => Range(cbtable[p]) = {cbtable[p][u] : u \in FType}
    <3>1. cbtable[p] # None => cbtable[p] \in [FType -> Func \cup {None}]
      BY <1>1
    <3> QED
      BY <3>1, RangeFacts
  <2> HIDE DEF table
  <2>6. Range(table) = {table[u] : u \in FType}
    BY <2>2, RangeFacts
  <2>7. cbtable'[p] = table /\ \A q \in Proc \ {p} : cbtable'[q] = cbtable[q]
    BY <1>1, <2>1
  <2>8. References(p)' = {cbref[p]} \cup Range(table)
    BY <1>4, <2>1, <2>2, <2>7
  <2>9. References(p) \ {None} \subseteq References(p)' /\ f \in References(p)'
    BY <1>3, <2>3, <2>4, <2>5, <2>6, <2>8
  <2>10. \A q \in Proc \ {p} : References(q)' = References(q)
    BY <1>3, <1>4, <2>1, <2>7
  <2> QED
    BY <1>2, <2>1, <2>9, <2>10
<1> QED
  BY <1>5, <1>6

LEMMA KeepGiven ==
  ASSUME Structure, ProcGivenOK, Proc \cap Reachable' \subseteq Reachable,
         \A q \in Proc : References(q) \ {None} \subseteq References(q)',
         \A h \in Func \cap Reachable : h \notin roots /\ closure[h] # None => closure'[h] = closure[h],
         \A g \in given' : \/ g \in given \/ g.by \notin Proc
                           \/ g.func \in References(g.by)' \ {None} /\ closure'[g.func] = g.closure
  PROVE  ProcGivenOK'
<1> SUFFICES ASSUME NEW g \in given', g.by \in Proc, g.by \in Reachable', g \in given
             PROVE  g.func \in References(g.by)' \ {None} /\ closure'[g.func] = g.closure
  BY DEF ProcGivenOK
<1>1. g.by \in Proc \cap Reachable
  OBVIOUS
<1>2. g.func \in References(g.by) \ {None} /\ closure[g.func] = g.closure
  BY <1>1 DEF ProcGivenOK
<1>3. TypeOK
  BY DEF Structure, Typed
<1>4. g.func \in Func \cap Reachable
  BY <1>1, <1>2, <1>3, CachedIsFunction, ReachClosed
<1>5. g.func \notin roots /\ closure[g.func] # None
  BY <1>1, <1>2 DEF Structure, CachesOK
<1> QED
  BY <1>1, <1>2, <1>4, <1>5

LEMMA QuietCaches ==
  UNCHANGED <<cbref, cbtable>> => \A q \in Proc : References(q)' = References(q)
BY KindsAssumption DEF References

LEMMA RubyStepGiven ==
  ASSUME LoneIInv, RubyStep
  PROVE  ProcGivenOK' /\ caching' = caching
<1>1. Structure /\ TypeOK /\ OneOwner /\ LiveOK /\ ProcGivenOK
  BY DEF LoneIInv, LifeIInv, Ownership, Structure, Typed
<1>2. \A f \in Func : {f} \cap Proc = {} /\ (f \notin live => f \notin Reachable)
  BY <1>1, KindsAssumption DEF LiveOK
<1>3. ASSUME NEW f \in Func, NEW t \in FType, NEW p \in Proc \cup {None}, NEW c \in Closures(t) \cup {None},
             \/ c = None /\ p = None /\ (NewFromPointer(f, t) \/ NewFails(f, t))
             \/ NewFromProc(f, t, p, c)
      PROVE  ProcGivenOK' /\ caching' = caching
  <2>1. /\ t \in roots /\ p \in roots \cup {None} /\ MakeFunction(f, t, p, c)
        /\ roots' \subseteq roots \cup {f} /\ ready' \in BOOLEAN
        /\ UNCHANGED <<cbref, cbtable, caching, funcs, method, torn, given, kept>>
    BY <1>1, <1>3 DEF NewFromPointer, NewFails, NewFromProc, cacheVars, TypeOK
  <2>2. /\ Made(f, t, p, c) /\ Reachable' \subseteq Reachable \cup {f}
        /\ \A q \in Proc : References(q)' = References(q)
    BY <1>1, <2>1, NewStructure
  <2>3. \A h \in Func \cap Reachable : closure'[h] = closure[h]
    BY <1>2, <2>2 DEF Made
  <2> QED
    BY <1>1, <1>2, <2>1, <2>2, <2>3, KeepGiven
<1>4. ASSUME NEW f \in Func, NEW t \in FType, NEW p \in Proc, NEW c \in Closures(t),
             PassProc(p, t, f, c)
      PROVE  ProcGivenOK' /\ caching' = caching
  <2>1. Made(f, t, p, c) /\ Reachable' \subseteq Reachable \cup {f}
    BY <1>1, <1>4, PassStructure
  <2>2. /\ \A q \in Proc : References(q) \ {None} \subseteq References(q)'
        /\ f \in References(p)' \ {None}
    BY <1>1, <1>4, StoreKeeps DEF PassProc
  <2>3. \A h \in Func \cap Reachable : closure'[h] = closure[h]
    BY <1>2, <2>1 DEF Made
  <2>4. c # None /\ caching' = caching /\ given' = given \cup {[closure |-> c, func |-> f, by |-> p]}
    BY <1>4, <2>1 DEF PassProc, Give, Made
  <2>5. closure'[f] = c
    BY <2>1 DEF Made
  <2>6. \A g \in given' : g \in given \/ (g.by = p /\ g.func = f /\ g.closure = c)
    BY <2>4
  <2> QED
    BY <1>1, <1>2, <2>1, <2>2, <2>3, <2>4, <2>5, <2>6, KeepGiven
<1>5. ASSUME NEW p \in Proc, NEW t \in FType, PassCachedProc(p, t)
      PROVE  ProcGivenOK' /\ caching' = caching
  <2> DEFINE f == Cached(p, t)
  <2>1. Reachable' \subseteq Reachable
        /\ given' = given \cup {[closure |-> closure[f], func |-> f, by |-> p]}
    BY <1>1, <1>5, PassCachedStructure
  <2>2. UNCHANGED <<closure, cbref, cbtable, caching>>
    BY <1>5 DEF PassCachedProc, objectVars, cacheVars
  <2>3. f \in References(p) \ {None}
    BY <1>1, <1>5, CachedFacts DEF PassCachedProc
  <2> HIDE DEF f
  <2>4. \A g \in given' : g \in given \/ (g.by = p /\ g.func = f /\ g.closure = closure[f])
    BY <2>1
  <2>5. \A g \in given' : g \in given \/ (g.func \in References(g.by)' \ {None} /\ closure'[g.func] = g.closure)
    BY <2>2, <2>3, <2>4, QuietCaches
  <2> QED
    BY <1>1, <2>1, <2>2, <2>5, QuietCaches, KeepGiven
<1>6. ASSUME NEW f \in Func, \/ PassFunction(f) \/ Release(f)
                             \/ \E on \in BOOLEAN : SetAutorelease(f, on)
                             \/ \E n \in Name : AttachFails(f, n) \/ \E c \in Closures(Default) : Attach(f, n, c)
      PROVE  ProcGivenOK' /\ caching' = caching
  <2>1. Reachable' \subseteq Reachable
    BY <1>1, <1>6, PassFunctionStructure, ReleaseStructure, SetAutoreleaseStructure, AttachStructure
  <2>2. UNCHANGED <<cbref, cbtable, caching>> /\ f \in roots
    BY <1>6 DEF PassFunction, Release, SetAutorelease, AttachFails, Attach, cacheVars
  <2>3. \A h \in Func : h # f => closure'[h] = closure[h]
    BY <1>1, <1>6 DEF PassFunction, Release, SetAutorelease, AttachFails, Attach, objectVars, TypeOK
  <2>4. \A g \in given' : g \in given \/ g.by = f
    BY <1>6 DEF PassFunction, Give, Release, SetAutorelease, AttachFails, Attach
  <2> QED
    BY <1>1, <1>2, <2>1, <2>2, <2>3, <2>4, QuietCaches, KeepGiven
<1>7. ASSUME (\E x \in Object : Drop(x)) \/ (\E n \in Name : Fetch(n))
      PROVE  ProcGivenOK' /\ caching' = caching
  <2>1. Reachable' \subseteq Reachable /\ UNCHANGED <<closure, cbref, cbtable, caching, given>>
    BY <1>1, <1>7, DropStructure DEF cacheVars
  <2> QED
    BY <1>1, <2>1, QuietCaches, KeepGiven
<1>8. \A f \in Func, t \in FType :
        NewFromPointer(f, t) \/ NewFails(f, t) => ProcGivenOK' /\ caching' = caching
  BY <1>3
<1>9. \A f \in Func, t \in FType, p \in Proc : \A c \in Closures(t) :
        NewFromProc(f, t, p, c) => ProcGivenOK' /\ caching' = caching
  BY <1>3
<1> HIDE <1>3
<1> QED
  BY <1>4, <1>5, <1>6, <1>7, <1>8, <1>9 DEF RubyStep

LEMMA LoneStep ==
  ASSUME OneThread
  PROVE  LoneIInv /\ [Next]_vars => LoneIInv'
<1> SUFFICES ASSUME LoneIInv, [Next]_vars
             PROVE  LoneIInv'
  OBVIOUS
<1>1. Structure /\ Typed /\ TypeOK /\ OneOwner /\ LiveOK /\ ProcGivenOK /\ PendingFresh /\ LifeIInv
  BY DEF LoneIInv, LifeIInv, Ownership, Structure, Typed
<1>2. LifeIInv' /\ TypeOK'
  BY <1>1, LifeStep DEF LifeIInv, Structure, Typed
<1>3. ASSUME NEW th \in Thread, caching[th] = None
      PROVE  Busy = {}
  BY <1>3 DEF OneThread, Busy
<1>4. CASE RubyStep /\ \E th \in Thread : caching[th] = None
  <2>1. ProcGivenOK' /\ Busy' = {}
    BY <1>3, <1>4, RubyStepGiven DEF Busy
  <2> QED
    BY <1>2, <2>1 DEF LoneIInv, PendingFresh
<1>5. ASSUME NEW th \in Thread, NEW f \in Func, NEW t \in FType, NEW p \in Proc,
             BeginPassProc(th, p, t, f)
      PROVE  LoneIInv'
  <2>1. /\ Made(f, t, None, None) /\ Reachable' \subseteq Reachable \cup {f}
        /\ \A q \in Proc : References(q)' = References(q)
    BY <1>1, <1>5, BeginStructure
  <2>2. /\ p \in roots /\ Cached(p, t) = None /\ caching[th] = None
        /\ caching' = [caching EXCEPT ![th] = [func |-> f, proc |-> p, saw |-> Seen(p)]]
        /\ UNCHANGED <<cbref, cbtable, given>>
    BY <1>5 DEF BeginPassProc
  <2>3. f \notin Reachable
    BY <1>1, <2>1 DEF LiveOK, Made
  <2>4. \A h \in Func \cap Reachable : closure'[h] = closure[h] /\ type'[h] = type[h]
    BY <2>1, <2>3 DEF Made
  <2>5. ProcGivenOK'
    <3>1. {f} \cap Proc = {}
      BY KindsAssumption
    <3> QED
      BY <1>1, <2>1, <2>2, <2>4, <3>1, KeepGiven
  <2>6. Cached(p, t)' = None /\ type'[f] = t
    <3>1. p \in Reachable
      BY <2>2, ReachClosed, <1>1 DEF Base
    <3>2. cbref[p] # None => cbref[p] \in Func \cap Reachable
      BY <1>1, <3>1, ReferenceFacts, CachedIsFunction, ReachClosed
    <3> QED
      BY <2>1, <2>2, <2>4, <3>2 DEF Cached, Made
  <2>7. \A u \in Busy' : caching'[u] = [func |-> f, proc |-> p, saw |-> Seen(p)]
    BY <1>1, <1>3, <2>2 DEF Typed, Busy
  <2>8. Seen(p)' = Seen(p)
    BY <2>2 DEF Seen
  <2> QED
    BY <1>2, <2>5, <2>6, <2>7, <2>8 DEF LoneIInv, PendingFresh
<1>6. ASSUME NEW th \in Thread, NEW c \in Closure, EndPassProc(th, c)
      PROVE  LoneIInv'
  <2>1. PICK f \in Func, p \in Proc :
          /\ f = caching[th].func /\ p = caching[th].proc
          /\ type[f] \in FType /\ closure[f] = None
          /\ Reachable' \subseteq Reachable
    BY <1>1, <1>6, EndStructure
  <2>2. th \in Busy /\ caching[th].saw = Seen(p) /\ Cached(p, type[f]) = None
    BY <1>1, <1>6, <2>1 DEF EndPassProc, Busy, PendingFresh
  <2>3. /\ StoreInCache(p, type[f], f, Seen(p)) /\ closure' = [closure EXCEPT ![f] = c]
        /\ info' = [info EXCEPT ![c] = f] /\ Give(c, p) /\ caching' = [caching EXCEPT ![th] = None]
    BY <1>6, <2>1, <2>2 DEF EndPassProc
  <2>4. /\ \A q \in Proc : References(q) \ {None} \subseteq References(q)'
        /\ f \in References(p)' \ {None}
    BY <1>1, <2>1, <2>2, <2>3, StoreKeeps
  <2>5. closure'[f] = c /\ \A h \in Func : h # f => closure'[h] = closure[h]
    BY <1>1, <2>3 DEF TypeOK
  <2>6. given' = given \cup {[closure |-> c, func |-> f, by |-> p]}
    BY <1>1, <2>3 DEF TypeOK, Give
  <2>7. ProcGivenOK'
    BY <1>1, <2>1, <2>4, <2>5, <2>6, KeepGiven
  <2>8. Busy' = {}
    BY <1>1, <2>3 DEF Typed, OneThread, Busy
  <2> QED
    BY <1>2, <2>7, <2>8 DEF LoneIInv, PendingFresh
<1>7. ASSUME NEW x \in live \ Reachable, SweepFunction(x) \/ SweepOther(x)
      PROVE  LoneIInv'
  <2>1. Reachable' \subseteq Reachable
    BY <1>1, <1>7, SweepStructure
  <2>2. UNCHANGED <<cbref, cbtable, caching>> /\ given' \subseteq given
    BY <1>7 DEF SweepFunction, SweepOther, cacheVars
  <2>3. \A h \in Func \cap Reachable : closure'[h] = closure[h] /\ type'[h] = type[h]
    BY <1>1, <1>7 DEF SweepFunction, SweepOther, objectVars, TypeOK
  <2>4. ProcGivenOK'
    BY <1>1, <2>1, <2>2, <2>3, QuietCaches, KeepGiven
  <2>5. PendingFresh'
    <3>1. ASSUME NEW th \in Busy
          PROVE  /\ caching[th].saw = Seen(caching[th].proc)'
                 /\ Cached(caching[th].proc, type[caching[th].func])' = None
      <4>1. PICK f \in Func, p \in Proc : f = caching[th].func /\ p = caching[th].proc
        BY <1>1, <3>1 DEF Typed, Busy, PendingCall
      <4>2. {f, p} \subseteq Reachable
        BY <1>1, <3>1, <4>1, StackFacts, ReachClosed DEF Base
      <4>3. cbref[p] # None => cbref[p] \in Func \cap Reachable
        BY <1>1, <4>2, ReferenceFacts, CachedIsFunction, ReachClosed
      <4>4. caching[th].saw = Seen(p) /\ Cached(p, type[f]) = None
        BY <1>1, <3>1, <4>1 DEF PendingFresh
      <4>5. type'[f] = type[f] /\ (cbref[p] # None => type'[cbref[p]] = type[cbref[p]])
        BY <2>3, <4>2, <4>3
      <4> QED
        BY <2>2, <4>1, <4>4, <4>5 DEF Cached, Seen
    <3> QED
      BY <2>2, <3>1 DEF PendingFresh, Busy
  <2> QED
    BY <1>2, <2>4, <2>5 DEF LoneIInv
<1>8. CASE UNCHANGED vars
  <2>1. UNCHANGED <<roots, type, proc, closure, cbref, cbtable, caching, funcs, given>>
    BY <1>8 DEF vars, objectVars, cacheVars
  <2>2. Reachable' = Reachable
    BY <2>1 DEF Reachable, Mark, References, OnStack
  <2>3. PendingFresh' /\ ProcGivenOK'
    BY <1>1, <2>1, <2>2, QuietCaches DEF PendingFresh, ProcGivenOK, Busy, Cached, Seen
  <2> QED
    BY <1>2, <2>3 DEF LoneIInv
<1> QED
  BY <1>4, <1>5, <1>6, <1>7, <1>8 DEF Next

LEMMA LoneInvariant ==
  ASSUME OneThread
  PROVE  Spec => []LoneIInv
<1>1. Init => LoneIInv
  <2>1. Init => PendingFresh /\ ProcGivenOK
    BY DEF Init, PendingFresh, ProcGivenOK, Busy
  <2> QED
    BY <2>1, InitLife DEF LoneIInv
<1>2. LoneIInv /\ [Next]_vars => LoneIInv'
  BY LoneStep
<1> QED
  BY <1>1, <1>2, PTL DEF Spec

\* With one Ruby thread, a callback that native code stored stays callable while
\* the proc or function that was passed is reachable and not freed
\* (callback_param, rbffi_Function_ForProc, function_free)
THEOREM CallbacksStayValid ==
  ASSUME OneThread
  PROVE  Spec => []StoredCallbacksValid
<1>1. LoneIInv => StoredCallbacksValid
  <2> SUFFICES ASSUME LoneIInv, NEW g \in given, g.by \in Reachable
               PROVE  /\ g.closure \in held /\ info[g.closure] = g.func
                      /\ {g.func, type[g.func], proc[g.func]} \subseteq live
    BY DEF StoredCallbacksValid
  <2>1. /\ Structure /\ TypeOK /\ OneOwner /\ FunctionsOK /\ ProcGivenOK /\ GivenOK
        /\ Reachable \subseteq live
    BY DEF LoneIInv, LifeIInv, Ownership, Structure, Typed, LiveOK
  <2>2. g.closure \in Closure /\ g.func \in Func /\ g.by \in Func \cup Proc
    BY <2>1 DEF TypeOK
  <2>3. g.func \in Func \cap Reachable /\ closure[g.func] = g.closure
    <3>1. CASE g.by \in Func
      BY <2>1, <3>1 DEF GivenOK
    <3>2. CASE g.by \in Proc
      <4>1. g.func \in References(g.by) \ {None} /\ closure[g.func] = g.closure
        BY <2>1, <3>2 DEF ProcGivenOK
      <4> QED
        BY <2>1, <2>2, <4>1, ReachClosed
    <3> QED
      BY <2>2, <3>1, <3>2
  <2>4. g.closure # None
    BY <2>2, NoneAssumption
  <2>5. g.closure \in held /\ info[g.closure] = g.func
    BY <2>1, <2>3, <2>4, OwnedFacts DEF OneOwner
  <2>6. type[g.func] \in FType /\ proc[g.func] \in Proc
    BY <2>1, <2>3, <2>4 DEF FunctionsOK
  <2>7. {type[g.func], proc[g.func]} \subseteq References(g.func) \ {None}
    BY <2>3, <2>6, FunctionReferences, NoneAssumption DEF Object
  <2> QED
    BY <2>1, <2>3, <2>5, <2>7, ReachClosed
<1> QED
  BY <1>1, LoneInvariant, PTL

\* With one Ruby thread, the function a proc has in its ivar is never replaced
\* (Function.c:428)
THEOREM CachedFunctionStays ==
  ASSUME OneThread
  PROVE  Spec => CacheNeverOverwritten
<1>1. LoneIInv /\ [Next]_vars => [\A p \in Proc : cbref[p] # None => cbref'[p] = cbref[p]]_vars
  <2> SUFFICES ASSUME LoneIInv, Next
               PROVE  \A p \in Proc : cbref[p] # None => cbref'[p] = cbref[p]
    OBVIOUS
  <2>1. Structure /\ TypeOK /\ PendingFresh
    BY DEF LoneIInv, LifeIInv, Structure, Typed
  <2>2. ASSUME NEW p \in Proc, NEW t \in FType, NEW f \in Func, NEW c \in Closures(t), PassProc(p, t, f, c)
        PROVE  \A q \in Proc : cbref[q] # None => cbref'[q] = cbref[q]
    BY <2>1, <2>2, StoreKeeps DEF PassProc
  <2>3. ASSUME NEW th \in Thread, NEW c \in Closure, EndPassProc(th, c)
        PROVE  \A q \in Proc : cbref[q] # None => cbref'[q] = cbref[q]
    <3>1. PICK f \in Func, p \in Proc :
            f = caching[th].func /\ p = caching[th].proc /\ type[f] \in FType
      BY <2>1, <2>3, EndStructure
    <3>2. caching[th].saw = Seen(p) /\ Cached(p, type[f]) = None
      BY <2>1, <2>3, <3>1 DEF EndPassProc, Busy, PendingFresh
    <3>3. StoreInCache(p, type[f], f, Seen(p))
      BY <2>3, <3>1, <3>2 DEF EndPassProc
    <3> QED
      BY <2>1, <3>1, <3>2, <3>3, StoreKeeps
  <2>4. ASSUME NEW f \in Func, NEW t \in FType, NEW p \in Proc, NEW c,
               NewFromPointer(f, t) \/ NewFails(f, t) \/ NewFromProc(f, t, p, c)
        PROVE  cbref' = cbref
    BY <2>4 DEF NewFromPointer, NewFails, NewFromProc, cacheVars
  <2>5. ASSUME NEW f \in Func, \/ PassFunction(f) \/ Release(f)
                               \/ \E on \in BOOLEAN : SetAutorelease(f, on)
                               \/ \E n \in Name : AttachFails(f, n) \/ \E c \in Closures(Default) : Attach(f, n, c)
        PROVE  cbref' = cbref
    BY <2>5 DEF PassFunction, Release, SetAutorelease, AttachFails, Attach, cacheVars
  <2>6. ASSUME NEW p, NEW t, PassCachedProc(p, t)
        PROVE  cbref' = cbref
    BY <2>6 DEF PassCachedProc, cacheVars
  <2>7. (\E x \in Object : Drop(x)) \/ (\E n \in Name : Fetch(n)) => cbref' = cbref
    BY DEF Drop, Fetch, cacheVars
  <2>8. CASE RubyStep
    <3>1. \A f \in Func, t \in FType : NewFromPointer(f, t) \/ NewFails(f, t) => cbref' = cbref
      BY DEF NewFromPointer, NewFails, cacheVars
    <3> QED
      BY <2>2, <2>4, <2>5, <2>6, <2>7, <2>8, <3>1 DEF RubyStep
  <2>9. ASSUME NEW th, NEW p, NEW t, NEW f, BeginPassProc(th, p, t, f)
        PROVE  cbref' = cbref
    BY <2>9 DEF BeginPassProc
  <2>10. ASSUME NEW x, SweepFunction(x) \/ SweepOther(x)
         PROVE  cbref' = cbref
    BY <2>10 DEF SweepFunction, SweepOther, cacheVars
  <2> QED
    BY <2>3, <2>8, <2>9, <2>10 DEF Next
<1> QED
  BY <1>1, LoneInvariant, PTL DEF Spec, CacheNeverOverwritten

-----------------------------------------------------------------------------
(* The pools, as their clients use them: each is a ClosureStore. *)

VARIABLE mapped   \* history: the memory a pool has, as ClosureStore describes it

Pools        == FType \cup {Default}
Owns(pool)   == pool = Default \/ pool \in live
HeldOf(pool) == held \cap Closures(pool)

Store(pool) == INSTANCE ClosureStore WITH
  Handle <- Closures(pool), owned <- Owns(pool), held <- HeldOf(pool), backed <- mapped[pool]

\* The history grows with what is handed out, and ends with the last reference
Remember ==
  mapped' = [pool \in Pools |->
               IF Owns(pool)' \/ HeldOf(pool)' # {} THEN mapped[pool] \cup HeldOf(pool)' ELSE {}]

HistoryInit == Init /\ mapped = [pool \in Pools |-> {}]
HistorySpec == HistoryInit /\ [][Next /\ Remember]_<<vars, mapped>>

\* A function's closure comes from the pool of its type
OfItsPool ==
  \A f \in live \cap Func : closure[f] # None => closure[f].pool = type[f]

\* What a step does to the pools: it takes a closure of one that is owned, gives back
\* some that are held, one to each pool at most, or drops the reference of a type
Alive == live \cap FType
PoolUse ==
  \/ /\ Alive' = Alive
     /\ \E c \in Closure \ held : Owns(c.pool) /\ held' = held \cup {c}
  \/ /\ Alive' = Alive
     /\ \E given_back \in SUBSET held :
          /\ held' = held \ given_back
          /\ \A c, d \in given_back : c.pool = d.pool => c = d
  \/ /\ held' = held
     /\ \E t \in Alive : Alive' = Alive \ {t}

LEMMA PoolFacts ==
  /\ \A c \in Closure : c.pool \in Pools /\ c \in Closures(c.pool) /\ c # None
  /\ \A pool, c : c \in Closures(pool) <=> c \in Closure /\ c.pool = pool
<1>1. \A c \in Closure : c.pool \in Pools
  BY DEF Closure, Pools
<1> QED  BY <1>1, NoneAssumption DEF Closures

LEMMA NothingUsed ==
  ASSUME held' = held, Alive' = Alive
  PROVE  PoolUse
<1>1. held' = held \ {} /\ {} \in SUBSET held
  OBVIOUS
<1>2. \A c, d \in {} : c.pool = d.pool => c = d
  OBVIOUS
<1>3. \E given_back \in SUBSET held :
        held' = held \ given_back /\ \A c, d \in given_back : c.pool = d.pool => c = d
  BY <1>1, <1>2
<1> QED  BY <1>3 DEF PoolUse

LEMMA MadeUse ==
  ASSUME TypeOK, NEW f \in Func, NEW t \in FType, t \in live, NEW p,
         NEW c \in Closures(t) \cup {None}, MakeFunction(f, t, p, c)
  PROVE  PoolUse
<1>1. Alive' = Alive
  BY KindsAssumption DEF MakeFunction, Alive
<1>2. CASE c = None
  BY <1>1, <1>2, NothingUsed DEF MakeFunction
<1>3. CASE c # None
  BY <1>1, <1>3, PoolFacts DEF MakeFunction, PoolUse, Owns
<1> QED  BY <1>2, <1>3

LEMMA RubyUse ==
  ASSUME LifeIInv, RubyStep
  PROVE  PoolUse
<1>1. TypeOK /\ OneOwner /\ roots \subseteq live
  BY DEF LifeIInv, Structure, Typed, Ownership, TypeOK
<1>2. ASSUME NEW f \in Func, NEW t \in FType, NewFromPointer(f, t) \/ NewFails(f, t)
      PROVE  PoolUse
  BY <1>1, <1>2, MadeUse DEF NewFromPointer, NewFails
<1>3. ASSUME NEW f \in Func, NEW t \in FType, NEW p \in Proc, NEW c \in Closures(t),
             NewFromProc(f, t, p, c) \/ PassProc(p, t, f, c)
      PROVE  PoolUse
  BY <1>1, <1>3, MadeUse DEF NewFromProc, PassProc
<1>4. ASSUME NEW f \in Func, NEW n \in Name, NEW c \in Closures(Default), Attach(f, n, c)
      PROVE  PoolUse
  <2>1. Alive' = Alive
    BY <1>4 DEF Attach, Alive
  <2>2. CASE handle[f] = None
    BY <1>4, <2>1, <2>2, PoolFacts DEF Attach, PoolUse, Owns
  <2>3. CASE handle[f] # None
    BY <1>4, <2>1, <2>3, NothingUsed DEF Attach
  <2> QED  BY <2>2, <2>3
<1>5. ASSUME NEW f \in Func, Release(f)
      PROVE  PoolUse
  <2>1. Alive' = Alive /\ held' = held \ {closure[f]}
    BY <1>5 DEF Release, Alive
  <2>2. closure[f] \in held
    BY <1>1, <1>5, OwnedFacts DEF Release, OneOwner
  <2> DEFINE back == {closure[f]}
  <2>3. back \in SUBSET held /\ held' = held \ back /\ \A c, d \in back : c = d
    BY <2>1, <2>2
  <2> HIDE DEF back
  <2> QED  BY <2>1, <2>3 DEF PoolUse
<1>6. ASSUME \/ \E p \in Proc, t \in FType : PassCachedProc(p, t)
             \/ \E f \in Func : \/ PassFunction(f)
                                \/ \E on \in BOOLEAN : SetAutorelease(f, on)
                                \/ \E n \in Name : AttachFails(f, n)
             \/ \E n \in Name : Fetch(n)
             \/ \E x \in Object : Drop(x)
      PROVE  PoolUse
  <2>1. held' = held /\ live' = live
    BY <1>6 DEF PassCachedProc, PassFunction, SetAutorelease, AttachFails, Fetch, Drop
  <2> QED  BY <2>1, NothingUsed DEF Alive
<1> QED  BY <1>2, <1>3, <1>4, <1>5, <1>6 DEF RubyStep

LEMMA UseStep ==
  ASSUME LifeIInv, OfItsPool, [Next]_vars
  PROVE  PoolUse
<1>1. Structure /\ TypeOK /\ OneOwner /\ FunctionsOK /\ Reachable \subseteq live /\ roots \subseteq live
  BY DEF LifeIInv, Structure, Typed, Ownership, TypeOK, LiveOK
<1>2. CASE RubyStep
  BY <1>2, RubyUse
<1>3. ASSUME NEW th \in Thread, NEW f \in Func, NEW t \in FType, NEW p \in Proc,
             BeginPassProc(th, p, t, f)
      PROVE  PoolUse
  BY <1>1, <1>3, MadeUse DEF BeginPassProc
<1>4. ASSUME NEW th \in Thread, NEW c \in Closure, EndPassProc(th, c)
      PROVE  PoolUse
  <2>1. PICK f : f = caching[th].func /\ f \in Func \cap Reachable /\ type[f] \in FType
    BY <1>1, <1>4, EndStructure
  <2>2. type[f] \in References(f) \ {None}
    BY <2>1, FunctionReferences, NoneAssumption DEF Object
  <2>3. type[f] \in live
    BY <1>1, <2>1, <2>2, ReachClosed
  <2>4. c \in Closures(type[f]) \ held /\ held' = held \cup {c} /\ Alive' = Alive
    BY <1>4, <2>1 DEF EndPassProc, Alive
  <2> QED  BY <2>3, <2>4, PoolFacts DEF PoolUse, Owns
<1>5. ASSUME NEW f \in live \ Reachable, SweepFunction(f)
      PROVE  PoolUse
  <2> DEFINE back == ({handle[f]} \cup (IF autorelease[f] THEN {closure[f]} ELSE {})) \ {None}
  <2>1. f \in live \cap Func /\ Alive' = Alive
    BY <1>5, KindsAssumption DEF SweepFunction, Alive
  <2>2. None \notin held
    BY <1>1, PoolFacts DEF TypeOK
  <2>3. held' = held \ back
    BY <1>5, <2>2 DEF SweepFunction
  <2>4. back \subseteq Owned(f) /\ Owned(f) \subseteq held
    BY <1>1, <2>1, OwnedFacts DEF OneOwner
  <2>5. handle[f] # None => handle[f].pool = Default
    BY <1>1, <2>1, PoolFacts DEF TypeOK
  <2>6. closure[f] # None => closure[f].pool # Default
    BY <1>1, <2>1, KindsAssumption DEF OfItsPool, FunctionsOK
  <2>7. \A c, d \in back : c.pool = d.pool => c = d
    BY <2>5, <2>6
  <2> HIDE DEF back
  <2> QED  BY <2>1, <2>3, <2>4, <2>7 DEF PoolUse
<1>6. ASSUME NEW x \in live \ Reachable, SweepOther(x)
      PROVE  PoolUse
  <2>1. held' = held /\ live' = live \ {x}
    BY <1>6 DEF SweepOther
  <2>2. CASE x \in FType
    BY <2>1, <2>2 DEF PoolUse, Alive
  <2>3. CASE x \notin FType
    BY <2>1, <2>3, NothingUsed DEF Alive
  <2> QED  BY <2>2, <2>3
<1>7. CASE UNCHANGED vars
  BY <1>7, NothingUsed DEF vars, Alive
<1> QED  BY <1>2, <1>3, <1>4, <1>5, <1>6, <1>7 DEF Next

LEMMA OfItsPoolStep ==
  ASSUME LifeIInv, OfItsPool, [Next]_vars
  PROVE  OfItsPool'
<1>1. Structure /\ TypeOK
  BY DEF LifeIInv, Structure, Typed
<1> DEFINE Kept(f) == closure'[f] # None => closure'[f].pool = type'[f]
<1>2. ASSUME NEW f \in Func, NEW t \in FType, NEW p \in Proc \cup {None},
             NEW c \in Closures(t) \cup {None}, MakeFunction(f, t, p, c)
      PROVE  OfItsPool'
  <2>1. Made(f, t, p, c)
    BY <1>1, <1>2, MakeFacts
  <2>2. \A g \in live' \cap Func : g = f \/ (g \in live /\ g \in Func \ {f})
    BY <2>1 DEF Made
  <2>3. Kept(f)
    BY <2>1, PoolFacts DEF Made
  <2>4. \A g \in Func \ {f} : g \in live => Kept(g)
    BY <2>1 DEF Made, OfItsPool
  <2> QED  BY <2>2, <2>3, <2>4 DEF OfItsPool
<1>3. ASSUME live' = live, type' = type, closure' = closure
      PROVE  OfItsPool'
  BY <1>3 DEF OfItsPool
<1>4. CASE RubyStep
  <2>1. ASSUME NEW f \in Func, NEW t \in FType, NewFromPointer(f, t) \/ NewFails(f, t)
        PROVE  OfItsPool'
    BY <1>2, <2>1 DEF NewFromPointer, NewFails
  <2>2. ASSUME NEW f \in Func, NEW t \in FType, NEW p \in Proc, NEW c \in Closures(t),
               NewFromProc(f, t, p, c) \/ PassProc(p, t, f, c)
        PROVE  OfItsPool'
    BY <1>2, <2>2 DEF NewFromProc, PassProc
  <2>3. ASSUME NEW f \in Func, Release(f)
        PROVE  OfItsPool'
    <3>1. live' = live /\ type' = type /\ \A g \in Func : closure'[g] = None \/ closure'[g] = closure[g]
      BY <1>1, <2>3 DEF Release, TypeOK
    <3> QED  BY <3>1 DEF OfItsPool
  <2>4. ASSUME \/ \E p \in Proc, t \in FType : PassCachedProc(p, t)
               \/ \E f \in Func : \/ PassFunction(f)
                                  \/ \E on \in BOOLEAN : SetAutorelease(f, on)
                                  \/ \E n \in Name : \/ AttachFails(f, n)
                                                     \/ \E c \in Closures(Default) : Attach(f, n, c)
               \/ \E n \in Name : Fetch(n)
               \/ \E x \in Object : Drop(x)
        PROVE  OfItsPool'
    <3>1. live' = live /\ type' = type /\ closure' = closure
      BY <2>4 DEF PassCachedProc, PassFunction, SetAutorelease, AttachFails, Attach, Fetch, Drop, objectVars
    <3> QED  BY <1>3, <3>1
  <2> QED  BY <1>4, <2>1, <2>2, <2>3, <2>4 DEF RubyStep
<1>5. ASSUME NEW th \in Thread, NEW f \in Func, NEW t \in FType, NEW p \in Proc,
             BeginPassProc(th, p, t, f)
      PROVE  OfItsPool'
  BY <1>2, <1>5 DEF BeginPassProc
<1>6. ASSUME NEW th \in Thread, NEW c \in Closure, EndPassProc(th, c)
      PROVE  OfItsPool'
  <2>1. PICK f : f = caching[th].func /\ f \in Func
    BY <1>1, <1>6, EndStructure
  <2>2. /\ c \in Closures(type[f]) /\ live' = live /\ type' = type
        /\ closure' = [closure EXCEPT ![f] = c]
    BY <1>6, <2>1 DEF EndPassProc
  <2>3. \A g \in Func : closure'[g] = IF g = f THEN c ELSE closure[g]
    BY <1>1, <2>1, <2>2 DEF TypeOK
  <2> QED  BY <2>2, <2>3, PoolFacts DEF OfItsPool
<1>7. ASSUME NEW x \in live \ Reachable, SweepFunction(x) \/ SweepOther(x)
      PROVE  OfItsPool'
  <2>1. /\ live' = live \ {x}
        /\ \A g \in Func \ {x} : closure'[g] = closure[g] /\ type'[g] = type[g]
    BY <1>1, <1>7 DEF SweepFunction, SweepOther, objectVars, TypeOK
  <2> QED  BY <2>1 DEF OfItsPool
<1>8. CASE UNCHANGED vars
  BY <1>3, <1>8 DEF vars, objectVars
<1> QED  BY <1>4, <1>5, <1>6, <1>7, <1>8 DEF Next

\* What a pool holds lies in its memory, which is gone with the last reference
MappedOK ==
  /\ mapped \in [Pools -> SUBSET Closure]
  /\ \A pool \in Pools :
       /\ HeldOf(pool) \subseteq mapped[pool]
       /\ Owns(pool) \/ HeldOf(pool) # {} \/ mapped[pool] = {}

UseIInv == LifeIInv /\ OfItsPool /\ MappedOK

LEMMA MappedStep ==
  ASSUME MappedOK, Remember
  PROVE  MappedOK'
<1>1. \A pool : HeldOf(pool)' \subseteq Closure
  BY DEF HeldOf, Closures
<1>2. \A pool \in Pools : mapped[pool] \subseteq Closure
  BY DEF MappedOK
<1>3. mapped' \in [Pools -> SUBSET Closure]
  BY <1>1, <1>2 DEF Remember
<1>4. \A pool \in Pools :
        mapped'[pool] = IF Owns(pool)' \/ HeldOf(pool)' # {} THEN mapped[pool] \cup HeldOf(pool)' ELSE {}
  BY DEF Remember
<1> QED  BY <1>3, <1>4 DEF MappedOK

\* Seen from one pool, a step is one of its store, or does not concern it
LEMMA StoreStep ==
  ASSUME UseIInv, [Next /\ Remember]_<<vars, mapped>>, NEW pool \in Pools
  PROVE  [Store(pool)!Next]_<<Owns(pool), HeldOf(pool), mapped[pool]>>
<1> DEFINE Same == Owns(pool)' = Owns(pool)
           Grown == mapped[pool] \cup HeldOf(pool)'
<1>1. CASE UNCHANGED <<vars, mapped>>
  BY <1>1 DEF vars, Owns, HeldOf
<1>2. CASE Next /\ Remember
  <2>1. PoolUse
    BY <1>2, UseStep DEF UseIInv
  <2>2. mapped'[pool] = IF Owns(pool)' \/ HeldOf(pool)' # {} THEN Grown ELSE {}
    BY <1>2 DEF Remember
  <2>3. /\ HeldOf(pool) \subseteq mapped[pool]
        /\ Owns(pool) \/ HeldOf(pool) # {} \/ mapped[pool] = {}
    BY DEF UseIInv, MappedOK
  <2>4. Alive' = Alive => Same
    BY DEF Alive, Owns, Pools
  <2>5. Same /\ HeldOf(pool)' = HeldOf(pool) => mapped'[pool] = mapped[pool]
    BY <2>2, <2>3
  <2>6. ASSUME Alive' = Alive, NEW c \in Closure \ held, Owns(c.pool), held' = held \cup {c}
        PROVE  [Store(pool)!Next]_<<Owns(pool), HeldOf(pool), mapped[pool]>>
    <3>1. CASE c.pool # pool
      <4>1. HeldOf(pool)' = HeldOf(pool)
        BY <2>6, <3>1, PoolFacts DEF HeldOf
      <4> QED  BY <2>4, <2>5, <2>6, <4>1
    <3>2. CASE c.pool = pool
      <4>1. c \in Closures(pool) /\ c \notin HeldOf(pool) /\ HeldOf(pool)' = HeldOf(pool) \cup {c}
        BY <2>6, <3>2, PoolFacts DEF HeldOf
      <4>2. mapped'[pool] = Grown
        BY <2>2, <4>1
      <4>3. Store(pool)!Take(c)
        BY <2>4, <2>6, <3>2, <4>1, <4>2 DEF Store!Take
      <4> QED  BY <4>1, <4>3 DEF Store!Next
    <3> QED  BY <3>1, <3>2
  <2>7. ASSUME Alive' = Alive, NEW back \in SUBSET held, held' = held \ back,
               \A c, d \in back : c.pool = d.pool => c = d
        PROVE  [Store(pool)!Next]_<<Owns(pool), HeldOf(pool), mapped[pool]>>
    <3>1. CASE back \cap Closures(pool) = {}
      <4>1. HeldOf(pool)' = HeldOf(pool)
        BY <2>7, <3>1 DEF HeldOf
      <4> QED  BY <2>4, <2>5, <2>7, <4>1
    <3>2. CASE back \cap Closures(pool) # {}
      <4>1. PICK c \in back : c \in Closures(pool)
        BY <3>2
      <4>2. c \in HeldOf(pool) /\ HeldOf(pool)' = HeldOf(pool) \ {c}
        BY <2>7, <4>1, PoolFacts DEF HeldOf
      <4>3. Grown = mapped[pool]
        BY <2>3, <4>2
      <4>4. Store(pool)!Give(c)
        BY <2>2, <2>4, <2>7, <4>2, <4>3 DEF Store!Give, Store!Remaining
      <4> QED  BY <4>1, <4>4 DEF Store!Next
    <3> QED  BY <3>1, <3>2
  <2>8. ASSUME held' = held, NEW t \in Alive, Alive' = Alive \ {t}
        PROVE  [Store(pool)!Next]_<<Owns(pool), HeldOf(pool), mapped[pool]>>
    <3>1. HeldOf(pool)' = HeldOf(pool)
      BY <2>8 DEF HeldOf
    <3>2. CASE pool # t
      <4>1. Same
        BY <2>8, <3>2 DEF Alive, Owns, Pools
      <4> QED  BY <2>5, <3>1, <4>1
    <3>3. CASE pool = t
      <4>1. Owns(pool) = TRUE /\ Owns(pool)' = FALSE
        BY <2>8, <3>3, KindsAssumption DEF Alive, Owns
      <4>2. Grown = mapped[pool]
        BY <2>3, <3>1
      <4>3. Store(pool)!Abandon
        BY <2>2, <3>1, <4>1, <4>2 DEF Store!Abandon, Store!Remaining
      <4> QED  BY <4>3 DEF Store!Next
    <3> QED  BY <3>2, <3>3
  <2> QED  BY <2>1, <2>6, <2>7, <2>8 DEF PoolUse
<1> QED  BY <1>1, <1>2

\* Functions, their trampolines and the collector use each pool, that of every
\* function type and that of the methods, as ClosureStore allows: they take from a
\* pool whose reference they have, one closure at a time, give back what they were
\* given, and drop the reference once (rbffi_Closure_Alloc, function_free, fntype_free)
THEOREM PoolsUsedAsStores ==
  ASSUME NEW pool \in Pools
  PROVE  HistorySpec => Store(pool)!Spec
<1>1. HistoryInit => UseIInv /\ Store(pool)!Init
  <2> SUFFICES ASSUME HistoryInit
               PROVE  UseIInv /\ Store(pool)!Init
    OBVIOUS
  <2>1. LifeIInv
    BY InitLife DEF HistoryInit
  <2>2. OfItsPool
    BY DEF HistoryInit, Init, OfItsPool
  <2>3. held = {} /\ \A p \in Pools : HeldOf(p) = {} /\ mapped[p] = {} /\ Owns(p)
    BY KindsAssumption DEF HistoryInit, Init, HeldOf, Owns, Pools
  <2>4. MappedOK
    BY <2>3 DEF HistoryInit, MappedOK
  <2> QED  BY <2>1, <2>2, <2>3, <2>4 DEF UseIInv, Store!Init
<1>2. UseIInv /\ [Next /\ Remember]_<<vars, mapped>> => UseIInv'
  <2> SUFFICES ASSUME UseIInv, [Next /\ Remember]_<<vars, mapped>>
               PROVE  UseIInv'
    OBVIOUS
  <2>1. CASE Next /\ Remember
    BY <2>1, LifeStep, OfItsPoolStep, MappedStep DEF UseIInv
  <2>2. CASE UNCHANGED <<vars, mapped>>
    <3>1. [Next]_vars /\ live' = live /\ held' = held /\ mapped' = mapped
      BY <2>2 DEF vars
    <3>2. MappedOK'
      BY <3>1 DEF UseIInv, MappedOK, HeldOf, Owns
    <3> QED  BY <3>1, <3>2, LifeStep, OfItsPoolStep DEF UseIInv
  <2> QED  BY <2>1, <2>2
<1>3. UseIInv /\ [Next /\ Remember]_<<vars, mapped>>
        => [Store(pool)!Next]_(Store(pool)!vars)
  BY StoreStep DEF Store!vars
<1> QED  BY <1>1, <1>2, <1>3, PTL DEF HistorySpec, Store!Spec
=============================================================================
