-------------------------- MODULE CallFrames_proofs --------------------------
(***************************************************************************)
(* For a C stack of any bounded depth: the frame a thread has as its       *)
(* current one, and the exception each call raises.                        *)
(*                                                                         *)
(* The argument is the list of frames: every call on the stack is linked   *)
(* (frame->prev) to the innermost call below it, and the thread's current  *)
(* frame to the innermost call of all, except where a throw led into a     *)
(* callback of that call.                                                  *)
(***************************************************************************)
EXTENDS CallFrames, SequenceTheorems, WellFoundedInduction, TLAPS

LEMMA LeastNatural ==
  ASSUME NEW T \in SUBSET Nat, T # {}
  PROVE  \E x \in T : \A y \in T : x <= y
<1> DEFINE R == OpToRel(<, Nat)
<1>1. IsWellFoundedOn(R, Nat)
  BY NatLessThanWellFounded
<1>2. \A x, y \in Nat : y < x => <<y, x>> \in R
  BY DEF OpToRel
<1> HIDE DEF R
<1>3. PICK x \in T : \A y \in T : ~ (<<y, x>> \in R)
  BY <1>1, WFMin
<1>4. \A y \in T : ~ (y < x)
  BY <1>2, <1>3
<1>5. \A y \in T : x <= y
  <2>1. x \in Nat /\ \A y \in T : y \in Nat
    OBVIOUS
  <2> QED
    BY <1>4, <2>1
<1> QED
  BY <1>5

LEMMA GreatestNumber ==
  ASSUME NEW n \in Nat, NEW T \in SUBSET (1 .. n), T # {}
  PROVE  \E x \in T : \A y \in T : y <= x
<1> DEFINE U == {n - x : x \in T}
<1>1. U \in SUBSET Nat /\ U # {}
  <2>1. \A x \in T : n - x \in Nat
    OBVIOUS
  <2> QED
    BY <2>1
<1>2. PICK u \in U : \A v \in U : u <= v
  <2> HIDE DEF U
  <2> QED
    BY <1>1, LeastNatural
<1>3. PICK x \in T : u = n - x
  OBVIOUS
<1>4. \A y \in T : n - x <= n - y
  BY <1>2, <1>3
<1>5. \A y \in T : y <= x
  BY <1>4
<1> QED
  BY <1>5

-----------------------------------------------------------------------------
(* The innermost call of a part of the stack *)

LevelsOf(s, n) == {i \in 1 .. n : IsCall(s[i])}

InnermostOf(s, n) ==
  IF LevelsOf(s, n) = {} THEN None
  ELSE s[CHOOSE i \in LevelsOf(s, n) : \A j \in LevelsOf(s, n) : j <= i].frame

LEMMA InnermostFrameOf ==
  /\ \A n : InnermostFrame(n) = InnermostOf(stack, n)
  /\ \A n : InnermostFrame(n)' = InnermostOf(stack', n)
BY DEF InnermostFrame, InnermostOf, LevelsOf

\* It is one of the calls there
LEMMA InnermostFound ==
  ASSUME NEW s, NEW n \in Nat
  PROVE  \/ InnermostOf(s, n) = None /\ LevelsOf(s, n) = {}
         \/ \E i \in 1 .. n : IsCall(s[i]) /\ InnermostOf(s, n) = s[i].frame
                              /\ \A j \in i+1 .. n : ~ IsCall(s[j])
<1>1. CASE LevelsOf(s, n) # {}
  <2> DEFINE m == CHOOSE i \in LevelsOf(s, n) : \A j \in LevelsOf(s, n) : j <= i
  <2>1. LevelsOf(s, n) \in SUBSET (1 .. n)
    BY DEF LevelsOf
  <2>2. \E i \in LevelsOf(s, n) : \A j \in LevelsOf(s, n) : j <= i
    BY <1>1, <2>1, GreatestNumber
  <2>3. m \in LevelsOf(s, n) /\ \A j \in LevelsOf(s, n) : j <= m
    BY <2>2
  <2>4. InnermostOf(s, n) = s[m].frame
    BY <1>1 DEF InnermostOf
  <2> HIDE DEF m
  <2>5. m \in 1 .. n /\ IsCall(s[m])
    BY <2>3 DEF LevelsOf
  <2>6. \A j \in m+1 .. n : ~ IsCall(s[j])
    <3>1. \A j \in m+1 .. n : j \in 1 .. n /\ ~ (j <= m)
      BY <2>5
    <3> QED
      BY <2>3, <3>1 DEF LevelsOf
  <2> QED
    BY <2>4, <2>5, <2>6
<1>2. CASE LevelsOf(s, n) = {}
  BY <1>2 DEF InnermostOf
<1> QED
  BY <1>1, <1>2

\* It depends on these activations only
LEMMA InnermostSame ==
  ASSUME NEW s, NEW r, NEW n \in Nat, \A i \in 1 .. n : s[i] = r[i]
  PROVE  InnermostOf(s, n) = InnermostOf(r, n)
<1>1. LevelsOf(s, n) = LevelsOf(r, n)
  BY DEF LevelsOf
<1>2. CASE LevelsOf(s, n) = {}
  BY <1>1, <1>2 DEF InnermostOf
<1>3. CASE LevelsOf(s, n) # {}
  <2> DEFINE L == LevelsOf(s, n)
  <2> DEFINE m == CHOOSE i \in L : \A j \in L : j <= i
  <2>1. L \in SUBSET (1 .. n)
    BY DEF LevelsOf
  <2>2. m \in L
    BY <1>3, <2>1, GreatestNumber
  <2>3. InnermostOf(s, n) = s[m].frame /\ InnermostOf(r, n) = r[m].frame
    BY <1>1, <1>3 DEF InnermostOf
  <2> HIDE DEF L, m
  <2> QED
    BY <2>1, <2>2, <2>3
<1> QED
  BY <1>2, <1>3

LEMMA InnermostNext ==
  ASSUME NEW s, NEW n \in Nat \ {0}
  PROVE  InnermostOf(s, n) = IF IsCall(s[n]) THEN s[n].frame ELSE InnermostOf(s, n - 1)
<1>1. CASE IsCall(s[n])
  <2>1. n \in LevelsOf(s, n)
    BY <1>1 DEF LevelsOf
  <2>2. PICK i \in 1 .. n : /\ IsCall(s[i]) /\ InnermostOf(s, n) = s[i].frame
                            /\ \A j \in i+1 .. n : ~ IsCall(s[j])
    BY <2>1, InnermostFound
  <2>3. i = n
    BY <1>1, <2>2
  <2> QED
    BY <1>1, <2>2, <2>3
<1>2. CASE ~ IsCall(s[n])
  <2>1. \A i \in 1 .. n : i # n => i \in 1 .. n - 1
    OBVIOUS
  <2>2. LevelsOf(s, n) = LevelsOf(s, n - 1)
    BY <1>2, <2>1 DEF LevelsOf
  <2> QED
    BY <1>2, <2>2 DEF InnermostOf
<1> QED
  BY <1>1, <1>2

LEMMA InnermostNone == \A s : InnermostOf(s, 0) = None
BY DEF InnermostOf, LevelsOf

-----------------------------------------------------------------------------
(* The inductive invariant *)

\* Ruby code runs in callbacks and below all calls, and only there can it call
Alternating ==
  \A i \in 1 .. Len(stack) :
    /\ stack[i].kind = "callback" => i > 1 /\ stack[i - 1].kind # "callback"
    /\ stack[i].kind # "callback" => i = 1 \/ stack[i - 1].kind = "callback"

DistinctFrames ==
  \A i, j \in 1 .. Len(stack) :
    IsCall(stack[i]) /\ IsCall(stack[j]) /\ stack[i].frame = stack[j].frame => i = j

\* f is the frame g, or a throw has led into a callback of the call of g
Excused(g) == throws > 0 /\ g \in entered \cup {None}
Linked(g, f) == f = g \/ Excused(g)

CurrentLinked == Linked(InnermostOf(stack, Len(stack)), current)

CallsLinked ==
  \A i \in 1 .. Len(stack) : IsCall(stack[i]) =>
    Linked(InnermostOf(stack, i - 1), prev[stack[i].frame])

CallbacksLinked ==
  throws = 0 => \A i \in 1 .. Len(stack) :
    stack[i].kind = "callback" => stack[i].frame = InnermostOf(stack, i - 1)

FrameIInv ==
  /\ TypeOK /\ Alternating /\ DistinctFrames
  /\ CurrentLinked /\ CallsLinked /\ CallbacksLinked
  /\ CallsRaiseTheirOwn

LEMMA KindFacts ==
  \A a \in Activation :
    /\ IsCall(a) => a.kind # "callback" /\ a.frame \in Frame
    /\ a.kind = "callback" => a.frame \in MaybeFrame
    /\ a.kind # "callback" /\ ~ IsCall(a) => a.kind = "foreign"
BY DEF Activation, Call, ForeignCall, Callback, IsCall

LEMMA TopFacts ==
  ASSUME stack \in Seq(Activation), stack # <<>>
  PROVE  /\ Len(stack) \in Nat \ {0} /\ Top = stack[Len(stack)] /\ Top \in Activation
         /\ Pop = SubSeq(stack, 1, Len(stack) - 1)
<1>1. Len(stack) \in Nat \ {0} /\ \A i \in 1 .. Len(stack) : stack[i] \in Activation
  BY LenProperties, ElementOfSeq, EmptySeq
<1> QED
  BY <1>1 DEF Top, Pop, Last, Front

LEMMA NativeFacts ==
  /\ stack \in Seq(Activation) =>
       (InNative <=> Len(stack) > 0 /\ stack[Len(stack)].kind # "callback")
  /\ stack' \in Seq(Activation) =>
       (InNative' <=> Len(stack') > 0 /\ stack'[Len(stack')].kind # "callback")
<1>1. \A s \in Seq(Activation) : s # <<>> <=> Len(s) > 0
  BY EmptySeq, LenProperties
<1> QED
  BY <1>1 DEF InNative, Top, Last

LEMMA FramesFacts ==
  /\ \A f : f \in FramesOnStack <=> \E i \in DOMAIN stack : IsCall(stack[i]) /\ stack[i].frame = f
  /\ \A f : f \in FramesOnStack' <=> \E i \in DOMAIN stack' : IsCall(stack'[i]) /\ stack'[i].frame = f
BY DEF FramesOnStack

\* The stack grows by a
LEMMA PushFacts ==
  ASSUME stack \in Seq(Activation), NEW a \in Activation, stack' = Append(stack, a)
  PROVE  /\ stack' \in Seq(Activation) /\ Len(stack) \in Nat /\ Len(stack') = Len(stack) + 1
         /\ DOMAIN stack = 1 .. Len(stack) /\ DOMAIN stack' = 1 .. Len(stack) + 1
         /\ \A i \in 1 .. Len(stack) : stack'[i] = stack[i]
         /\ stack'[Len(stack) + 1] = a
         /\ \A m \in 0 .. Len(stack) : InnermostOf(stack', m) = InnermostOf(stack, m)
         /\ InnermostOf(stack', Len(stack) + 1) =
              IF IsCall(a) THEN a.frame ELSE InnermostOf(stack, Len(stack))
<1>1. /\ stack' \in Seq(Activation) /\ Len(stack) \in Nat /\ Len(stack') = Len(stack) + 1
      /\ \A i \in 1 .. Len(stack) : stack'[i] = stack[i]
      /\ stack'[Len(stack) + 1] = a
  BY AppendProperties, LenProperties
<1>2. DOMAIN stack = 1 .. Len(stack) /\ DOMAIN stack' = 1 .. Len(stack) + 1
  BY <1>1, LenProperties
<1>3. \A m \in 0 .. Len(stack) : InnermostOf(stack', m) = InnermostOf(stack, m)
  <2> TAKE m \in 0 .. Len(stack)
  <2>1. m \in Nat /\ \A i \in 1 .. m : stack'[i] = stack[i]
    BY <1>1
  <2> QED
    BY <2>1, InnermostSame
<1>4. InnermostOf(stack', Len(stack) + 1) =
        IF IsCall(a) THEN a.frame ELSE InnermostOf(stack', Len(stack))
  <2> DEFINE n == Len(stack) + 1
  <2>1. n \in Nat \ {0} /\ n - 1 = Len(stack) /\ stack'[n] = a
    BY <1>1
  <2> HIDE DEF n
  <2>2. InnermostOf(stack', n) = IF IsCall(stack'[n]) THEN stack'[n].frame ELSE InnermostOf(stack', n - 1)
    BY <2>1, InnermostNext
  <2> QED
    BY <2>1, <2>2 DEF n
<1> QED
  BY <1>1, <1>2, <1>3, <1>4

\* The stack is cut to n activations
LEMMA CutFacts ==
  ASSUME stack \in Seq(Activation), NEW n \in Nat, n <= Len(stack), stack' = SubSeq(stack, 1, n)
  PROVE  /\ stack' \in Seq(Activation) /\ Len(stack') = n /\ Len(stack) \in Nat
         /\ DOMAIN stack = 1 .. Len(stack) /\ DOMAIN stack' = 1 .. n
         /\ \A i \in 1 .. n : stack'[i] = stack[i]
         /\ \A m \in 0 .. n : InnermostOf(stack', m) = InnermostOf(stack, m)
<1>1. Len(stack) \in Nat /\ \A i \in 1 .. n : stack[i] \in Activation
  BY LenProperties, ElementOfSeq
<1>2. /\ stack' \in Seq(Activation) /\ Len(stack') = n
      /\ \A i \in 1 .. n : stack'[i] = stack[i]
  <2>1. /\ stack' \in Seq(Activation)
        /\ Len(stack') = IF 1 <= n THEN n - 1 + 1 ELSE 0
        /\ \A i \in 1 .. n - 1 + 1 : stack'[i] = stack[1 + i - 1]
    BY <1>1, SubSeqProperties
  <2> QED
    BY <2>1
<1>3. \A m \in 0 .. n : InnermostOf(stack', m) = InnermostOf(stack, m)
  <2> TAKE m \in 0 .. n
  <2>1. m \in Nat /\ \A i \in 1 .. m : stack'[i] = stack[i]
    BY <1>2
  <2> QED
    BY <2>1, InnermostSame
<1> QED
  BY <1>1, <1>2, <1>3, LenProperties

\* What is left of the invariant when the stack is cut
LEMMA CutKeeps ==
  ASSUME FrameIInv, NEW n \in Nat, n <= Len(stack), stack' = SubSeq(stack, 1, n),
         prev' = prev, throws' \in Nat, throws <= throws', entered \subseteq entered'
  PROVE  /\ Alternating' /\ DistinctFrames' /\ CallsLinked' /\ CallbacksLinked'
         /\ FramesOnStack' \subseteq FramesOnStack
<1>1. stack \in Seq(Activation) /\ throws \in Nat
  BY DEF FrameIInv, TypeOK
<1>2. /\ stack' \in Seq(Activation) /\ Len(stack') = n /\ Len(stack) \in Nat
      /\ DOMAIN stack = 1 .. Len(stack) /\ DOMAIN stack' = 1 .. n
      /\ \A i \in 1 .. n : stack'[i] = stack[i]
      /\ \A m \in 0 .. n : InnermostOf(stack', m) = InnermostOf(stack, m)
  BY <1>1, CutFacts
<1>3. \A i \in 1 .. n : i \in 1 .. Len(stack) /\ i - 1 \in 0 .. n /\ (i > 1 => i - 1 \in 1 .. n)
  BY <1>2
<1>4. Alternating'
  BY <1>2, <1>3 DEF FrameIInv, Alternating
<1>5. DistinctFrames'
  BY <1>2, <1>3 DEF FrameIInv, DistinctFrames
<1>6. CallsLinked'
  <2>1. \A g : Excused(g) => Excused(g)'
    BY <1>1 DEF Excused
  <2> QED
    BY <1>2, <1>3, <2>1 DEF FrameIInv, CallsLinked, Linked
<1>7. CallbacksLinked'
  BY <1>1, <1>2, <1>3 DEF FrameIInv, CallbacksLinked
<1>8. FramesOnStack' \subseteq FramesOnStack
  BY <1>2, <1>3, FramesFacts
<1> QED
  BY <1>4, <1>5, <1>6, <1>7, <1>8

\* Native code is entered by somebody else than FFI, or calls back
LEMMA PushKeeps ==
  ASSUME FrameIInv, NEW a \in Activation, stack' = Append(stack, a), ~ IsCall(a),
         a.kind = "callback" <=> InNative,
         a.kind = "callback" => a.frame = current,
         UNCHANGED <<current, prev, throws, entered>>
  PROVE  /\ Alternating' /\ DistinctFrames' /\ CurrentLinked' /\ CallsLinked' /\ CallbacksLinked'
         /\ FramesOnStack' = FramesOnStack
<1>1. stack \in Seq(Activation) /\ throws \in Nat
  BY DEF FrameIInv, TypeOK
<1>2. /\ stack' \in Seq(Activation) /\ Len(stack) \in Nat /\ Len(stack') = Len(stack) + 1
      /\ DOMAIN stack = 1 .. Len(stack) /\ DOMAIN stack' = 1 .. Len(stack) + 1
      /\ \A i \in 1 .. Len(stack) : stack'[i] = stack[i]
      /\ stack'[Len(stack) + 1] = a
      /\ \A m \in 0 .. Len(stack) : InnermostOf(stack', m) = InnermostOf(stack, m)
      /\ InnermostOf(stack', Len(stack) + 1) = InnermostOf(stack, Len(stack))
  BY <1>1, PushFacts
<1>3. \A i \in 1 .. Len(stack) + 1 : i \in 1 .. Len(stack) \/ i = Len(stack) + 1
  BY <1>2
<1>4. \A i \in 1 .. Len(stack) : i - 1 \in 0 .. Len(stack) /\ (i > 1 => i - 1 \in 1 .. Len(stack))
  BY <1>2
<1>6. \A g : Excused(g)' <=> Excused(g)
  BY DEF Excused
<1>7. Alternating'
  <2>1. \A i \in 1 .. Len(stack) :
          /\ stack'[i].kind = "callback" => i > 1 /\ stack'[i - 1].kind # "callback"
          /\ stack'[i].kind # "callback" => i = 1 \/ stack'[i - 1].kind = "callback"
    BY <1>2, <1>4 DEF FrameIInv, Alternating
  <2>2. /\ a.kind = "callback" => Len(stack) > 0 /\ stack'[Len(stack)].kind # "callback"
        /\ a.kind # "callback" => Len(stack) = 0 \/ stack'[Len(stack)].kind = "callback"
    <3>1. Len(stack) > 0 => Len(stack) \in 1 .. Len(stack)
      BY <1>2
    <3>2. Len(stack) > 0 => stack'[Len(stack)] = stack[Len(stack)]
      BY <1>2, <3>1
    <3>3. a.kind = "callback" <=> Len(stack) > 0 /\ stack[Len(stack)].kind # "callback"
      BY <1>1, NativeFacts
    <3>4. Len(stack) > 0 \/ Len(stack) = 0
      BY <1>2
    <3> QED
      BY <3>2, <3>3, <3>4
  <2>3. \A i : i = Len(stack) + 1 => /\ stack'[i] = a /\ i - 1 = Len(stack)
                                   /\ (i > 1 <=> Len(stack) > 0) /\ (i = 1 <=> Len(stack) = 0)
    BY <1>2
  <2>4. \A i : i = Len(stack) + 1 =>
          /\ stack'[i].kind = "callback" => i > 1 /\ stack'[i - 1].kind # "callback"
          /\ stack'[i].kind # "callback" => i = 1 \/ stack'[i - 1].kind = "callback"
    BY <2>2, <2>3
  <2> QED
    BY <1>2, <1>3, <2>1, <2>4 DEF Alternating
<1>8. DistinctFrames'
  BY <1>2, <1>3 DEF FrameIInv, DistinctFrames
<1>9. CurrentLinked'
  BY <1>2, <1>6 DEF FrameIInv, CurrentLinked, Linked
<1>10. CallsLinked'
  BY <1>2, <1>3, <1>4, <1>6 DEF FrameIInv, CallsLinked, Linked
<1>11. CallbacksLinked'
  <2>1. throws = 0 => current = InnermostOf(stack, Len(stack))
    BY <1>1 DEF FrameIInv, CurrentLinked, Linked, Excused
  <2>2. throws = 0 => \A i \in 1 .. Len(stack) :
          stack'[i].kind = "callback" => stack'[i].frame = InnermostOf(stack', i - 1)
    BY <1>2, <1>4 DEF FrameIInv, CallbacksLinked
  <2>3. throws = 0 /\ a.kind = "callback" => a.frame = InnermostOf(stack', Len(stack) + 1 - 1)
    BY <1>2, <2>1
  <2> QED
    BY <1>2, <1>3, <2>2, <2>3 DEF CallbacksLinked
<1>12. FramesOnStack' = FramesOnStack
  <2>1. \A f : f \in FramesOnStack => f \in FramesOnStack'
    <3>1. \A i \in DOMAIN stack : i \in DOMAIN stack' /\ stack'[i] = stack[i]
      BY <1>2
    <3> QED
      BY <3>1, FramesFacts
  <2>2. \A f : f \in FramesOnStack' => f \in FramesOnStack
    <3>1. \A i \in DOMAIN stack' : IsCall(stack'[i]) => i \in DOMAIN stack /\ stack'[i] = stack[i]
      BY <1>2, <1>3
    <3> QED
      BY <3>1, FramesFacts
  <2> QED
    BY <2>1, <2>2
<1> QED
  BY <1>7, <1>8, <1>9, <1>10, <1>11, <1>12

\* A call returns, and takes its frame off the list
LEMMA ReturnKeeps ==
  ASSUME FrameIInv, stack # <<>>, IsCall(Top), stack' = Pop, current' = prev[Top.frame],
         UNCHANGED <<prev, throws, entered>>
  PROVE  /\ stack' \in Seq(Activation) /\ Len(stack') <= MaxDepth /\ ~ InNative'
         /\ Alternating' /\ DistinctFrames' /\ CurrentLinked' /\ CallsLinked' /\ CallbacksLinked'
         /\ FramesOnStack' \subseteq FramesOnStack
         /\ Top.frame \in Frame /\ InnermostFrame(Len(stack)) = Top.frame
<1>1. stack \in Seq(Activation) /\ throws \in Nat /\ Len(stack) <= MaxDepth /\ MaxDepth \in Nat
  BY BoundAssumption DEF FrameIInv, TypeOK
<1>2. /\ Len(stack) \in Nat \ {0} /\ Top = stack[Len(stack)] /\ Top \in Activation
      /\ stack' = SubSeq(stack, 1, Len(stack) - 1)
  BY <1>1, TopFacts
<1>3. PICK n \in Nat : n = Len(stack) - 1 /\ n <= Len(stack) /\ stack' = SubSeq(stack, 1, n)
  BY <1>2
<1>4. /\ Alternating' /\ DistinctFrames' /\ CallsLinked' /\ CallbacksLinked'
      /\ FramesOnStack' \subseteq FramesOnStack
  BY <1>1, <1>3, CutKeeps
<1>5. /\ stack' \in Seq(Activation) /\ Len(stack') = n
      /\ \A i \in 1 .. n : stack'[i] = stack[i]
      /\ \A m \in 0 .. n : InnermostOf(stack', m) = InnermostOf(stack, m)
  BY <1>1, <1>3, CutFacts
<1>6. Linked(InnermostOf(stack, n), prev[Top.frame])
  BY <1>2, <1>3 DEF FrameIInv, CallsLinked
<1>7. CurrentLinked'
  BY <1>3, <1>5, <1>6 DEF CurrentLinked, Linked, Excused
<1>8. ~ InNative'
  <2>1. stack[Len(stack)].kind # "callback"
    BY <1>2, KindFacts
  <2>2. Len(stack) = 1 \/ stack[Len(stack) - 1].kind = "callback"
    <3>1. Len(stack) \in 1 .. Len(stack)
      BY <1>2
    <3> QED
      BY <2>1, <3>1 DEF FrameIInv, Alternating
  <2>3. n = 0 \/ (n \in 1 .. n /\ stack[n].kind = "callback")
    BY <1>2, <1>3, <2>2
  <2> QED
    BY <1>5, <2>3, NativeFacts
<1>9. InnermostFrame(Len(stack)) = Top.frame
  <2>1. InnermostOf(stack, Len(stack)) = stack[Len(stack)].frame
    BY <1>2, InnermostNext
  <2> QED
    BY <1>2, <2>1, InnermostFrameOf
<1> QED
  BY <1>1, <1>2, <1>3, <1>4, <1>5, <1>7, <1>8, <1>9, KindFacts

\* A callback or a foreign call returns
LEMMA OtherReturnKeeps ==
  ASSUME FrameIInv, stack # <<>>, ~ IsCall(Top), stack' = Pop,
         UNCHANGED <<current, prev, throws, entered>>
  PROVE  /\ stack' \in Seq(Activation) /\ Len(stack') <= MaxDepth
         /\ Alternating' /\ DistinctFrames' /\ CurrentLinked' /\ CallsLinked' /\ CallbacksLinked'
         /\ FramesOnStack' \subseteq FramesOnStack
         /\ Top.kind = "callback" /\ throws = 0 => Top.frame = InnermostFrame(Len(stack))
         /\ Top.kind = "callback" => Top.frame \in MaybeFrame
         /\ Top.kind = "foreign" => ~ InNative'
<1>1. stack \in Seq(Activation) /\ throws \in Nat /\ Len(stack) <= MaxDepth /\ MaxDepth \in Nat
  BY BoundAssumption DEF FrameIInv, TypeOK
<1>2. /\ Len(stack) \in Nat \ {0} /\ Top = stack[Len(stack)] /\ Top \in Activation
      /\ stack' = SubSeq(stack, 1, Len(stack) - 1)
  BY <1>1, TopFacts
<1>3. PICK n \in Nat : n = Len(stack) - 1 /\ n <= Len(stack) /\ stack' = SubSeq(stack, 1, n)
  BY <1>2
<1>4. /\ Alternating' /\ DistinctFrames' /\ CallsLinked' /\ CallbacksLinked'
      /\ FramesOnStack' \subseteq FramesOnStack
  BY <1>1, <1>3, CutKeeps
<1>5. /\ stack' \in Seq(Activation) /\ Len(stack') = n
      /\ \A i \in 1 .. n : stack'[i] = stack[i]
      /\ \A m \in 0 .. n : InnermostOf(stack', m) = InnermostOf(stack, m)
  BY <1>1, <1>3, CutFacts
<1>6. InnermostOf(stack, Len(stack)) = InnermostOf(stack, n)
  BY <1>2, <1>3, InnermostNext
<1>7. CurrentLinked'
  BY <1>3, <1>5, <1>6 DEF FrameIInv, CurrentLinked, Linked, Excused
<1>8. Top.kind = "callback" /\ throws = 0 => Top.frame = InnermostFrame(Len(stack))
  BY <1>2, <1>3, <1>6, InnermostFrameOf DEF FrameIInv, CallbacksLinked
<1>9. Top.kind = "foreign" => ~ InNative'
  <2>1. Top.kind = "foreign" => Len(stack) = 1 \/ stack[Len(stack) - 1].kind = "callback"
    <3>1. Len(stack) \in 1 .. Len(stack)
      BY <1>2
    <3> QED
      BY <1>2, <3>1 DEF FrameIInv, Alternating
  <2>2. Top.kind = "foreign" => n = 0 \/ (n \in 1 .. n /\ stack[n].kind = "callback")
    BY <1>2, <1>3, <2>1
  <2> QED
    BY <1>5, <2>2, NativeFacts
<1> QED
  BY <1>1, <1>2, <1>3, <1>4, <1>5, <1>7, <1>8, <1>9, KindFacts

LEMMA EnterStep ==
  ASSUME FrameIInv, NEW f \in Frame, NEW kind \in {"call", "blocking"}, Enter(f, kind)
  PROVE  FrameIInv'
<1> DEFINE a == [kind |-> kind, frame |-> f]
<1>1. stack \in Seq(Activation) /\ throws \in Nat /\ TypeOK
  BY DEF FrameIInv, TypeOK
<1>2. a \in Activation /\ IsCall(a) /\ a.frame = f /\ a.kind # "callback"
  BY DEF Activation, Call, IsCall
<1>3. /\ ~ InNative /\ raising = None /\ Len(stack) < MaxDepth /\ f \notin FramesOnStack
      /\ stack' = Append(stack, a)
      /\ prev' = [prev EXCEPT ![f] = current] /\ exc' = [exc EXCEPT ![f] = None]
      /\ current' = f /\ due' = [due EXCEPT ![f] = None] /\ entered' = entered \ {f}
      /\ UNCHANGED <<raising, errno, lastError, throws, written>>
  BY DEF Enter, InRuby
<1> HIDE DEF a
<1>4. /\ stack' \in Seq(Activation) /\ Len(stack) \in Nat /\ Len(stack') = Len(stack) + 1
      /\ DOMAIN stack = 1 .. Len(stack) /\ DOMAIN stack' = 1 .. Len(stack) + 1
      /\ \A i \in 1 .. Len(stack) : stack'[i] = stack[i]
      /\ stack'[Len(stack) + 1] = a
      /\ \A m \in 0 .. Len(stack) : InnermostOf(stack', m) = InnermostOf(stack, m)
      /\ InnermostOf(stack', Len(stack) + 1) = f
  BY <1>1, <1>2, <1>3, PushFacts
<1>5. \A i \in 1 .. Len(stack) + 1 : i \in 1 .. Len(stack) \/ i = Len(stack) + 1
  BY <1>4
<1>6. \A i \in 1 .. Len(stack) : i - 1 \in 0 .. Len(stack) /\ (i > 1 => i - 1 \in 1 .. Len(stack))
  BY <1>4
<1>7. \A i \in 1 .. Len(stack) : IsCall(stack[i]) => stack[i].frame # f
  BY <1>3, <1>4, FramesFacts
<1>8. \A m \in 0 .. Len(stack) : InnermostOf(stack, m) # f
  <2>1. ASSUME NEW m \in 0 .. Len(stack)
        PROVE  InnermostOf(stack, m) # f
    <3>1. m \in Nat /\ \A i \in 1 .. m : i \in 1 .. Len(stack)
      BY <1>4
    <3>2. \/ InnermostOf(stack, m) = None
          \/ \E i \in 1 .. m : IsCall(stack[i]) /\ InnermostOf(stack, m) = stack[i].frame
      BY <3>1, InnermostFound
    <3> QED
      BY <1>7, <3>1, <3>2, NoneAssumption
  <2> QED
    BY <2>1
<1>9. \A m \in 0 .. Len(stack) : Excused(InnermostOf(stack, m)) => Excused(InnermostOf(stack, m))'
  BY <1>3, <1>4, <1>8 DEF Excused
<1>10. TypeOK'
  <2>1. /\ prev' \in [Frame -> MaybeFrame] /\ exc' \in [Frame -> MaybeException]
        /\ due' \in [Frame -> MaybeException]
    BY <1>1, <1>3 DEF TypeOK, MaybeFrame, MaybeException
  <2>2. Len(stack') <= MaxDepth
    BY <1>3, <1>4, BoundAssumption
  <2> QED
    BY <1>1, <1>3, <1>4, <2>1, <2>2 DEF TypeOK, MaybeFrame
<1>11. Alternating'
  <2>1. \A i \in 1 .. Len(stack) :
          /\ stack'[i].kind = "callback" => i > 1 /\ stack'[i - 1].kind # "callback"
          /\ stack'[i].kind # "callback" => i = 1 \/ stack'[i - 1].kind = "callback"
    BY <1>4, <1>6 DEF FrameIInv, Alternating
  <2>2. Len(stack) = 0 \/ stack'[Len(stack)].kind = "callback"
    <3>1. Len(stack) > 0 => Len(stack) \in 1 .. Len(stack)
      BY <1>4
    <3>2. Len(stack) > 0 => stack'[Len(stack)] = stack[Len(stack)]
      BY <1>4, <3>1
    <3>3. ~ (Len(stack) > 0 /\ stack[Len(stack)].kind # "callback")
      BY <1>1, <1>3, NativeFacts
    <3> QED
      BY <1>4, <3>2, <3>3
  <2>3. \A i : i = Len(stack) + 1 => stack'[i] = a /\ i - 1 = Len(stack) /\ (i = 1 <=> Len(stack) = 0)
    BY <1>4
  <2>4. \A i : i = Len(stack) + 1 =>
          stack'[i].kind # "callback" /\ (i = 1 \/ stack'[i - 1].kind = "callback")
    BY <1>2, <2>2, <2>3
  <2> QED
    BY <1>4, <1>5, <2>1, <2>4 DEF Alternating
<1>12. DistinctFrames'
  BY <1>2, <1>4, <1>5, <1>7 DEF FrameIInv, DistinctFrames
<1>13. CurrentLinked'
  BY <1>3, <1>4 DEF CurrentLinked, Linked
<1>14. CallsLinked'
  <2>1. prev'[f] = current /\ \A g \in Frame : g # f => prev'[g] = prev[g]
    BY <1>1, <1>3 DEF TypeOK
  <2>2. ASSUME NEW i \in 1 .. Len(stack), IsCall(stack[i])
        PROVE  Linked(InnermostOf(stack, i - 1), prev[stack[i].frame])'
    <3>1. stack[i] \in Activation /\ stack[i].frame \in Frame /\ stack[i].frame # f
      BY <1>1, <1>7, <2>2, ElementOfSeq, KindFacts
    <3>2. Linked(InnermostOf(stack, i - 1), prev[stack[i].frame])
      BY <2>2 DEF FrameIInv, CallsLinked
    <3>3. stack'[i] = stack[i] /\ InnermostOf(stack', i - 1) = InnermostOf(stack, i - 1)
      BY <1>4, <1>6
    <3>4. Excused(InnermostOf(stack, i - 1)) => Excused(InnermostOf(stack, i - 1))'
      BY <1>6, <1>9
    <3> QED
      BY <2>1, <3>1, <3>2, <3>3, <3>4 DEF Linked
  <2>3. ASSUME NEW i, i = Len(stack) + 1
        PROVE  Linked(InnermostOf(stack, i - 1), prev[stack[i].frame])'
    <3>1. i - 1 = Len(stack) /\ stack'[i] = a
      BY <1>4, <2>3
    <3>2. Linked(InnermostOf(stack, Len(stack)), current)
      BY DEF FrameIInv, CurrentLinked
    <3>3. InnermostOf(stack', i - 1) = InnermostOf(stack, Len(stack))
      BY <1>4, <3>1
    <3>4. Excused(InnermostOf(stack, Len(stack))) => Excused(InnermostOf(stack, i - 1))'
      BY <1>4, <1>9, <3>1, <3>3 DEF Excused
    <3> QED
      BY <1>2, <2>1, <3>1, <3>2, <3>3, <3>4 DEF Linked
  <2> QED
    BY <1>4, <1>5, <2>2, <2>3 DEF CallsLinked
<1>15. CallbacksLinked'
  BY <1>2, <1>3, <1>4, <1>5, <1>6 DEF FrameIInv, CallbacksLinked
<1>16. CallsRaiseTheirOwn'
  <2>1. exc'[f] = due'[f] /\ \A g \in Frame : g # f => exc'[g] = exc[g] /\ due'[g] = due[g]
    BY <1>1, <1>3 DEF TypeOK
  <2>2. \A g : g \in FramesOnStack' => g = f \/ g \in FramesOnStack
    BY <1>2, <1>4, <1>5, FramesFacts
  <2>3. FramesOnStack \subseteq Frame
    BY <1>1, <1>4, FramesFacts, ElementOfSeq, KindFacts
  <2> QED
    BY <1>3, <2>1, <2>2, <2>3 DEF FrameIInv, CallsRaiseTheirOwn
<1> QED
  BY <1>10, <1>11, <1>12, <1>13, <1>14, <1>15, <1>16 DEF FrameIInv

-----------------------------------------------------------------------------
(* The other steps *)

LEMMA InitFrames == Init => FrameIInv
<1> SUFFICES ASSUME Init
             PROVE  FrameIInv
  OBVIOUS
<1>1. stack \in Seq(Activation) /\ Len(stack) = 0 /\ DOMAIN stack = {}
  BY EmptySeq, LenProperties DEF Init
<1>2. ~ InNative
  BY <1>1, NativeFacts
<1>3. TypeOK
  BY <1>1, <1>2, BoundAssumption DEF Init, TypeOK, MaybeFrame, MaybeException
<1>4. Alternating /\ DistinctFrames /\ CallsLinked /\ CallbacksLinked
  BY <1>1 DEF Alternating, DistinctFrames, CallsLinked, CallbacksLinked
<1>5. CurrentLinked
  BY <1>1, InnermostNone DEF Init, CurrentLinked, Linked
<1>6. CallsRaiseTheirOwn
  BY DEF Init, CallsRaiseTheirOwn, FramesOnStack
<1> QED
  BY <1>3, <1>4, <1>5, <1>6 DEF FrameIInv

LEMMA OnStackAreFrames ==
  ASSUME FrameIInv
  PROVE  FramesOnStack \subseteq Frame
<1>1. stack \in Seq(Activation)
  BY DEF FrameIInv, TypeOK
<1>2. \A i \in DOMAIN stack : stack[i] \in Activation
  BY <1>1, ElementOfSeq, LenProperties
<1> QED
  BY <1>2, FramesFacts, KindFacts

LEMMA LeaveStep ==
  ASSUME FrameIInv, NEW ignoreErrno \in BOOLEAN, Leave(ignoreErrno)
  PROVE  FrameIInv'
<1>1. TypeOK /\ CallsRaiseTheirOwn
  BY DEF FrameIInv
<1>2. /\ stack # <<>> /\ IsCall(Top) /\ stack' = Pop /\ current' = prev[Top.frame]
      /\ raising' = exc[Top.frame] /\ errno' \in Errno
      /\ \/ UNCHANGED <<lastError, written>>
         \/ lastError' = errno' /\ written' = None
      /\ UNCHANGED <<prev, exc, throws, due, entered>>
  BY DEF Leave
<1>3. /\ stack' \in Seq(Activation) /\ Len(stack') <= MaxDepth /\ ~ InNative'
      /\ Alternating' /\ DistinctFrames' /\ CurrentLinked' /\ CallsLinked' /\ CallbacksLinked'
      /\ FramesOnStack' \subseteq FramesOnStack /\ Top.frame \in Frame
  BY <1>2, ReturnKeeps
<1>4. TypeOK'
  BY <1>1, <1>2, <1>3 DEF TypeOK
<1>5. CallsRaiseTheirOwn'
  BY <1>1, <1>2, <1>3 DEF CallsRaiseTheirOwn
<1> QED
  BY <1>3, <1>4, <1>5 DEF FrameIInv

LEMMA InterruptStep ==
  ASSUME FrameIInv, NEW e \in Exception, InterruptBlocking(e)
  PROVE  FrameIInv'
<1>1. TypeOK /\ CallsRaiseTheirOwn
  BY DEF FrameIInv
<1>2. /\ stack # <<>> /\ IsCall(Top) /\ stack' = Pop /\ current' = prev[Top.frame]
      /\ exc' = [exc EXCEPT ![Top.frame] = e] /\ due' = [due EXCEPT ![Top.frame] = e]
      /\ raising' = e /\ errno' \in Errno /\ lastError' = errno' /\ written' = None
      /\ UNCHANGED <<prev, throws, entered>>
  BY DEF InterruptBlocking, IsCall
<1>3. /\ stack' \in Seq(Activation) /\ Len(stack') <= MaxDepth /\ ~ InNative'
      /\ Alternating' /\ DistinctFrames' /\ CurrentLinked' /\ CallsLinked' /\ CallbacksLinked'
      /\ FramesOnStack' \subseteq FramesOnStack /\ Top.frame \in Frame
  BY <1>2, ReturnKeeps
<1>4. TypeOK'
  <2>1. exc' \in [Frame -> MaybeException] /\ due' \in [Frame -> MaybeException]
    BY <1>1, <1>2, <1>3 DEF TypeOK, MaybeException
  <2> QED
    BY <1>1, <1>2, <1>3, <2>1 DEF TypeOK, MaybeException
<1>5. CallsRaiseTheirOwn'
  <2>1. \A g \in Frame : exc[g] = due[g] => exc'[g] = due'[g]
    BY <1>1, <1>2 DEF TypeOK
  <2> QED
    BY <1>1, <1>2, <1>3, <2>1, OnStackAreFrames DEF CallsRaiseTheirOwn
<1> QED
  BY <1>3, <1>4, <1>5 DEF FrameIInv

LEMMA ExceptionFacts ==
  ASSUME TypeOK, NEW f, NEW e \in MaybeException, NEW n,
         SetException(f, e), due' = Due(n, e)
  PROVE  /\ exc' \in [Frame -> MaybeException] /\ due' \in [Frame -> MaybeException]
         /\ f = InnermostFrame(n) =>
              \A g \in Frame : exc[g] = due[g] => exc'[g] = due'[g]
BY DEF TypeOK, SetException, Due

LEMMA InvokeStep ==
  ASSUME FrameIInv, Invoke
  PROVE  FrameIInv'
<1> DEFINE a == [kind |-> "callback", frame |-> current]
<1>1. TypeOK /\ CallsRaiseTheirOwn /\ stack \in Seq(Activation) /\ throws \in Nat
  BY DEF FrameIInv, TypeOK
<1>2. a \in Activation /\ ~ IsCall(a) /\ a.kind = "callback" /\ a.frame = current
  BY <1>1 DEF Activation, Callback, IsCall, TypeOK
<1>3. /\ InNative /\ Len(stack) < MaxDepth /\ stack' = Append(stack, a)
      /\ SetException(current, None) /\ due' = Due(Len(stack), None)
      /\ UNCHANGED <<current, prev, raising, errno, lastError, throws, entered, written>>
  BY DEF Invoke
<1> HIDE DEF a
<1>4. /\ Alternating' /\ DistinctFrames' /\ CurrentLinked' /\ CallsLinked' /\ CallbacksLinked'
      /\ FramesOnStack' = FramesOnStack
  BY <1>2, <1>3, PushKeeps
<1>5. /\ stack' \in Seq(Activation) /\ Len(stack') = Len(stack) + 1 /\ Len(stack) \in Nat
      /\ stack'[Len(stack) + 1] = a
  BY <1>1, <1>2, <1>3, PushFacts
<1>6. /\ exc' \in [Frame -> MaybeException] /\ due' \in [Frame -> MaybeException]
      /\ current = InnermostFrame(Len(stack)) =>
           \A g \in Frame : exc[g] = due[g] => exc'[g] = due'[g]
  <2>1. None \in MaybeException
    BY DEF MaybeException
  <2> QED
    BY <1>1, <1>3, <2>1, ExceptionFacts
<1>7. TypeOK'
  <2>1. raising = None
    BY <1>1, <1>3 DEF TypeOK
  <2>2. Len(stack') <= MaxDepth
    BY <1>3, <1>5, BoundAssumption
  <2> QED
    BY <1>1, <1>3, <1>5, <1>6, <2>1, <2>2 DEF TypeOK
<1>8. CallsRaiseTheirOwn'
  <2>1. throws = 0 => current = InnermostFrame(Len(stack))
    BY <1>1, InnermostFrameOf DEF FrameIInv, CurrentLinked, Linked, Excused
  <2> QED
    BY <1>1, <1>3, <1>4, <1>6, <2>1, OnStackAreFrames DEF CallsRaiseTheirOwn
<1> QED
  BY <1>4, <1>7, <1>8 DEF FrameIInv

LEMMA ForeignStep ==
  ASSUME FrameIInv, EnterForeign
  PROVE  FrameIInv'
<1> DEFINE a == [kind |-> "foreign", frame |-> None]
<1>1. TypeOK /\ CallsRaiseTheirOwn /\ stack \in Seq(Activation)
  BY DEF FrameIInv, TypeOK
<1>2. a \in Activation /\ ~ IsCall(a) /\ a.kind # "callback"
  BY DEF Activation, ForeignCall, IsCall
<1>3. /\ ~ InNative /\ raising = None /\ Len(stack) < MaxDepth /\ stack' = Append(stack, a)
      /\ UNCHANGED <<current, prev, exc, raising, errno, lastError, throws, due, entered, written>>
  BY DEF EnterForeign, InRuby
<1> HIDE DEF a
<1>4. /\ Alternating' /\ DistinctFrames' /\ CurrentLinked' /\ CallsLinked' /\ CallbacksLinked'
      /\ FramesOnStack' = FramesOnStack
  BY <1>2, <1>3, PushKeeps
<1>5. stack' \in Seq(Activation) /\ Len(stack') = Len(stack) + 1 /\ Len(stack) \in Nat
  BY <1>1, <1>2, <1>3, PushFacts
<1>6. TypeOK'
  <2>1. Len(stack') <= MaxDepth
    BY <1>3, <1>5, BoundAssumption
  <2> QED
    BY <1>1, <1>3, <1>5, <2>1 DEF TypeOK
<1>7. CallsRaiseTheirOwn'
  BY <1>1, <1>3, <1>4 DEF CallsRaiseTheirOwn
<1> QED
  BY <1>4, <1>6, <1>7 DEF FrameIInv

LEMMA FinishStep ==
  ASSUME FrameIInv, LeaveForeign \/ FinishCallback
  PROVE  FrameIInv'
<1>1. TypeOK /\ CallsRaiseTheirOwn
  BY DEF FrameIInv
<1>2. /\ stack # <<>> /\ ~ IsCall(Top) /\ stack' = Pop
      /\ UNCHANGED <<current, prev, exc, raising, errno, lastError, throws, due, entered, written>>
      /\ Top.kind = "foreign" \/ raising = None
  BY DEF LeaveForeign, FinishCallback, IsCall
<1>3. /\ stack' \in Seq(Activation) /\ Len(stack') <= MaxDepth
      /\ Alternating' /\ DistinctFrames' /\ CurrentLinked' /\ CallsLinked' /\ CallbacksLinked'
      /\ FramesOnStack' \subseteq FramesOnStack
      /\ Top.kind = "foreign" => ~ InNative'
  BY <1>2, OtherReturnKeeps
<1>4. TypeOK'
  BY <1>1, <1>2, <1>3 DEF TypeOK
<1>5. CallsRaiseTheirOwn'
  BY <1>1, <1>2, <1>3 DEF CallsRaiseTheirOwn
<1> QED
  BY <1>3, <1>4, <1>5 DEF FrameIInv

LEMMA FailStep ==
  ASSUME FrameIInv, FailCallback
  PROVE  FrameIInv'
<1>1. TypeOK /\ CallsRaiseTheirOwn
  BY DEF FrameIInv
<1>2. /\ stack # <<>> /\ ~ IsCall(Top) /\ Top.kind = "callback" /\ stack' = Pop
      /\ SetException(Top.frame, raising) /\ due' = Due(Len(stack), raising) /\ raising' = None
      /\ UNCHANGED <<current, prev, errno, lastError, throws, entered, written>>
  BY DEF FailCallback, IsCall
<1>3. /\ stack' \in Seq(Activation) /\ Len(stack') <= MaxDepth
      /\ Alternating' /\ DistinctFrames' /\ CurrentLinked' /\ CallsLinked' /\ CallbacksLinked'
      /\ FramesOnStack' \subseteq FramesOnStack
      /\ throws = 0 => Top.frame = InnermostFrame(Len(stack))
  BY <1>2, OtherReturnKeeps
<1>4. /\ exc' \in [Frame -> MaybeException] /\ due' \in [Frame -> MaybeException]
      /\ Top.frame = InnermostFrame(Len(stack)) =>
           \A g \in Frame : exc[g] = due[g] => exc'[g] = due'[g]
  <2>1. raising \in MaybeException
    BY <1>1 DEF TypeOK
  <2> QED
    BY <1>1, <1>2, <2>1, ExceptionFacts
<1>5. TypeOK'
  BY <1>1, <1>2, <1>3, <1>4 DEF TypeOK, MaybeException
<1>6. CallsRaiseTheirOwn'
  BY <1>1, <1>2, <1>3, <1>4, OnStackAreFrames DEF CallsRaiseTheirOwn
<1> QED
  BY <1>3, <1>5, <1>6 DEF FrameIInv

LEMMA ThrowStep ==
  ASSUME FrameIInv, NEW n \in RubyLevels, Throw(n)
  PROVE  FrameIInv'
<1>1. TypeOK /\ stack \in Seq(Activation) /\ throws \in 0 .. MaxThrows /\ Len(stack) <= MaxDepth
  BY DEF FrameIInv, TypeOK
<1>2. DOMAIN stack = 1 .. Len(stack) /\ Len(stack) \in Nat
  BY <1>1, LenProperties
<1>3. n \in Nat /\ (n = 0 \/ (n \in 1 .. Len(stack) /\ stack[n].kind = "callback"))
  BY <1>2 DEF RubyLevels
<1>4. /\ throws < MaxThrows /\ n < Len(stack) /\ stack' = SubSeq(stack, 1, n)
      /\ raising' = None /\ throws' = throws + 1
      /\ entered' = entered \cup ({InnermostFrame(n)} \ {None})
      /\ UNCHANGED <<current, prev, exc, errno, lastError, due, written>>
  BY DEF Throw
<1>5. throws' \in 0 .. MaxThrows /\ throws' > 0 /\ throws <= throws' /\ n <= Len(stack)
  BY <1>1, <1>2, <1>3, <1>4, BoundAssumption
<1>6. /\ stack' \in Seq(Activation) /\ Len(stack') = n
      /\ InnermostOf(stack', n) = InnermostOf(stack, n)
  BY <1>1, <1>3, <1>4, <1>5, CutFacts
<1>7. Alternating' /\ DistinctFrames' /\ CallsLinked' /\ CallbacksLinked'
  BY <1>3, <1>4, <1>5, CutKeeps
<1>8. CurrentLinked'
  BY <1>4, <1>5, <1>6, InnermostFrameOf DEF CurrentLinked, Linked, Excused
<1>9. TypeOK'
  <2>1. entered' \in SUBSET Frame
    <3>1. InnermostFrame(n) \in Frame \cup {None}
      <4>1. \/ InnermostOf(stack, n) = None
            \/ \E i \in 1 .. n : IsCall(stack[i]) /\ InnermostOf(stack, n) = stack[i].frame
        BY <1>3, InnermostFound
      <4>2. \A i \in 1 .. n : i \in 1 .. Len(stack)
        BY <1>3, <1>2, <1>5
      <4>3. \A i \in 1 .. Len(stack) : IsCall(stack[i]) => stack[i].frame \in Frame
        BY <1>1, ElementOfSeq, KindFacts
      <4> QED
        BY <4>1, <4>2, <4>3, InnermostFrameOf
    <3> QED
      BY <1>1, <1>4, <3>1 DEF TypeOK
  <2>2. Len(stack') <= MaxDepth
    BY <1>1, <1>2, <1>3, <1>5, <1>6, BoundAssumption
  <2> QED
    BY <1>1, <1>4, <1>5, <1>6, <2>1, <2>2 DEF TypeOK, MaybeException
<1>10. CallsRaiseTheirOwn'
  BY <1>5 DEF CallsRaiseTheirOwn
<1> QED
  BY <1>7, <1>8, <1>9, <1>10 DEF FrameIInv

\* Ruby code raises, rescues and sets FFI::LastError: the stack stays
LEMMA StillStep ==
  ASSUME FrameIInv,
         \/ \E e \in Exception : Raise(e)
         \/ Rescue
         \/ \E e \in Errno : SetLastError(e)
         \/ UNCHANGED vars
  PROVE  FrameIInv'
<1>1. UNCHANGED <<stack, current, prev, exc, lastError, throws, due, entered>>
  BY DEF Raise, Rescue, SetLastError, vars
<1>2. /\ raising' \in MaybeException /\ errno' \in Errno /\ written' \in Errno \cup {None}
      /\ InNative => raising' = None
  BY DEF FrameIInv, TypeOK, Raise, Rescue, SetLastError, vars, InRuby, MaybeException
<1>3. InNative' <=> InNative
  BY <1>1 DEF InNative, Top
<1>4. TypeOK'
  BY <1>1, <1>2, <1>3 DEF FrameIInv, TypeOK
<1>5. Alternating' /\ DistinctFrames' /\ CurrentLinked' /\ CallsLinked' /\ CallbacksLinked'
  BY <1>1 DEF FrameIInv, Alternating, DistinctFrames, CurrentLinked, CallsLinked, CallbacksLinked,
              Linked, Excused
<1>6. CallsRaiseTheirOwn'
  BY <1>1 DEF FrameIInv, CallsRaiseTheirOwn, FramesOnStack
<1> QED
  BY <1>4, <1>5, <1>6 DEF FrameIInv

LEMMA FrameStep == FrameIInv /\ [Next]_vars => FrameIInv'
BY EnterStep, LeaveStep, InterruptStep, InvokeStep, ForeignStep, FinishStep, FailStep, ThrowStep,
   StillStep DEF Next

THEOREM FrameInvariant == Spec => []FrameIInv
BY InitFrames, FrameStep, PTL DEF Spec

\* The stack, the frames on it and what the thread keeps have the shape the code expects
THEOREM FramesTyped == Spec => []TypeOK
<1>1. FrameIInv => TypeOK
  BY DEF FrameIInv
<1> QED
  BY <1>1, FrameInvariant, PTL

\* Without non-local exits the thread's frame is that of its innermost FFI call
\* (rbffi_frame_push, rbffi_frame_pop)
THEOREM CurrentFrameIsInnermost == Spec => []CurrentIsInnermost
<1>1. FrameIInv => CurrentIsInnermost
  BY InnermostFrameOf DEF FrameIInv, CurrentLinked, Linked, Excused, CurrentIsInnermost
<1> QED
  BY <1>1, FrameInvariant, PTL

\* Without non-local exits a call raises what the last callback into it raised
\* (callback_invoke, save_callback_exception, rbffi_CallFunction)
THEOREM CallsRaiseOwnException == Spec => []CallsRaiseTheirOwn
<1>1. FrameIInv => CallsRaiseTheirOwn
  BY DEF FrameIInv
<1> QED
  BY <1>1, FrameInvariant, PTL

\* A throw spoils the current frame only for the calls in whose callbacks it ended
\* (rbffi_frame_pop restores it for the others)
THEOREM DamageStaysLocal == Spec => []DamageIsLocal
<1>1. FrameIInv => DamageIsLocal
  <2> SUFFICES ASSUME FrameIInv, stack # <<>>, IsCall(Top), Top.frame \notin entered
               PROVE  current = Top.frame
    BY DEF DamageIsLocal
  <2>1. stack \in Seq(Activation)
    BY DEF FrameIInv, TypeOK
  <2>2. Len(stack) \in Nat \ {0} /\ Top = stack[Len(stack)] /\ Top.frame \in Frame
    BY <2>1, TopFacts, KindFacts
  <2>3. InnermostOf(stack, Len(stack)) = Top.frame
    BY <2>2, InnermostNext
  <2> QED
    BY <2>2, <2>3, NoneAssumption DEF FrameIInv, CurrentLinked, Linked, Excused
<1> QED
  BY <1>1, FrameInvariant, PTL
=============================================================================
