SPECIFICATION Spec
CONSTANTS
  FieldTypes <- MCFieldTypes
  FloatTypes <- MCFloatTypes
  IntTypes <- MCIntTypes
  Offsets = {6}
  Packs = {0, 2}
  Aligns = {16}
  Sizes = {21}
  MaxFields = 3
  MaxLayouts = 2
  Unset = Unset
  NoLeaf = NoLeaf
  Symbol = {a, b, c}
  Given <- MCGiven
  NativeTypes <- MCNativeTypes
  MaxItems = 5
  MaxBit = 9
  NoSymbol = NoSymbol
  NativeLib = {l1, l2}
  Exports <- MCExports
  Dl = {d1, d2, d3}
  MaxNames = 2
  NotOpen = NotOpen
  NotAttached = NotAttached
  MaxParams = 3
SYMMETRY DeclarationSymmetry
INVARIANTS TypeOK LayoutFits LayoutAsC UnionFilled ConversionsInvert AttachedLoaded NativeReachesLive CallbacksTyped
CHECK_DEADLOCK FALSE
