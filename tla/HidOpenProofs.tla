------------------------------ MODULE HidOpenProofs ----------------------------
(***************************************************************************)
(* What udcinput_hidg_open leaves behind, for a devinfo of any size and a     *)
(* <function>/dev of any length, over any number of calls.                  *)
(***************************************************************************)
EXTENDS HidOpenProps, FiniteSetTheorems, TLAPS

\* What is held at each step of a call, and what the call knows of the file.
Inv ==
  /\ TypeOK
  /\ heap = CASE at = "open_devinfo" -> {"devinfo_path"}
              [] at = "open_node" -> {"path"}
              [] at = "returned" /\ result = "missing" -> {"path"}
              [] OTHER -> {}
  /\ fds = CASE at = "read" -> {"devinfo"}
             [] at = "returned" /\ result = "fd" -> {"hidg"}
             [] OTHER -> {}
  /\ at \in {"terminate", "format_path", "open_node"} \/ result = "fd"
       => nread = length /\ nread \in 0..(DevinfoSize - 1)
  /\ result # "none" => at = "returned"
  /\ ~VaListPassedByReference => path = "right"

LEMMA InitInv == Init => Inv
  BY HidOpenAssumption DEF Init, Inv, TypeOK

LEMMA FormatDevinfoPathInv == Inv /\ FormatDevinfoPath => Inv'
<1> SUFFICES ASSUME Inv, FormatDevinfoPath PROVE Inv'
  OBVIOUS
<1> USE HidOpenAssumption DEF Texts, Returns
<1>1. TypeOK'
  BY DEF Inv, TypeOK, FormatDevinfoPath, SprintfAlloc
<1> QED
  BY <1>1 DEF Inv, FormatDevinfoPath, SprintfAlloc

LEMMA OpenDevinfoInv == Inv /\ OpenDevinfo => Inv'
<1> SUFFICES ASSUME Inv, OpenDevinfo PROVE Inv'
  OBVIOUS
<1> USE DEF Returns
<1>1. TypeOK'
  BY DEF Inv, TypeOK, OpenDevinfo
<1> QED
  BY <1>1 DEF Inv, OpenDevinfo

LEMMA ReadDevinfoInv == Inv /\ ReadDevinfo => Inv'
<1> SUFFICES ASSUME Inv, ReadDevinfo PROVE Inv'
  OBVIOUS
<1> USE HidOpenAssumption DEF Returns, TooLong
<1>1. length \in Nat /\ length' = length
  BY DEF Inv, TypeOK, ReadDevinfo
<1>2. nread' \in -1..DevinfoSize
  BY <1>1 DEF ReadDevinfo
<1>3. TypeOK'
  BY <1>2 DEF Inv, TypeOK, ReadDevinfo
<1>4. at' = "terminate" => nread' = length /\ nread' \in 0..(DevinfoSize - 1)
  BY <1>1, <1>2 DEF ReadDevinfo
<1> QED
  BY <1>1, <1>3, <1>4 DEF Inv, ReadDevinfo

LEMMA TerminateDevinfoInv == Inv /\ TerminateDevinfo => Inv'
<1> SUFFICES ASSUME Inv, TerminateDevinfo PROVE Inv'
  OBVIOUS
<1>1. nread \in 0..(DevinfoSize - 1)
  BY DEF Inv, TerminateDevinfo
<1>2. touched' \subseteq 0..(DevinfoSize - 1)
  BY <1>1, HidOpenAssumption DEF TerminateDevinfo
<1>3. TypeOK'
  BY <1>2 DEF Inv, TypeOK, TerminateDevinfo
<1> QED
  BY <1>3 DEF Inv, TerminateDevinfo

LEMMA FormatPathInv == Inv /\ FormatPath => Inv'
<1> SUFFICES ASSUME Inv, FormatPath PROVE Inv'
  OBVIOUS
<1> USE HidOpenAssumption DEF Texts, Returns
<1>1. TypeOK'
  BY DEF Inv, TypeOK, FormatPath, SprintfAlloc
<1> QED
  BY <1>1 DEF Inv, FormatPath, SprintfAlloc

LEMMA OpenNodeInv == Inv /\ OpenNode => Inv'
<1> SUFFICES ASSUME Inv, OpenNode PROVE Inv'
  OBVIOUS
<1> USE DEF Returns
<1>1. TypeOK'
  BY DEF Inv, TypeOK, OpenNode
<1> QED
  BY <1>1 DEF Inv, OpenNode

\* A call leaves one block at most to be lost.
LEMMA AtMostOneBlock ==
  ASSUME Inv, at = "returned"
  PROVE  /\ Cardinality(heap) \in {0, 1}
         /\ Cardinality(heap) = 1 => result = "missing"
<1>1. heap = {} \/ heap = {"path"}
  BY DEF Inv
<1>2. heap = {"path"} => result = "missing"
  BY DEF Inv
<1>3. Cardinality({}) = 0 /\ Cardinality({"path"}) = 1
  BY FS_EmptySet, FS_Singleton
<1> QED
  BY <1>1, <1>2, <1>3

LEMMA AgainInv == Inv /\ Again => Inv'
<1> SUFFICES ASSUME Inv, Again PROVE Inv'
  OBVIOUS
<1>1. lost' \in 0..MaxLost
  BY AtMostOneBlock, HidOpenAssumption DEF Again, Inv, TypeOK
<1>2. TypeOK'
  BY <1>1, HidOpenAssumption DEF Inv, TypeOK, Again
<1> QED
  BY <1>2 DEF Inv, Again

THEOREM HidOpenInvariant == Spec => []Inv
<1>1. Inv /\ [Next]_vars => Inv'
  <2> SUFFICES ASSUME Inv, [Next]_vars PROVE Inv'
    OBVIOUS
  <2>1. CASE UNCHANGED vars
    BY <2>1 DEF vars, Inv, TypeOK
  <2> QED
    BY <2>1, FormatDevinfoPathInv, OpenDevinfoInv, ReadDevinfoInv, TerminateDevinfoInv,
       FormatPathInv, OpenNodeInv, AgainInv DEF Next
<1> QED
  BY InitInv, <1>1, PTL DEF Spec

\* Types, among them that no byte outside devinfo is written.
THEOREM HidOpenTypeCorrect == Spec => []TypeOK
<1>1. Inv => TypeOK
  BY DEF Inv
<1> QED
  BY HidOpenInvariant, <1>1, PTL

\* No way out of the call leaves a descriptor behind.
THEOREM DescriptorsAreClosed == Spec => []ReturnsOneDescriptor
<1>1. Inv => ReturnsOneDescriptor
  BY DEF Inv, ReturnsOneDescriptor
<1> QED
  BY HidOpenInvariant, <1>1, PTL

\* Where a va_list is passed by value, what is opened is the function's node.
THEOREM TheRightNodeIsOpened ==
  ASSUME ~VaListPassedByReference
  PROVE  Spec => []OpensTheFunctionsNode
<1>1. Inv => OpensTheFunctionsNode
  BY DEF Inv, OpensTheFunctionsNode
<1> QED
  BY HidOpenInvariant, <1>1, PTL

\* Memory is lost by one return only, one block each time.
THEOREM LeakIsBounded == Spec => OnlyMissingNodeLeaks
<1> DEFINE Step == /\ at = "returned" /\ lost' # lost => result = "missing"
                   /\ lost' <= lost + 1
<1>1. Inv /\ [Next]_vars => [Step]_vars
  <2> SUFFICES ASSUME Inv, Next PROVE Step
    OBVIOUS
  <2>1. lost \in Nat /\ MaxLost \in Nat /\ lost <= MaxLost
    BY HidOpenAssumption DEF Inv, TypeOK
  <2>2. CASE Again
    <3>1. at = "returned"
      BY <2>2 DEF Again
    <3>2. lost' = IF lost + Cardinality(heap) <= MaxLost THEN lost + Cardinality(heap) ELSE MaxLost
      BY <2>2 DEF Again
    <3> QED
      BY <2>1, <3>1, <3>2, AtMostOneBlock
  <2>3. CASE ~Again
    <3>1. lost' = lost
      BY <2>3 DEF Next, FormatDevinfoPath, OpenDevinfo, ReadDevinfo, TerminateDevinfo,
           FormatPath, OpenNode
    <3> QED
      BY <2>1, <3>1
  <2> QED
    BY <2>2, <2>3
<1> QED
  BY HidOpenInvariant, <1>1, PTL DEF Spec, OnlyMissingNodeLeaks
===============================================================================
