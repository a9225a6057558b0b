------------------------------ MODULE GadgetProofs -----------------------------
(***************************************************************************)
(* The configfs tree under any number of functions, any failing system calls  *)
(* and a program that may die between any two of them.                       *)
(***************************************************************************)
EXTENDS GadgetProps, SequenceTheorems, TLAPS

DirNames == {"gadget", "strings", "config", "config_strings"}

DirSteps == [op : {"mkdir", "rmdir", "write", "bind", "unbind"}, arg : DirNames, must : BOOLEAN]
FunctionSteps ==
  [op : {"mkfunction", "rmfunction", "write_function", "link", "unlink"},
   arg : Ids, must : BOOLEAN]
Steps == DirSteps \cup FunctionSteps

RemovalSteps == {s \in Steps : s.op \in {"unbind", "unlink", "rmdir", "rmfunction"} /\ ~s.must}
MakeGadget == Must("mkdir", "gadget")
InitSteps == RemovalSteps \cup {MakeGadget}
ConfigureSteps == {s \in DirSteps : s.op \in {"write", "mkdir"}}
BindSteps == {s \in DirSteps : s.op \in {"bind", "unbind"}}
PadSteps(created) ==
  {s \in FunctionSteps : s.op \in {"unlink", "rmfunction"} /\ s.arg \notin created}

-----------------------------------------------------------------------------
(* The inductive invariant.                                                 *)

\* The kernel's tree: everything in the gadget's directory, links only to
\* functions, and a bound gadget has one.
TreeInv ==
  /\ dirs # {} => "gadget" \in dirs
  /\ "config_strings" \in dirs => "config" \in dirs
  /\ functions # {} => "gadget" \in dirs
  /\ links # {} => "config" \in dirs
  /\ links \subseteq functions
  /\ bound => links # {}

PadInv ==
  /\ \A id \in pads : id < next
  /\ ram = "created" => pads = {}
  /\ PadsAreLinked

Fresh == dirs = {"gadget"} /\ functions = {} /\ links = {} /\ ~bound

InitInv ==
  /\ ram = "created"
  /\ script \in Seq(InitSteps)
  /\ script = <<>> => Fresh
  /\ script # <<>> => script[Len(script)] = MakeGadget

\* What is left of create, from its first system call to its last.
CreateInv ==
  /\ ram = "ready"
  /\ \/ next \in Ids /\ script = CreateScript(next)
     \/ /\ next - 1 \in Ids \ pads
        /\ \/ script = <<Must("write_function", next - 1), Must("link", next - 1)>>
           \/ script = <<Must("link", next - 1)>>
           \/ script = <<>> /\ next - 1 \in functions \cap links

UndoInv ==
  /\ ram = "ready"
  /\ next - 1 \in Ids \ pads
  /\ script = UndoCreateScript \/ script = <<>>

CallInv ==
  /\ call = "none" => script = <<>>
  /\ call \in {"init", "init_cleanup"} => InitInv
  /\ call = "configure" => ram = "ready" /\ script \in Seq(ConfigureSteps)
  /\ call = "create" => CreateInv
  /\ call = "undo_create" => UndoInv
  /\ call \in {"enable", "disable"} => ram = "ready" /\ script \in Seq(BindSteps)
  /\ call = "destroy_pad" => script \in Seq(PadSteps(pads))
  /\ call = "destroy_gadget" => ram = "none" /\ script \in Seq(RemovalSteps)

Inv == TypeOK /\ TreeInv /\ PadInv /\ CallInv

-----------------------------------------------------------------------------
(* The scripts.                                                             *)

LEMMA RemovalIsRemoval == Removal \in Seq(RemovalSteps)
<1>1. \A id \in Ids : /\ Try("unlink", id) \in RemovalSteps
                      /\ Try("rmfunction", id) \in RemovalSteps
  BY DEF Try, RemovalSteps, Steps, FunctionSteps
<1>2. /\ Try("unbind", "gadget") \in RemovalSteps
      /\ \A d \in DirNames : Try("rmdir", d) \in RemovalSteps
  BY DEF Try, RemovalSteps, Steps, DirSteps, DirNames
<1>3. ForEachId("unlink") \in Seq(RemovalSteps) /\ ForEachId("rmfunction") \in Seq(RemovalSteps)
  BY <1>1, GadgetAssumption DEF ForEachId, Ids
<1>4. /\ <<Try("unbind", "gadget")>> \in Seq(RemovalSteps)
      /\ <<Try("rmdir", "config_strings"), Try("rmdir", "config")>> \in Seq(RemovalSteps)
      /\ <<Try("rmdir", "strings"), Try("rmdir", "gadget")>> \in Seq(RemovalSteps)
  BY <1>2 DEF DirNames
<1> DEFINE a == <<Try("unbind", "gadget")>>
           b == ForEachId("unlink")
           c == <<Try("rmdir", "config_strings"), Try("rmdir", "config")>>
           d == ForEachId("rmfunction")
           e == <<Try("rmdir", "strings"), Try("rmdir", "gadget")>>
<1>5. Removal = a \o b \o c \o d \o e
  BY DEF Removal
<1>6. /\ a \in Seq(RemovalSteps)
      /\ b \in Seq(RemovalSteps)
      /\ c \in Seq(RemovalSteps)
      /\ d \in Seq(RemovalSteps)
      /\ e \in Seq(RemovalSteps)
  BY <1>3, <1>4
<1> HIDE DEF a, b, c, d, e
<1>7. a \o b \in Seq(RemovalSteps)
  BY <1>6, ConcatProperties
<1>8. a \o b \o c \in Seq(RemovalSteps)
  BY <1>6, <1>7, ConcatProperties
<1>9. a \o b \o c \o d \in Seq(RemovalSteps)
  BY <1>6, <1>8, ConcatProperties
<1> QED
  BY <1>5, <1>6, <1>9, ConcatProperties

\* init ends with the mkdir of the gadget's directory, whatever it removes first.
LEMMA InitScriptMakesGadget ==
  ASSUME NEW cleanup
  PROVE  /\ InitScript(cleanup) \in Seq(InitSteps)
         /\ InitScript(cleanup) # <<>>
         /\ InitScript(cleanup)[Len(InitScript(cleanup))] = MakeGadget
<1> DEFINE r == IF cleanup /\ "gadget" \in dirs THEN Removal ELSE <<>>
           m == <<MakeGadget>>
<1>1. InitScript(cleanup) = r \o m
  BY DEF InitScript, MakeGadget
<1>2. r \in Seq(InitSteps)
  <2>1. Removal \in Seq(InitSteps)
    <3>1. RemovalSteps \subseteq InitSteps
      BY DEF InitSteps
    <3> QED
      BY <3>1, RemovalIsRemoval, SeqMonotonic
  <2>2. <<>> \in Seq(InitSteps)
    BY EmptySeq
  <2> QED
    BY <2>1, <2>2
<1>3. m \in Seq(InitSteps) /\ Len(m) = 1 /\ m[1] = MakeGadget
  BY DEF InitSteps
<1> HIDE DEF r, m
<1>4. Len(r) \in Nat
  BY <1>2, LenProperties
<1>5. /\ r \o m \in Seq(InitSteps)
      /\ Len(r \o m) = Len(r) + 1
      /\ (r \o m)[Len(r) + 1] = m[1]
  <2>1. /\ r \o m \in Seq(InitSteps)
        /\ Len(r \o m) = Len(r) + Len(m)
        /\ \A i \in 1..(Len(r) + Len(m)) : (r \o m)[i] = IF i <= Len(r) THEN r[i] ELSE m[i - Len(r)]
    BY <1>2, <1>3, ConcatProperties
  <2>2. Len(r) + 1 \in 1..(Len(r) + Len(m))
    BY <1>3, <1>4
  <2> QED
    BY <1>3, <1>4, <2>1, <2>2
<1>6. r \o m # <<>>
  BY <1>4, <1>5
<1> QED
  BY <1>1, <1>3, <1>5, <1>6

-----------------------------------------------------------------------------
(* The next step of the call in progress.                                   *)

\* A sequence loses its first element.
LEMMA TailIn ==
  ASSUME NEW S, NEW s \in Seq(S), s # <<>>
  PROVE  Head(s) \in S /\ Tail(s) \in Seq(S)
  BY HeadTailProperties

LEMMA HeadFacts ==
  ASSUME Inv, script # <<>>
  PROVE  /\ call # "none"
         /\ Head(script) \in Steps
         /\ Head(script).op = "mkfunction" =>
              call = "create" /\ next \in Ids /\ Head(script).arg = next
         /\ ram = "ready" /\ Head(script).op \in {"unlink", "rmfunction"} =>
              Head(script).arg \notin pads
         /\ call \in {"create", "undo_create"} =>
              Head(script).op \notin {"unlink", "unbind", "bind"}
<1>1. call # "none"
  BY DEF Inv, CallInv
<1>2. CASE call \in {"init", "init_cleanup"}
  <2>1. Head(script) \in InitSteps /\ ram = "created"
    BY <1>2, TailIn DEF Inv, CallInv, InitInv
  <2>2. MakeGadget \in Steps /\ MakeGadget.op = "mkdir"
    BY DEF MakeGadget, Must, Steps, DirSteps, DirNames
  <2>3. Head(script) \in Steps /\ Head(script).op # "mkfunction"
    BY <2>1, <2>2 DEF InitSteps, RemovalSteps
  <2> QED
    BY <1>1, <1>2, <2>1, <2>3
<1>3. CASE call = "configure"
  <2>1. Head(script) \in ConfigureSteps
    BY <1>3, TailIn DEF Inv, CallInv
  <2> QED
    BY <1>1, <1>3, <2>1 DEF ConfigureSteps, Steps
<1>4. CASE call = "create"
  <2>1. CreateInv
    BY <1>4 DEF Inv, CallInv
  <2>2. CASE next \in Ids /\ script = CreateScript(next)
    <3>1. Head(script) = Must("mkfunction", next)
      BY <2>2 DEF CreateScript
    <3>2. /\ Must("mkfunction", next) \in Steps
          /\ Must("mkfunction", next).op = "mkfunction"
          /\ Must("mkfunction", next).arg = next
      BY <2>2 DEF Must, Steps, FunctionSteps
    <3>3. /\ Head(script) \in Steps
          /\ Head(script).op = "mkfunction"
          /\ Head(script).arg = next
      BY <3>1, <3>2, Zenon
    <3> QED
      BY <1>1, <1>4, <2>2, <3>3
  <2>3. CASE next - 1 \in Ids /\ script = <<Must("write_function", next - 1), Must("link", next - 1)>>
    <3>1. Head(script) = Must("write_function", next - 1)
      BY <2>3
    <3>2. Must("write_function", next - 1) \in Steps /\ Must("write_function", next - 1).op = "write_function"
      BY <2>3 DEF Must, Steps, FunctionSteps
    <3>3. Head(script) \in Steps /\ Head(script).op = "write_function"
      BY <3>1, <3>2, Zenon
    <3> QED
      BY <1>1, <1>4, <3>3
  <2>4. CASE next - 1 \in Ids /\ script = <<Must("link", next - 1)>>
    <3>1. Head(script) = Must("link", next - 1)
      BY <2>4
    <3>2. Must("link", next - 1) \in Steps /\ Must("link", next - 1).op = "link"
      BY <2>4 DEF Must, Steps, FunctionSteps
    <3>3. Head(script) \in Steps /\ Head(script).op = "link"
      BY <3>1, <3>2, Zenon
    <3> QED
      BY <1>1, <1>4, <3>3
  <2> QED
    BY <2>1, <2>2, <2>3, <2>4 DEF CreateInv
<1>5. CASE call = "undo_create"
  <2>1. next - 1 \in Ids \ pads /\ script = <<Try("rmfunction", next - 1)>>
    BY <1>5 DEF Inv, CallInv, UndoInv, UndoCreateScript
  <2>2. Head(script) = Try("rmfunction", next - 1)
    BY <2>1
  <2>3. Try("rmfunction", next - 1) \in Steps
    BY <2>1 DEF Try, Steps, FunctionSteps
  <2> QED
    BY <1>1, <1>5, <2>1, <2>2, <2>3 DEF Try
<1>6. CASE call \in {"enable", "disable"}
  <2>1. Head(script) \in BindSteps
    BY <1>6, TailIn DEF Inv, CallInv
  <2> QED
    BY <1>1, <1>6, <2>1 DEF BindSteps, Steps
<1>7. CASE call = "destroy_pad"
  <2>1. Head(script) \in PadSteps(pads)
    BY <1>7, TailIn DEF Inv, CallInv
  <2> QED
    BY <1>1, <1>7, <2>1 DEF PadSteps, Steps
<1>8. CASE call = "destroy_gadget"
  <2>1. Head(script) \in RemovalSteps /\ ram = "none"
    BY <1>8, TailIn DEF Inv, CallInv
  <2> QED
    BY <1>1, <1>8, <2>1 DEF RemovalSteps
<1> QED
  BY <1>1, <1>2, <1>3, <1>4, <1>5, <1>6, <1>7, <1>8 DEF Inv, TypeOK, Calls

\* Whatever the kernel allows keeps its tree well formed.
LEMMA KernelKeepsTree ==
  ASSUME TypeOK, TreeInv, NEW s \in Steps,
         Allowed(s.op, s.arg), Effect(s.op, s.arg)
  PROVE  /\ TreeInv'
         /\ dirs' \subseteq DirNames
         /\ functions' \subseteq Ids
         /\ links' \subseteq Ids
         /\ bound' \in BOOLEAN
<1> DEFINE Goal == /\ TreeInv'
                   /\ dirs' \subseteq DirNames
                   /\ functions' \subseteq Ids
                   /\ links' \subseteq Ids
                   /\ bound' \in BOOLEAN
<1> USE DEF TypeOK, TreeInv, DirNames
<1>1. CASE s.op = "mkdir"
  <2>1. /\ dirs' = dirs \cup {s.arg}
        /\ functions' = functions /\ links' = links /\ bound' = bound
    BY <1>1 DEF Effect
  <2>2. s.arg \in DirNames
    BY <1>1 DEF Steps, DirSteps, FunctionSteps
  <2>3. Parent(s.arg) \in dirs \cup {"usb_gadget"}
    BY <1>1 DEF Allowed
  <2>4. s.arg = "gadget" \/ "gadget" \in dirs
    BY <2>2, <2>3 DEF Parent
  <2>5. s.arg = "config_strings" => "config" \in dirs
    BY <2>2, <2>3 DEF Parent
  <2> QED
    BY <2>1, <2>2, <2>4, <2>5
<1>2. CASE s.op = "rmdir"
  <2>1. /\ dirs' = dirs \ {s.arg}
        /\ functions' = functions /\ links' = links /\ bound' = bound
    BY <1>2 DEF Effect
  <2>2. s.arg \in dirs /\ IsEmpty(s.arg)
    BY <1>2 DEF Allowed
  <2>3. CASE s.arg = "gadget"
    <3>1. functions = {} /\ "strings" \notin dirs /\ "config" \notin dirs
      BY <2>2, <2>3 DEF IsEmpty, Parent
    <3> QED
      BY <2>1, <2>3, <3>1
  <2>4. CASE s.arg = "config"
    <3>1. links = {} /\ "config_strings" \notin dirs
      BY <2>2, <2>4 DEF IsEmpty, Parent
    <3> QED
      BY <2>1, <2>4, <3>1
  <2>5. CASE s.arg \in {"strings", "config_strings"}
    BY <2>1, <2>5
  <2> QED
    BY <2>2, <2>3, <2>4, <2>5
<1>3. CASE s.op \in {"write", "write_function"}
  BY <1>3 DEF Effect
<1>4. CASE s.op = "mkfunction"
  BY <1>4 DEF Effect, Allowed, Steps, DirSteps, FunctionSteps
<1>5. CASE s.op = "rmfunction"
  BY <1>5 DEF Effect, Allowed
<1>6. CASE s.op = "link"
  BY <1>6 DEF Effect, Allowed, Steps, DirSteps, FunctionSteps
<1>7. CASE s.op = "unlink"
  BY <1>7 DEF Effect, Allowed
<1>8. CASE s.op = "bind"
  BY <1>8 DEF Effect, Allowed
<1>9. CASE s.op = "unbind"
  BY <1>9 DEF Effect, Allowed
<1> QED
  BY <1>1, <1>2, <1>3, <1>4, <1>5, <1>6, <1>7, <1>8, <1>9
     DEF Steps, DirSteps, FunctionSteps

-----------------------------------------------------------------------------
(* One system call of a script.                                             *)

\* The last step of init stays the mkdir, and is what is left at the end.
LEMMA InitTail ==
  ASSUME NEW s \in Seq(InitSteps), s # <<>>, s[Len(s)] = MakeGadget
  PROVE  /\ Tail(s) \in Seq(InitSteps)
         /\ Tail(s) = <<>> => Head(s) = MakeGadget
         /\ Tail(s) # <<>> => Tail(s)[Len(Tail(s))] = MakeGadget
<1>1. /\ Tail(s) \in Seq(InitSteps)
      /\ Head(s) = s[1]
      /\ Len(Tail(s)) = Len(s) - 1
      /\ \A i \in 1..Len(Tail(s)) : Tail(s)[i] = s[i + 1]
  BY HeadTailProperties
<1>2. Len(s) \in Nat /\ Len(s) # 0
  BY EmptySeq, LenProperties
<1>3. CASE Len(s) = 1
  BY <1>1, <1>3, EmptySeq
<1>4. CASE Len(s) > 1
  <2>1. Len(Tail(s)) \in 1..Len(Tail(s))
    BY <1>1, <1>2, <1>4
  <2>2. Tail(s) # <<>>
    <3>1. Len(Tail(s)) # 0
      BY <1>1, <1>4
    <3>2. Len(<<>>) = 0
      OBVIOUS
    <3> QED
      BY <3>1, <3>2, Zenon
  <2>3. Tail(s)[Len(Tail(s))] = s[Len(Tail(s)) + 1]
    BY <1>1, <2>1
  <2>4. Len(Tail(s)) + 1 = Len(s)
    BY <1>1, <1>2
  <2> QED
    BY <1>1, <2>2, <2>3, <2>4
<1> QED
  BY <1>2, <1>3, <1>4

\* The calls whose scripts are known only by the kind of their steps.
LEMMA ScriptTails ==
  ASSUME Inv, script # <<>>, script' = Tail(script), UNCHANGED <<ram, pads, call>>
  PROVE  /\ (call = "none" => script = <<>>)'
         /\ (call = "configure" => ram = "ready" /\ script \in Seq(ConfigureSteps))'
         /\ (call \in {"enable", "disable"} => ram = "ready" /\ script \in Seq(BindSteps))'
         /\ (call = "destroy_pad" => script \in Seq(PadSteps(pads)))'
         /\ (call = "destroy_gadget" => ram = "none" /\ script \in Seq(RemovalSteps))'
<1>1. call # "none"
  BY DEF Inv, CallInv
<1>2. CASE call = "configure"
  BY <1>1, <1>2, TailIn DEF Inv, CallInv
<1>3. CASE call \in {"enable", "disable"}
  BY <1>1, <1>3, TailIn DEF Inv, CallInv
<1>4. CASE call = "destroy_pad"
  <2>1. Tail(script) \in Seq(PadSteps(pads))
    BY <1>4, TailIn DEF Inv, CallInv
  <2> QED
    BY <1>4, <2>1
<1>5. CASE call = "destroy_gadget"
  BY <1>1, <1>5, TailIn DEF Inv, CallInv
<1> QED
  BY <1>1, <1>2, <1>3, <1>4, <1>5

\* A mkdir of the gadget that succeeds finds nothing of an earlier gadget.
LEMMA MakeGadgetMakesFresh ==
  ASSUME TypeOK, TreeInv, Allowed("mkdir", "gadget"), Effect("mkdir", "gadget")
  PROVE  Fresh'
<1>1. "gadget" \notin dirs
  BY DEF Allowed
<1>2. dirs = {} /\ functions = {}
  BY <1>1 DEF TreeInv
<1>3. links = {} /\ ~bound
  BY <1>2 DEF TreeInv
<1>4. /\ dirs' = dirs \cup {"gadget"}
      /\ functions' = functions
      /\ links' = links
      /\ bound' = bound
  BY DEF Effect
<1> QED
  BY <1>2, <1>3, <1>4 DEF Fresh

LEMMA CreateAdvances ==
  ASSUME Inv, StepSucceeds, call = "create"
  PROVE  CreateInv'
<1>1. CreateInv
  BY DEF Inv, CallInv
<1>2. /\ ram = "ready" /\ ram' = ram /\ pads' = pads
      /\ script' = Tail(script)
  BY <1>1 DEF StepSucceeds, CreateInv
<1>3. next \in Nat \ {0} /\ MaxId \in Nat
  BY GadgetAssumption DEF Inv, TypeOK
<1>4. CASE next \in Ids /\ script = CreateScript(next)
  <2>1. /\ Head(script) = Must("mkfunction", next)
        /\ Tail(script) = <<Must("write_function", next), Must("link", next)>>
    BY <1>4 DEF CreateScript
  <2>2. Head(script).op = "mkfunction"
    BY <2>1 DEF Must
  <2>3. next' = next + 1
    BY <2>2 DEF StepSucceeds
  <2>4. next' - 1 = next
    BY <1>3, <2>3
  <2>5. next \notin pads
    BY <1>3 DEF Inv, PadInv
  <2>6. script' = <<Must("write_function", next' - 1), Must("link", next' - 1)>>
    BY <1>2, <2>1, <2>4
  <2> QED
    BY <1>2, <1>4, <2>4, <2>5, <2>6 DEF CreateInv
<1>5. CASE /\ next - 1 \in Ids \ pads
           /\ script = <<Must("write_function", next - 1), Must("link", next - 1)>>
  <2>1. /\ Head(script) = Must("write_function", next - 1)
        /\ Tail(script) = <<Must("link", next - 1)>>
    BY <1>5
  <2>2. Head(script).op = "write_function"
    BY <2>1 DEF Must
  <2>3. next' = next
    BY <2>2 DEF StepSucceeds
  <2> QED
    BY <1>2, <1>5, <2>1, <2>3 DEF CreateInv
<1>6. CASE next - 1 \in Ids \ pads /\ script = <<Must("link", next - 1)>>
  <2>1. Head(script) = Must("link", next - 1) /\ Tail(script) = <<>>
    BY <1>6
  <2>2. Head(script).op = "link" /\ Head(script).arg = next - 1
    BY <2>1 DEF Must
  <2>3. next' = next
    BY <2>2 DEF StepSucceeds
  <2>4. Allowed("link", next - 1) /\ Effect("link", next - 1)
    BY <2>2 DEF StepSucceeds, Allowed, Effect
  <2>5. next - 1 \in functions' \cap links'
    BY <2>4 DEF Allowed, Effect
  <2> QED
    BY <1>2, <1>6, <2>1, <2>3, <2>5 DEF CreateInv
<1> QED
  BY <1>1, <1>4, <1>5, <1>6 DEF CreateInv, StepSucceeds

LEMMA SuccessKeepsInv ==
  ASSUME Inv, StepSucceeds
  PROVE  Inv'
<1> DEFINE s == Head(script)
<1>1. /\ script # <<>> /\ script' = Tail(script)
      /\ UNCHANGED <<ram, pads, call, ret>>
      /\ Allowed(s.op, s.arg) /\ Effect(s.op, s.arg)
      /\ next' = IF s.op = "mkfunction" THEN next + 1 ELSE next
  BY DEF StepSucceeds
<1>2. /\ s \in Steps
      /\ s.op = "mkfunction" => next \in Ids
      /\ ram = "ready" /\ s.op \in {"unlink", "rmfunction"} => s.arg \notin pads
      /\ call \in {"create", "undo_create"} => s.op \notin {"unlink", "unbind", "bind"}
  BY <1>1, HeadFacts
<1>3. /\ TreeInv'
      /\ dirs' \subseteq DirNames /\ functions' \subseteq Ids
      /\ links' \subseteq Ids /\ bound' \in BOOLEAN
  BY <1>1, <1>2, KernelKeepsTree DEF Inv
<1>4. TypeOK'
  <2>1. next' \in 1..(MaxId + 1) 
    BY <1>1, <1>2, GadgetAssumption DEF Inv, TypeOK, Ids
  <2> QED
    BY <1>1, <1>3, <2>1 DEF Inv, TypeOK, DirNames
<1>5. PadInv'
  <2>1. \A id \in pads : id < next'
    BY <1>1, GadgetAssumption DEF Inv, PadInv, TypeOK, Ids
  <2>2. ram = "ready" => pads \subseteq functions' \cap links'
    BY <1>1, <1>2 DEF Inv, PadInv, PadsAreLinked, Effect
  <2> QED
    BY <1>1, <2>1, <2>2 DEF Inv, PadInv, PadsAreLinked
<1>6. (call \in {"init", "init_cleanup"} => InitInv)'
  <2> SUFFICES ASSUME call \in {"init", "init_cleanup"} PROVE InitInv'
    BY <1>1
  <2>1. InitInv
    BY DEF Inv, CallInv
  <2>2. /\ Tail(script) \in Seq(InitSteps)
        /\ Tail(script) = <<>> => s = MakeGadget
        /\ Tail(script) # <<>> => Tail(script)[Len(Tail(script))] = MakeGadget
    BY <1>1, <2>1, InitTail DEF InitInv
  <2>3. Tail(script) = <<>> => Fresh'
    <3> SUFFICES ASSUME Tail(script) = <<>> PROVE Fresh'
      OBVIOUS
    <3>1. s.op = "mkdir" /\ s.arg = "gadget"
      BY <2>2 DEF MakeGadget, Must
    <3>2. Allowed("mkdir", "gadget") /\ Effect("mkdir", "gadget")
      BY <1>1, <3>1 DEF Allowed, Effect
    <3> QED
      BY <3>2, MakeGadgetMakesFresh DEF Inv
  <2> QED
    BY <1>1, <2>1, <2>2, <2>3 DEF InitInv
<1>7. (call = "create" => CreateInv)'
  BY <1>1, CreateAdvances
<1>8. (call = "undo_create" => UndoInv)'
  <2> SUFFICES ASSUME call = "undo_create" PROVE UndoInv'
    BY <1>1
  <2>1. UndoInv /\ script = UndoCreateScript
    BY <1>1 DEF Inv, CallInv, UndoInv
  <2>2. s = Try("rmfunction", next - 1) /\ Tail(script) = <<>>
    BY <2>1 DEF UndoCreateScript
  <2>3. s.op = "rmfunction"
    BY <2>2 DEF Try
  <2> QED
    BY <1>1, <2>1, <2>2, <2>3 DEF UndoInv
<1>9. CallInv'
  BY <1>1, <1>6, <1>7, <1>8, ScriptTails DEF CallInv
<1> QED
  BY <1>3, <1>4, <1>5, <1>9 DEF Inv

LEMMA IgnoredKeepsInv ==
  ASSUME Inv, StepIgnored
  PROVE  Inv'
<1> DEFINE s == Head(script)
<1>1. /\ script # <<>> /\ script' = Tail(script) /\ ~s.must
      /\ UNCHANGED <<dirs, functions, links, bound, ram, next, pads, call, ret>>
  BY DEF StepIgnored, tree
<1>2. TypeOK' /\ TreeInv' /\ PadInv'
  BY <1>1 DEF Inv, TypeOK, TreeInv, PadInv, PadsAreLinked
<1>3. (call \in {"init", "init_cleanup"} => InitInv)'
  <2> SUFFICES ASSUME call \in {"init", "init_cleanup"} PROVE InitInv'
    BY <1>1
  <2>1. InitInv
    BY DEF Inv, CallInv
  <2>2. /\ Tail(script) \in Seq(InitSteps)
        /\ Tail(script) = <<>> => s = MakeGadget
        /\ Tail(script) # <<>> => Tail(script)[Len(Tail(script))] = MakeGadget
    BY <1>1, <2>1, InitTail DEF InitInv
  <2>3. s # MakeGadget
    BY <1>1 DEF MakeGadget, Must
  <2> QED
    BY <1>1, <2>1, <2>2, <2>3 DEF InitInv
<1>4. call # "create"
  <2> SUFFICES ASSUME call = "create" PROVE FALSE
    OBVIOUS
  <2>1. CreateInv
    BY DEF Inv, CallInv
  <2>2. \E op, arg : s = Must(op, arg)
    BY <1>1, <2>1 DEF CreateInv, CreateScript
  <2> QED
    BY <1>1, <2>2 DEF Must
<1>5. (call = "undo_create" => UndoInv)'
  <2> SUFFICES ASSUME call = "undo_create" PROVE UndoInv'
    BY <1>1
  <2>1. UndoInv /\ script = UndoCreateScript
    BY <1>1 DEF Inv, CallInv, UndoInv
  <2>2. Tail(script) = <<>>
    BY <2>1 DEF UndoCreateScript
  <2> QED
    BY <1>1, <2>1, <2>2 DEF UndoInv
<1>6. CallInv'
  BY <1>1, <1>3, <1>4, <1>5, ScriptTails DEF CallInv
<1> QED
  BY <1>2, <1>6 DEF Inv

LEMMA AbortKeepsInv ==
  ASSUME Inv, StepAborts
  PROVE  Inv'
<1>1. /\ script # <<>>
      /\ UNCHANGED <<dirs, functions, links, bound, ram, next, pads>>
  BY DEF StepAborts, tree
<1>2. TreeInv' /\ PadInv'
  BY <1>1 DEF Inv, TreeInv, PadInv, PadsAreLinked
<1>3. CASE call = "create" /\ Head(script).op # "mkfunction"
  <2>1. call' = "undo_create" /\ script' = UndoCreateScript /\ ret' = ret
    BY <1>3 DEF StepAborts
  <2>2. CreateInv
    BY <1>3 DEF Inv, CallInv
  <2>3. ~(next \in Ids /\ script = CreateScript(next))
    BY <1>3 DEF CreateScript, Must
  <2>4. ram = "ready" /\ next - 1 \in Ids \ pads
    BY <2>2, <2>3 DEF CreateInv
  <2>5. TypeOK'
    BY <1>1, <2>1 DEF Inv, TypeOK, Calls
  <2>6. UndoInv'
    BY <1>1, <2>1, <2>4 DEF UndoInv, UndoCreateScript
  <2> QED
    BY <1>2, <2>1, <2>5, <2>6 DEF Inv, CallInv
<1>4. CASE ~(call = "create" /\ Head(script).op # "mkfunction")
  <2>1. call' = "none" /\ script' = <<>> /\ ret' = "error"
    BY <1>4 DEF StepAborts
  <2>2. TypeOK'
    BY <1>1, <2>1 DEF Inv, TypeOK, Calls
  <2> QED
    BY <1>2, <2>1, <2>2 DEF Inv, CallInv
<1> QED
  BY <1>3, <1>4

LEMMA ReturnKeepsInv ==
  ASSUME Inv, Return
  PROVE  Inv'
<1>1. /\ call # "none" /\ script = <<>> /\ call' = "none" /\ script' = <<>>
      /\ UNCHANGED <<dirs, functions, links, bound, next>>
      /\ ret' \in {"ok", "error"}
  BY DEF Return, tree
<1>2. TreeInv' /\ CallInv'
  BY <1>1 DEF Inv, TreeInv, CallInv
<1>3. CASE call \in {"init", "init_cleanup"}
  <2>1. ram' = "ready" /\ pads' = pads
    BY <1>3 DEF Return
  <2>2. pads = {}
    BY <1>3 DEF Inv, CallInv, InitInv, PadInv
  <2>3. PadInv'
    BY <2>1, <2>2 DEF PadInv, PadsAreLinked
  <2>4. TypeOK'
    BY <1>1, <2>1 DEF Inv, TypeOK, Calls
  <2> QED
    BY <1>2, <2>3, <2>4 DEF Inv
<1>4. CASE call = "create"
  <2>1. ram' = ram /\ pads' = pads \cup {next - 1}
    BY <1>4 DEF Return
  <2>2. CreateInv
    BY <1>4 DEF Inv, CallInv
  <2>3. /\ ram = "ready"
        /\ next - 1 \in Ids
        /\ next - 1 \in functions \cap links
    BY <1>1, <2>2 DEF CreateInv, CreateScript
  <2>4. next - 1 < next /\ next \in Nat
    BY GadgetAssumption DEF Inv, TypeOK
  <2>5. PadInv'
    BY <1>1, <2>1, <2>3, <2>4 DEF Inv, PadInv, PadsAreLinked
  <2>6. TypeOK'
    BY <1>1, <2>1, <2>3 DEF Inv, TypeOK, Calls
  <2> QED
    BY <1>2, <2>5, <2>6 DEF Inv
<1>5. CASE call \notin {"init", "init_cleanup", "create"}
  <2>1. ram' = ram /\ pads' = pads
    BY <1>5 DEF Return
  <2>2. PadInv'
    BY <1>1, <2>1 DEF Inv, PadInv, PadsAreLinked
  <2>3. TypeOK'
    BY <1>1, <2>1 DEF Inv, TypeOK, Calls
  <2> QED
    BY <1>2, <2>2, <2>3 DEF Inv
<1> QED
  BY <1>3, <1>4, <1>5

-----------------------------------------------------------------------------
(* The invariant.                                                           *)

LEMMA InitHolds == Init => Inv
<1> SUFFICES ASSUME Init PROVE Inv
  OBVIOUS
<1>1. TypeOK
  <2>1. next \in 1..(MaxId + 1)
    BY GadgetAssumption DEF Init
  <2> QED
    BY <2>1 DEF Init, TypeOK, Calls
<1>2. TreeInv /\ PadInv /\ CallInv
  BY DEF Init, TreeInv, PadInv, PadsAreLinked, CallInv
<1> QED
  BY <1>1, <1>2 DEF Inv

\* A call begins: only its script is new.
LEMMA BeginKeepsInv ==
  ASSUME Inv, [Next]_vars, call = "none", call' # "none"
  PROVE  Inv'
<1>1. CASE \E cleanup \in BOOLEAN : GadgetInit(cleanup)
  <2> PICK cleanup \in BOOLEAN : GadgetInit(cleanup)
    BY <1>1
  <2>1. /\ ram = "created" /\ call' \in {"init", "init_cleanup"}
        /\ script' = InitScript(cleanup) /\ ret' = "none"
        /\ UNCHANGED <<dirs, functions, links, bound, ram, next, pads>>
    BY DEF GadgetInit, Begin, tree
  <2>2. InitInv'
    BY <2>1, InitScriptMakesGadget DEF InitInv
  <2> QED
    BY <2>1, <2>2 DEF Inv, TypeOK, TreeInv, PadInv, PadsAreLinked, CallInv, Calls
<1>2. CASE GadgetConfigure
  <2>1. /\ ram = "ready" /\ call' = "configure"
        /\ script' = ConfigureScript /\ ret' = "none"
        /\ UNCHANGED <<dirs, functions, links, bound, ram, next, pads>>
    BY <1>2 DEF GadgetConfigure, Begin, tree
  <2>2. \A op \in {"write", "mkdir"}, dir \in DirNames : Must(op, dir) \in ConfigureSteps
    BY DEF Must, ConfigureSteps, DirSteps
  <2>3. ConfigureScript \in Seq(ConfigureSteps)
    BY <2>2 DEF ConfigureScript, DirNames
  <2> QED
    BY <2>1, <2>3 DEF Inv, TypeOK, TreeInv, PadInv, PadsAreLinked, CallInv, Calls
<1>3. CASE GadgetEnable \/ GadgetDisable
  <2>1. /\ ram = "ready" /\ call' \in {"enable", "disable"} /\ ret' = "none"
        /\ script' = <<Must("bind", "gadget")>> \/ script' = <<Must("unbind", "gadget")>>
        /\ UNCHANGED <<dirs, functions, links, bound, ram, next, pads>>
    BY <1>3 DEF GadgetEnable, GadgetDisable, Begin, tree
  <2>2. Must("bind", "gadget") \in BindSteps /\ Must("unbind", "gadget") \in BindSteps
    BY DEF Must, BindSteps, DirSteps, DirNames
  <2>3. \A s \in BindSteps : <<s>> \in Seq(BindSteps)
    OBVIOUS
  <2>4. script' \in Seq(BindSteps)
    BY <2>1, <2>2, <2>3, Zenon
  <2> QED
    BY <2>1, <2>4 DEF Inv, TypeOK, TreeInv, PadInv, PadsAreLinked, CallInv, Calls
<1>4. CASE PadCreate
  <2>1. /\ ram = "ready" /\ next \in Ids /\ call' = "create" /\ ret' = "none"
        /\ script' = CreateScript(next)
        /\ UNCHANGED <<dirs, functions, links, bound, ram, next, pads>>
    BY <1>4 DEF PadCreate, Begin, tree
  <2>2. CreateInv'
    BY <2>1 DEF CreateInv, CreateScript
  <2> QED
    BY <2>1, <2>2 DEF Inv, TypeOK, TreeInv, PadInv, PadsAreLinked, CallInv, Calls
<1>5. CASE \E id \in Ids : PadDestroy(id)
  <2> PICK id \in Ids : PadDestroy(id)
    BY <1>5
  <2>1. /\ id \in pads /\ pads' = pads \ {id} /\ call' = "destroy_pad"
        /\ script' = DestroyScript(id) /\ ret' = "none"
        /\ UNCHANGED <<dirs, functions, links, bound, ram, next>>
    BY DEF PadDestroy, Begin, tree
  <2>2. \A op \in {"unlink", "rmfunction"} : Try(op, id) \in PadSteps(pads')
    BY <2>1 DEF Try, PadSteps, FunctionSteps
  <2>3. script' \in Seq(PadSteps(pads'))
    BY <2>1, <2>2 DEF DestroyScript
  <2> QED
    BY <2>1, <2>3 DEF Inv, TypeOK, TreeInv, PadInv, PadsAreLinked, CallInv, Calls
<1>6. CASE GadgetDestroy
  <2>1. /\ call' = "destroy_gadget" /\ ram' = "none"
        /\ script' = Removal /\ ret' = "none"
        /\ UNCHANGED <<dirs, functions, links, bound, next, pads>>
    BY <1>6 DEF GadgetDestroy, Begin, tree
  <2> QED
    BY <2>1, RemovalIsRemoval
       DEF Inv, TypeOK, TreeInv, PadInv, PadsAreLinked, CallInv, Calls
<1> QED
  BY <1>1, <1>2, <1>3, <1>4, <1>5, <1>6
     DEF Next, GadgetCreate, Refused, GadgetDestroyUninitialised, StepSucceeds,
         StepIgnored, StepAborts, Return, Crash, Inv, CallInv, vars

\* The calls that make no system call.
LEMMA IdleKeepsInv ==
  ASSUME Inv, GadgetCreate \/ Refused \/ GadgetDestroyUninitialised \/ Crash
  PROVE  Inv'
<1>1. CASE GadgetCreate
  BY <1>1, GadgetAssumption DEF GadgetCreate, tree, Inv, TypeOK, TreeInv, PadInv, PadsAreLinked, CallInv
<1>2. CASE Refused
  BY <1>2 DEF Refused, tree, Inv, TypeOK, TreeInv, PadInv, PadsAreLinked, CallInv
<1>3. CASE GadgetDestroyUninitialised
  BY <1>3 DEF GadgetDestroyUninitialised, tree, Inv, TypeOK, TreeInv, PadInv, PadsAreLinked, CallInv
<1>4. CASE Crash
  BY <1>4, GadgetAssumption DEF Crash, tree, Inv, TypeOK, TreeInv, PadInv, PadsAreLinked, CallInv, Calls
<1> QED
  BY <1>1, <1>2, <1>3, <1>4

LEMMA StepKeepsInv == Inv /\ [Next]_vars => Inv'
<1> SUFFICES ASSUME Inv, [Next]_vars PROVE Inv'
  OBVIOUS
<1>1. CASE call = "none" /\ call' # "none"
  BY <1>1, BeginKeepsInv
<1>2. CASE StepSucceeds \/ StepIgnored \/ StepAborts \/ Return
  BY <1>2, SuccessKeepsInv, IgnoredKeepsInv, AbortKeepsInv, ReturnKeepsInv
<1>3. CASE GadgetCreate \/ Refused \/ GadgetDestroyUninitialised \/ Crash
  BY <1>3, IdleKeepsInv
<1>4. CASE UNCHANGED vars
  BY <1>4 DEF vars, Inv, TypeOK, TreeInv, PadInv, PadsAreLinked, CallInv,
              InitInv, CreateInv, UndoInv, Fresh, CreateScript, UndoCreateScript
<1> QED
  BY <1>1, <1>2, <1>3, <1>4
     DEF Next, GadgetInit, GadgetConfigure, GadgetEnable, GadgetDisable, PadCreate,
         PadDestroy, GadgetDestroy, Begin

\* The invariant holds in every state: the tree stays well formed and the call
\* in progress knows what it has left to do.
THEOREM GadgetInvariant == Spec => []Inv
<1>1. Init => Inv
  BY InitHolds
<1>2. Inv /\ [Next]_vars => Inv'
  BY StepKeepsInv
<1> QED
  BY <1>1, <1>2, PTL DEF Spec

\* Every variable of Gadget has its type.
THEOREM GadgetTypeCorrect == Spec => []TypeOK
<1>1. Inv => TypeOK
  BY DEF Inv
<1> QED
  BY <1>1, GadgetInvariant, PTL

\* A gamepad that was created stays part of the configuration until it or its
\* gadget is destroyed, for any number of gamepads and any failing call.
THEOREM PadsStayLinked == Spec => []PadsAreLinked
<1>1. Inv => PadsAreLinked
  BY DEF Inv, PadInv
<1> QED
  BY <1>1, GadgetInvariant, PTL

\* udcinput_gadget_init succeeds only with a gadget that holds nothing of an
\* earlier process, whatever failed in the removal.
THEOREM GadgetsAreFresh == Spec => FreshAfterInit
<1>1. Inv /\ [Next]_vars =>
        [ram # "ready" /\ ram' = "ready" =>
           dirs' = {"gadget"} /\ functions' = {} /\ links' = {} /\ ~bound']_vars
  <2> SUFFICES ASSUME Inv, Next, ram # "ready", ram' = "ready"
               PROVE  dirs' = {"gadget"} /\ functions' = {} /\ links' = {} /\ ~bound'
    BY DEF vars
  <2>1. Return /\ call \in {"init", "init_cleanup"}
    BY DEF Next, GadgetCreate, GadgetInit, GadgetConfigure, GadgetEnable, GadgetDisable,
           PadCreate, Refused, PadDestroy, GadgetDestroy, GadgetDestroyUninitialised,
           StepSucceeds, StepIgnored, StepAborts, Return, Crash
  <2>2. Fresh
    BY <2>1 DEF Inv, CallInv, InitInv, Return
  <2> QED
    BY <2>1, <2>2 DEF Fresh, Return, tree
<1> QED
  BY <1>1, GadgetInvariant, PTL DEF Spec, FreshAfterInit

\* Creating a gamepad neither unbinds the gadget nor unlinks another function,
\* also when it fails.
THEOREM NobodyIsDisturbed == Spec => CreateDisturbsNobody
<1>1. Inv /\ [Next]_vars =>
        [call = "create" \/ call = "undo_create" =>
           bound' = bound /\ links \subseteq links']_vars
  <2> SUFFICES ASSUME Inv, Next, call = "create" \/ call = "undo_create"
               PROVE  bound' = bound /\ links \subseteq links'
    BY DEF vars
  <2>1. CASE StepSucceeds
    <3>1. Head(script).op \notin {"unlink", "unbind", "bind"}
      BY <2>1, HeadFacts DEF StepSucceeds
    <3>2. Effect(Head(script).op, Head(script).arg)
      BY <2>1 DEF StepSucceeds
    <3> QED
      BY <3>1, <3>2 DEF Effect
  <2>2. CASE StepIgnored \/ StepAborts \/ Return \/ Crash
    BY <2>2 DEF StepIgnored, StepAborts, Return, Crash, tree
  <2> QED
    BY <2>1, <2>2
       DEF Next, GadgetCreate, GadgetInit, GadgetConfigure, GadgetEnable, GadgetDisable,
           PadCreate, Refused, PadDestroy, GadgetDestroy, GadgetDestroyUninitialised
<1> QED
  BY <1>1, GadgetInvariant, PTL DEF Spec, CreateDisturbsNobody

-----------------------------------------------------------------------------
(* The removal of a gadget.  Its system calls are ordered so that what a      *)
(* call needs gone is gone before it: each kind has a rank.                  *)

DirRank(dir) ==
  CASE dir = "config_strings" -> 2
    [] dir = "config" -> 3
    [] dir = "strings" -> 5
    [] dir = "gadget" -> 6

Rank(step) ==
  CASE step.op = "unbind" -> 0
    [] step.op = "unlink" -> 1
    [] step.op = "rmdir" -> DirRank(step.arg)
    [] step.op = "rmfunction" -> 4
    [] step.op = "mkdir" -> 7

Between(s, low, high) == \A i \in 1..Len(s) : low <= Rank(s[i]) /\ Rank(s[i]) <= high

Ascending(s) ==
  \A i, j \in 1..Len(s) : i < j => Rank(s[i]) <= Rank(s[j]) /\ Rank(s[i]) < 7

Has(s, step) == \E i \in 1..Len(s) : s[i] = step

\* Whatever is in the tree, the script still tries to remove.
Covers(s) ==
  /\ \A id \in links : Has(s, Try("unlink", id))
  /\ \A id \in functions : Has(s, Try("rmfunction", id))
  /\ \A dir \in dirs : Has(s, Try("rmdir", dir))

RemovalInv ==
  /\ call = "init_cleanup" /\ script # <<>> => Ascending(script) /\ Covers(script)
  /\ call = "destroy_gadget" => Ascending(script) /\ Covers(script)

\* The system calls of a removal fail only where the kernel refuses them.
RemovalIsReliable == Faults \cap {"mkdir", "rmdir", "rmfunction", "unlink"} = {}

LEMMA TryFacts ==
  \A op, arg : Try(op, arg).op = op /\ Try(op, arg).arg = arg /\ ~Try(op, arg).must
  BY DEF Try

LEMMA RankOfTry ==
  /\ Rank(Try("unbind", "gadget")) = 0
  /\ \A id : Rank(Try("unlink", id)) = 1
  /\ Rank(Try("rmdir", "config_strings")) = 2
  /\ Rank(Try("rmdir", "config")) = 3
  /\ \A id : Rank(Try("rmfunction", id)) = 4
  /\ Rank(Try("rmdir", "strings")) = 5
  /\ Rank(Try("rmdir", "gadget")) = 6
  /\ Rank(MakeGadget) = 7
  BY DEF Rank, DirRank, Try, MakeGadget, Must

\* The steps of init and of a removal, one kind at a time.
LEMMA InitStepKinds ==
  ASSUME NEW s \in InitSteps
  PROVE  \/ s.op = "unbind" /\ ~s.must /\ Rank(s) = 0
         \/ s.op = "unlink" /\ ~s.must /\ Rank(s) = 1
         \/ s.op = "rmdir" /\ ~s.must /\ s.arg = "config_strings" /\ Rank(s) = 2
         \/ s.op = "rmdir" /\ ~s.must /\ s.arg = "config" /\ Rank(s) = 3
         \/ s.op = "rmfunction" /\ ~s.must /\ Rank(s) = 4
         \/ s.op = "rmdir" /\ ~s.must /\ s.arg = "strings" /\ Rank(s) = 5
         \/ s.op = "rmdir" /\ ~s.must /\ s.arg = "gadget" /\ Rank(s) = 6
         \/ s = MakeGadget /\ Rank(s) = 7
<1>1. CASE s = MakeGadget
  BY <1>1, RankOfTry
<1>2. CASE s \in RemovalSteps
  <2>1. /\ ~s.must
        /\ \/ s.op \in {"unbind", "unlink", "rmfunction"}
           \/ s.op = "rmdir" /\ s.arg \in DirNames
    BY <1>2 DEF RemovalSteps, Steps, DirSteps, FunctionSteps
  <2>2. QED
    BY <2>1 DEF Rank, DirRank, DirNames
<1>3. QED
  BY <1>1, <1>2 DEF InitSteps

LEMMA RankIsNat ==
  ASSUME NEW s \in InitSteps PROVE Rank(s) \in 0..7
  BY InitStepKinds

\* What comes next is of the least rank, and mkdir comes last.
LEMMA HeadIsLeast ==
  ASSUME NEW s \in Seq(InitSteps), s # <<>>, Ascending(s)
  PROVE  /\ Ascending(Tail(s))
         /\ \A x : Has(s, x) => x = Head(s) \/ Has(Tail(s), x)
         /\ \A x : Has(s, x) => Rank(Head(s)) <= Rank(x)
         /\ Rank(Head(s)) = 7 => Tail(s) = <<>>
<1>1. /\ Tail(s) \in Seq(InitSteps)
      /\ Head(s) = s[1]
      /\ Len(Tail(s)) = Len(s) - 1
      /\ \A i \in 1..Len(Tail(s)) : Tail(s)[i] = s[i + 1]
  BY HeadTailProperties
<1>2. Len(s) \in Nat /\ Len(s) # 0
  BY EmptySeq, LenProperties
<1>3. Ascending(Tail(s))
  <2> SUFFICES ASSUME NEW i \in 1..Len(Tail(s)), NEW j \in 1..Len(Tail(s)), i < j
               PROVE  Rank(Tail(s)[i]) <= Rank(Tail(s)[j]) /\ Rank(Tail(s)[i]) < 7
    BY DEF Ascending
  <2>1. i + 1 \in 1..Len(s) /\ j + 1 \in 1..Len(s) /\ i + 1 < j + 1
    BY <1>1, <1>2
  <2>2. Rank(s[i + 1]) <= Rank(s[j + 1]) /\ Rank(s[i + 1]) < 7
    BY <2>1 DEF Ascending
  <2>3. QED
    BY <1>1, <2>2
<1>4. ASSUME NEW x, Has(s, x) PROVE x = Head(s) \/ Has(Tail(s), x)
  <2>1. PICK i \in 1..Len(s) : s[i] = x
    BY <1>4 DEF Has
  <2>2. CASE i = 1
    BY <1>1, <2>1, <2>2
  <2>3. CASE i # 1
    <3>1. i - 1 \in 1..Len(Tail(s)) /\ (i - 1) + 1 = i
      BY <1>1, <1>2, <2>3
    <3>2. Tail(s)[i - 1] = x
      BY <1>1, <2>1, <3>1
    <3>3. QED
      BY <3>1, <3>2 DEF Has
  <2>4. QED
    BY <2>2, <2>3
<1>5. ASSUME NEW x, Has(s, x) PROVE Rank(Head(s)) <= Rank(x)
  <2>1. PICK i \in 1..Len(s) : s[i] = x
    BY <1>5 DEF Has
  <2>2. CASE i = 1
    <3>1. x = Head(s) /\ x \in InitSteps
      BY <1>1, <2>1, <2>2
    <3>2. Rank(x) \in 0..7
      BY <3>1, RankIsNat
    <3>3. QED
      BY <3>1, <3>2
  <2>3. CASE i # 1
    <3>1. 1 \in 1..Len(s) /\ 1 < i
      BY <1>2, <2>3
    <3>2. QED
      BY <1>1, <2>1, <3>1 DEF Ascending
  <2>4. QED
    BY <2>2, <2>3
<1>6. ASSUME Rank(Head(s)) = 7 PROVE Tail(s) = <<>>
  <2>1. CASE Len(s) = 1
    <3>1. Len(Tail(s)) = 0
      BY <1>1, <2>1
    <3>2. QED
      BY <1>1, <3>1, EmptySeq
  <2>2. CASE Len(s) # 1
    <3>1. 1 \in 1..Len(s) /\ 2 \in 1..Len(s) /\ 1 < 2
      <4>1. \A n \in Nat : n # 0 /\ n # 1 => 1 \in 1..n /\ 2 \in 1..n /\ 1 < 2
        OBVIOUS
      <4>2. QED
        BY <1>2, <2>2, <4>1, Zenon
    <3>2. Rank(s[1]) < 7
      BY <3>1 DEF Ascending
    <3>3. QED
      BY <1>1, <1>6, <3>2
  <2>3. QED
    BY <2>1, <2>2
<1>7. QED
  BY <1>3, <1>4, <1>5, <1>6

\* Two parts of a script, the second from where the first ends.
LEMMA AscendingConcat ==
  ASSUME NEW s \in Seq(InitSteps), NEW t \in Seq(InitSteps),
         NEW low \in 0..7, NEW middle \in 0..6, NEW high \in 0..7,
         low <= middle, middle <= high,
         Ascending(s), Ascending(t), Between(s, low, middle), Between(t, middle, high)
  PROVE  /\ s \o t \in Seq(InitSteps)
         /\ Ascending(s \o t)
         /\ Between(s \o t, low, high)
         /\ \A x : Has(s, x) \/ Has(t, x) => Has(s \o t, x)
<1> DEFINE u == s \o t
<1>1. /\ u \in Seq(InitSteps)
      /\ Len(u) = Len(s) + Len(t)
      /\ \A i \in 1..(Len(s) + Len(t)) : u[i] = IF i <= Len(s) THEN s[i] ELSE t[i - Len(s)]
  BY ConcatProperties
<1>2. Len(s) \in Nat /\ Len(t) \in Nat
  BY LenProperties
<1> HIDE DEF u
<1>3. ASSUME NEW i \in 1..Len(u), i <= Len(s)
      PROVE  i \in 1..Len(s) /\ u[i] = s[i]
  BY <1>1, <1>2, <1>3
<1>4. ASSUME NEW i \in 1..Len(u), ~(i <= Len(s))
      PROVE  i - Len(s) \in 1..Len(t) /\ u[i] = t[i - Len(s)]
  BY <1>1, <1>2, <1>4
<1>5. \A i \in 1..Len(u) : Rank(u[i]) \in 0..7
  BY <1>1, RankIsNat, ElementOfSeq
<1>6. \A i \in 1..Len(u) : i <= Len(s) => low <= Rank(u[i]) /\ Rank(u[i]) <= middle
  BY <1>3 DEF Between
<1>7. \A i \in 1..Len(u) : ~(i <= Len(s)) => middle <= Rank(u[i]) /\ Rank(u[i]) <= high
  BY <1>4 DEF Between
<1>8. Between(u, low, high)
  <2> SUFFICES ASSUME NEW i \in 1..Len(u) PROVE low <= Rank(u[i]) /\ Rank(u[i]) <= high
    BY DEF Between
  <2>1. \A a \in 0..7 : /\ low <= a /\ a <= middle => low <= a /\ a <= high
                       /\ middle <= a /\ a <= high => low <= a /\ a <= high
    OBVIOUS
  <2>2. QED
    BY <1>5, <1>6, <1>7, <2>1
<1>9. Ascending(u)
  <2> SUFFICES ASSUME NEW i \in 1..Len(u), NEW j \in 1..Len(u), i < j
               PROVE  Rank(u[i]) <= Rank(u[j]) /\ Rank(u[i]) < 7
    BY DEF Ascending
  <2>1. CASE j <= Len(s)
    <3>1. i <= Len(s)
      BY <1>1, <1>2, <2>1
    <3>2. /\ i \in 1..Len(s) /\ j \in 1..Len(s)
          /\ u[i] = s[i] /\ u[j] = s[j]
      BY <1>3, <2>1, <3>1
    <3>3. QED
      BY <3>2 DEF Ascending
  <2>2. CASE i <= Len(s) /\ ~(j <= Len(s))
    <3>1. Rank(u[i]) <= middle /\ middle <= Rank(u[j])
      BY <1>6, <1>7, <2>2
    <3>2. Rank(u[i]) \in 0..7 /\ Rank(u[j]) \in 0..7
      BY <1>5
    <3>3. \A a, b \in 0..7 : a <= middle /\ middle <= b => a <= b /\ a < 7
      OBVIOUS
    <3>4. QED
      BY <3>1, <3>2, <3>3
  <2>3. CASE ~(i <= Len(s))
    <3>1. ~(j <= Len(s))
      BY <1>1, <1>2, <2>3
    <3>2. /\ i - Len(s) \in 1..Len(t) /\ u[i] = t[i - Len(s)]
          /\ j - Len(s) \in 1..Len(t) /\ u[j] = t[j - Len(s)]
      BY <1>4, <2>3, <3>1
    <3>3. i - Len(s) < j - Len(s)
      BY <1>1, <1>2
    <3>4. QED
      BY <3>2, <3>3 DEF Ascending
  <2>4. QED
    BY <2>1, <2>2, <2>3
<1>10. ASSUME NEW x, Has(s, x) PROVE Has(u, x)
  <2>1. PICK i \in 1..Len(s) : s[i] = x
    BY <1>10 DEF Has
  <2>2. i \in 1..Len(u) /\ i <= Len(s)
    BY <1>1, <1>2
  <2>3. QED
    BY <1>3, <2>1, <2>2 DEF Has
<1>11. ASSUME NEW x, Has(t, x) PROVE Has(u, x)
  <2>1. PICK i \in 1..Len(t) : t[i] = x
    BY <1>11 DEF Has
  <2>2. i + Len(s) \in 1..Len(u) /\ ~(i + Len(s) <= Len(s)) /\ i + Len(s) - Len(s) = i
    BY <1>1, <1>2
  <2>3. u[i + Len(s)] = x
    BY <1>4, <2>1, <2>2
  <2>4. QED
    BY <2>2, <2>3 DEF Has
<1>12. QED
  BY <1>1, <1>8, <1>9, <1>10, <1>11 DEF u

\* The removal tries everything, in ascending order.
LEMMA RemovalCovers ==
  ASSUME Inv
  PROVE  /\ Removal \in Seq(InitSteps)
         /\ Ascending(Removal) /\ Between(Removal, 0, 6) /\ Covers(Removal)
<1> DEFINE a == <<Try("unbind", "gadget")>>
           b == ForEachId("unlink")
           c == <<Try("rmdir", "config_strings"), Try("rmdir", "config")>>
           d == ForEachId("rmfunction")
           e == <<Try("rmdir", "strings"), Try("rmdir", "gadget")>>
<1>1. Removal = a \o b \o c \o d \o e
  BY DEF Removal
<1>2. /\ \A id \in Ids : Try("unlink", id) \in InitSteps /\ Try("rmfunction", id) \in InitSteps
      /\ \A dir \in DirNames : Try("rmdir", dir) \in InitSteps
      /\ Try("unbind", "gadget") \in InitSteps
  BY DEF Try, InitSteps, RemovalSteps, Steps, FunctionSteps, DirSteps, DirNames
<1>3. a \in Seq(InitSteps) /\ Len(a) = 1 /\ a[1] = Try("unbind", "gadget")
  BY <1>2
<1>4. /\ b \in Seq(InitSteps) /\ Len(b) = MaxId
      /\ \A i \in 1..MaxId : b[i] = Try("unlink", i)
  BY <1>2, GadgetAssumption DEF ForEachId, Ids
<1>5. /\ c \in Seq(InitSteps) /\ Len(c) = 2
      /\ c[1] = Try("rmdir", "config_strings") /\ c[2] = Try("rmdir", "config")
  BY <1>2 DEF DirNames
<1>6. /\ d \in Seq(InitSteps) /\ Len(d) = MaxId
      /\ \A i \in 1..MaxId : d[i] = Try("rmfunction", i)
  BY <1>2, GadgetAssumption DEF ForEachId, Ids
<1>7. /\ e \in Seq(InitSteps) /\ Len(e) = 2
      /\ e[1] = Try("rmdir", "strings") /\ e[2] = Try("rmdir", "gadget")
  BY <1>2 DEF DirNames
<1> HIDE DEF a, b, c, d, e
<1>8. Ascending(a) /\ Between(a, 0, 1)
  BY <1>3, RankOfTry DEF Ascending, Between
<1>9. Ascending(b) /\ Between(b, 1, 2) /\ \A id \in Ids : Has(b, Try("unlink", id))
  BY <1>4, RankOfTry DEF Ascending, Between, Has, Ids
<1>10. /\ Ascending(c) /\ Between(c, 2, 4)
       /\ Has(c, Try("rmdir", "config_strings")) /\ Has(c, Try("rmdir", "config"))
  <2>1. \A i \in 1..2 : i = 1 \/ i = 2
    OBVIOUS
  <2>2. Rank(c[1]) = 2 /\ Rank(c[2]) = 3
    BY <1>5, RankOfTry
  <2>3. Has(c, c[1]) /\ Has(c, c[2])
    BY <1>5 DEF Has
  <2>4. QED
    BY <1>5, <2>1, <2>2, <2>3 DEF Ascending, Between
<1>11. Ascending(d) /\ Between(d, 4, 5) /\ \A id \in Ids : Has(d, Try("rmfunction", id))
  BY <1>6, RankOfTry DEF Ascending, Between, Has, Ids
<1>12. /\ Ascending(e) /\ Between(e, 5, 6)
       /\ Has(e, Try("rmdir", "strings")) /\ Has(e, Try("rmdir", "gadget"))
  <2>1. \A i \in 1..2 : i = 1 \/ i = 2
    OBVIOUS
  <2>2. Rank(e[1]) = 5 /\ Rank(e[2]) = 6
    BY <1>7, RankOfTry
  <2>3. Has(e, e[1]) /\ Has(e, e[2])
    BY <1>7 DEF Has
  <2>4. QED
    BY <1>7, <2>1, <2>2, <2>3 DEF Ascending, Between
<1> DEFINE ab == a \o b
           abc == ab \o c
           abcd == abc \o d
           abcde == abcd \o e
<1>13. /\ ab \in Seq(InitSteps) /\ Ascending(ab) /\ Between(ab, 0, 2)
       /\ \A x : Has(a, x) \/ Has(b, x) => Has(ab, x)
  BY <1>3, <1>4, <1>8, <1>9, AscendingConcat
<1> HIDE DEF ab
<1>14. /\ abc \in Seq(InitSteps) /\ Ascending(abc) /\ Between(abc, 0, 4)
       /\ \A x : Has(ab, x) \/ Has(c, x) => Has(abc, x)
  BY <1>5, <1>10, <1>13, AscendingConcat
<1> HIDE DEF abc
<1>15. /\ abcd \in Seq(InitSteps) /\ Ascending(abcd) /\ Between(abcd, 0, 5)
       /\ \A x : Has(abc, x) \/ Has(d, x) => Has(abcd, x)
  BY <1>6, <1>11, <1>14, AscendingConcat
<1> HIDE DEF abcd
<1>16. /\ abcde \in Seq(InitSteps) /\ Ascending(abcde) /\ Between(abcde, 0, 6)
       /\ \A x : Has(abcd, x) \/ Has(e, x) => Has(abcde, x)
  BY <1>7, <1>12, <1>15, AscendingConcat
<1> HIDE DEF abcde
<1>17. Removal = abcde
  BY <1>1 DEF ab, abc, abcd, abcde
<1>18. Covers(abcde)
  <2>1. /\ \A id \in Ids : Has(abcde, Try("unlink", id)) /\ Has(abcde, Try("rmfunction", id))
        /\ Has(abcde, Try("rmdir", "config_strings")) /\ Has(abcde, Try("rmdir", "config"))
        /\ Has(abcde, Try("rmdir", "strings")) /\ Has(abcde, Try("rmdir", "gadget"))
    BY <1>9, <1>10, <1>11, <1>12, <1>13, <1>14, <1>15, <1>16
  <2>2. QED
    BY <2>1 DEF Inv, TypeOK, Covers
<1>19. QED
  BY <1>16, <1>17, <1>18

\* The script of init with cleanup tries everything before it makes the gadget.
LEMMA InitScriptCovers ==
  ASSUME Inv PROVE Ascending(InitScript(TRUE)) /\ Covers(InitScript(TRUE))
<1> DEFINE m == <<MakeGadget>>
<1>1. m \in Seq(InitSteps) /\ Len(m) = 1 /\ m[1] = MakeGadget
  BY DEF InitSteps
<1> HIDE DEF m
<1>2. Ascending(m) /\ Between(m, 6, 7)
  BY <1>1, RankOfTry DEF Ascending, Between
<1>3. CASE "gadget" \in dirs
  <2>1. InitScript(TRUE) = Removal \o m
    BY <1>3 DEF InitScript, MakeGadget, m
  <2>2. /\ Ascending(Removal \o m)
        /\ \A x : Has(Removal, x) \/ Has(m, x) => Has(Removal \o m, x)
    BY <1>1, <1>2, RemovalCovers, AscendingConcat
  <2>3. Covers(Removal)
    BY RemovalCovers
  <2>4. QED
    BY <2>1, <2>2, <2>3 DEF Covers
<1>4. CASE "gadget" \notin dirs
  <2>1. InitScript(TRUE) = m
    BY <1>1, <1>4 DEF InitScript, MakeGadget, m
  <2>2. dirs = {} /\ functions = {} /\ links = {}
    BY <1>4 DEF Inv, TreeInv
  <2>3. QED
    BY <1>2, <2>1, <2>2 DEF Covers
<1>5. QED
  BY <1>3, <1>4
\* When a step's turn comes, everything that would make the kernel refuse it is
\* gone: it is refused only where there is nothing left to remove.
LEMMA RemovalGoesOn ==
  ASSUME Inv, script \in Seq(InitSteps), script # <<>>, Ascending(script), Covers(script),
         script' = Tail(script), Head(script).op # "mkdir",
         \/ /\ Allowed(Head(script).op, Head(script).arg)
            /\ Effect(Head(script).op, Head(script).arg)
         \/ /\ Head(script).op # "unbind" => ~Allowed(Head(script).op, Head(script).arg)
            /\ UNCHANGED tree
  PROVE  (Ascending(script) /\ Covers(script))'
<1> DEFINE h == Head(script)
<1>1. /\ Ascending(Tail(script))
      /\ \A x : Has(script, x) => x = h \/ Has(Tail(script), x)
      /\ \A x : Has(script, x) => Rank(h) <= Rank(x)
  BY HeadIsLeast
<1>2. h \in InitSteps
  BY TailIn
<1>3. /\ \A id \in links : Rank(h) <= 1
      /\ \A id \in functions : Rank(h) <= 4
      /\ "config_strings" \in dirs => Rank(h) <= 2
      /\ "config" \in dirs => Rank(h) <= 3
      /\ "strings" \in dirs => Rank(h) <= 5
  BY <1>1, RankOfTry DEF Covers
<1>4. /\ \A id \in links' : id \in links /\ (h.op = "unlink" => id # h.arg)
      /\ \A id \in functions' : id \in functions /\ (h.op = "rmfunction" => id # h.arg)
      /\ \A dir \in dirs' : dir \in dirs /\ (h.op = "rmdir" => dir # h.arg)
  <2>1. CASE h.op = "unbind"
    <3>1. links' = links /\ functions' = functions /\ dirs' = dirs
      BY <2>1 DEF Effect, tree
    <3>2. QED
      BY <2>1, <3>1
  <2>2. CASE h.op = "unlink"
    <3>1. h.arg \notin links' /\ links' \subseteq links /\ functions' = functions /\ dirs' = dirs
      BY <2>2 DEF Effect, Allowed, tree
    <3>2. QED
      BY <2>2, <3>1
  <2>3. CASE h.op = "rmfunction"
    <3>1. Rank(h) = 4
      BY <1>2, <2>3, InitStepKinds DEF MakeGadget, Must
    <3>2. links = {}
      BY <1>3, <3>1
    <3>3. h.arg \notin functions' /\ functions' \subseteq functions /\ links' = links /\ dirs' = dirs
      BY <2>3, <3>2 DEF Effect, Allowed, tree
    <3>4. QED
      BY <2>3, <3>3
  <2>4. CASE h.op = "rmdir"
    <3>1. h.arg \in dirs => IsEmpty(h.arg)
      <4>1. CASE h.arg = "config_strings" \/ h.arg = "strings"
        <5>1. \A d \in DirNames : Parent(d) # h.arg
          BY <4>1 DEF Parent, DirNames
        <5>2. QED
          BY <4>1, <5>1 DEF IsEmpty, Inv, TypeOK, DirNames
      <4>2. CASE h.arg = "config"
        <5>1. Rank(h) = 3
          BY <1>2, <2>4, <4>2, InitStepKinds DEF MakeGadget, Must
        <5>2. links = {} /\ "config_strings" \notin dirs
          BY <1>3, <5>1
        <5>3. \A d \in DirNames : Parent(d) = "config" => d = "config_strings"
          BY DEF Parent, DirNames
        <5>4. QED
          BY <4>2, <5>2, <5>3 DEF IsEmpty, Inv, TypeOK, DirNames
      <4>3. CASE h.arg = "gadget"
        <5>1. Rank(h) = 6
          BY <1>2, <2>4, <4>3, InitStepKinds DEF MakeGadget, Must
        <5>2. functions = {} /\ "config" \notin dirs /\ "strings" \notin dirs
          BY <1>3, <5>1
        <5>3. \A d \in DirNames : Parent(d) = "gadget" => d = "config" \/ d = "strings"
          BY DEF Parent, DirNames
        <5>4. QED
          BY <4>3, <5>2, <5>3 DEF IsEmpty, Inv, TypeOK, DirNames
      <4>4. QED
        BY <1>2, <2>4, <4>1, <4>2, <4>3, InitStepKinds DEF MakeGadget, Must
    <3>2. h.arg \notin dirs' /\ dirs' \subseteq dirs /\ links' = links /\ functions' = functions
      BY <2>4, <3>1 DEF Effect, Allowed, tree
    <3>3. QED
      BY <2>4, <3>2
  <2>5. QED
    BY <1>2, <2>1, <2>2, <2>3, <2>4, InitStepKinds DEF MakeGadget, Must
<1>5. Covers(script)'
  <2>1. ASSUME NEW id \in links' PROVE Has(Tail(script), Try("unlink", id))
    <3>1. Try("unlink", id) # h
      BY <1>4, <2>1, TryFacts
    <3>2. QED
      BY <1>1, <1>4, <2>1, <3>1 DEF Covers
  <2>2. ASSUME NEW id \in functions' PROVE Has(Tail(script), Try("rmfunction", id))
    <3>1. Try("rmfunction", id) # h
      BY <1>4, <2>2, TryFacts
    <3>2. QED
      BY <1>1, <1>4, <2>2, <3>1 DEF Covers
  <2>3. ASSUME NEW dir \in dirs' PROVE Has(Tail(script), Try("rmdir", dir))
    <3>1. Try("rmdir", dir) # h
      BY <1>4, <2>3, TryFacts
    <3>2. QED
      BY <1>1, <1>4, <2>3, <3>1 DEF Covers
  <2>4. QED
    BY <2>1, <2>2, <2>3 DEF Covers
<1>6. QED
  BY <1>1, <1>5

\* When the gadget's directory is to be made, nothing is left.
LEMMA MakeGadgetFindsNothing ==
  ASSUME Inv, script \in Seq(InitSteps), script # <<>>, Ascending(script), Covers(script),
         Head(script).op = "mkdir"
  PROVE  /\ Head(script) = MakeGadget
         /\ Tail(script) = <<>>
         /\ Allowed(Head(script).op, Head(script).arg)
<1>1. Head(script) \in InitSteps
  BY TailIn
<1>2. Head(script) = MakeGadget /\ Rank(Head(script)) = 7
  BY <1>1, InitStepKinds
<1>3. /\ \A x : Has(script, x) => 7 <= Rank(x)
      /\ Tail(script) = <<>>
  BY <1>2, HeadIsLeast
<1>4. dirs = {}
  <2> SUFFICES ASSUME NEW dir \in dirs PROVE FALSE
    OBVIOUS
  <2>1. 7 <= Rank(Try("rmdir", dir))
    BY <1>3 DEF Covers
  <2>2. dir \in DirNames
    BY DEF Inv, TypeOK, DirNames
  <2>3. QED
    BY <2>1, <2>2, RankOfTry DEF DirNames
<1>5. Allowed("mkdir", "gadget")
  BY <1>4 DEF Allowed, Parent
<1>6. QED
  BY <1>2, <1>3, <1>5 DEF MakeGadget, Must

\* The calls that remove a gadget, one system call at a time.
LEMMA RemovalStepKeepsRemoval ==
  ASSUME Inv, RemovalInv, RemovalIsReliable, StepSucceeds \/ StepIgnored,
         call = "destroy_gadget" \/ (call = "init_cleanup" /\ Tail(script) # <<>>)
  PROVE  (Ascending(script) /\ Covers(script))'
<1> DEFINE h == Head(script)
<1>1. script # <<>> /\ script' = Tail(script)
  BY DEF StepSucceeds, StepIgnored
<1>2. script \in Seq(InitSteps) /\ Ascending(script) /\ Covers(script)
  <2>1. CASE call = "destroy_gadget"
    <3>1. script \in Seq(RemovalSteps)
      BY <2>1 DEF Inv, CallInv
    <3>2. RemovalSteps \subseteq InitSteps
      BY DEF InitSteps
    <3>3. script \in Seq(InitSteps)
      BY <3>1, <3>2, SeqMonotonic
    <3>4. QED
      BY <2>1, <3>3 DEF RemovalInv
  <2>2. CASE call = "init_cleanup"
    BY <1>1, <2>2 DEF Inv, CallInv, InitInv, RemovalInv
  <2>3. QED
    BY <2>1, <2>2
<1>3. h.op # "mkdir"
  <2>1. CASE call = "destroy_gadget"
    <3>1. h \in RemovalSteps
      BY <1>1, <2>1, TailIn DEF Inv, CallInv
    <3>2. QED
      BY <3>1 DEF RemovalSteps
  <2>2. CASE call = "init_cleanup" /\ Tail(script) # <<>>
    BY <1>1, <1>2, <2>2, MakeGadgetFindsNothing
  <2>3. QED
    BY <2>1, <2>2
<1>4. CASE StepSucceeds
  <2>1. Allowed(h.op, h.arg) /\ Effect(h.op, h.arg)
    BY <1>4 DEF StepSucceeds
  <2>2. QED
    BY <1>1, <1>2, <1>3, <2>1, RemovalGoesOn
<1>5. CASE StepIgnored
  <2>1. (~Allowed(h.op, h.arg) \/ h.op \in Faults) /\ UNCHANGED tree
    BY <1>5 DEF StepIgnored, CanFail
  <2>2. h.op \in {"unbind", "unlink", "rmdir", "rmfunction"}
    BY <1>1, <1>2, <1>3, TailIn, InitStepKinds DEF MakeGadget, Must
  <2>3. h.op # "unbind" => ~Allowed(h.op, h.arg)
    BY <2>1, <2>2 DEF RemovalIsReliable
  <2>4. QED
    BY <1>1, <1>2, <1>3, <2>1, <2>3, RemovalGoesOn
<1>6. QED
  BY <1>4, <1>5

LEMMA StepKeepsRemoval ==
  ASSUME Inv, RemovalInv, RemovalIsReliable, [Next]_vars
  PROVE  RemovalInv'
<1>1. CASE \E cleanup \in BOOLEAN : GadgetInit(cleanup)
  <2> PICK cleanup \in BOOLEAN : GadgetInit(cleanup)
    BY <1>1
  <2>1. /\ call' = IF cleanup THEN "init_cleanup" ELSE "init"
        /\ script' = InitScript(cleanup)
        /\ UNCHANGED <<dirs, functions, links>>
    BY DEF GadgetInit, Begin, tree
  <2>2. CASE cleanup = TRUE
    <3>1. script' = InitScript(TRUE)
      BY <2>1, <2>2
    <3>2. QED
      BY <2>1, <2>2, <3>1, InitScriptCovers DEF RemovalInv, Covers
  <2>3. CASE cleanup = FALSE
    BY <2>1, <2>3 DEF RemovalInv
  <2>4. QED
    BY <2>2, <2>3
<1>2. CASE GadgetDestroy
  <2>1. /\ call' = "destroy_gadget" /\ script' = Removal
        /\ UNCHANGED <<dirs, functions, links>>
    BY <1>2 DEF GadgetDestroy, Begin, tree
  <2>2. QED
    BY <2>1, RemovalCovers DEF RemovalInv, Covers
<1>3. CASE StepSucceeds \/ StepIgnored
  <2>1. script' = Tail(script) /\ call' = call
    BY <1>3 DEF StepSucceeds, StepIgnored
  <2>2. ASSUME call = "destroy_gadget" \/ (call = "init_cleanup" /\ Tail(script) # <<>>)
        PROVE  (Ascending(script) /\ Covers(script))'
    BY <1>3, <2>2, RemovalStepKeepsRemoval
  <2>3. QED
    BY <2>1, <2>2 DEF RemovalInv
<1>4. CASE call' \notin {"init_cleanup", "destroy_gadget"}
  BY <1>4 DEF RemovalInv
<1>5. CASE UNCHANGED vars
  BY <1>5 DEF vars, RemovalInv, Covers
<1>6. CASE StepAborts \/ Return \/ Crash
  <2>1. call' \in {"none", "undo_create"}
    BY <1>6 DEF StepAborts, Return, Crash
  <2>2. QED
    BY <1>4, <2>1
<1>7. CASE \/ GadgetCreate \/ Refused \/ GadgetDestroyUninitialised
           \/ GadgetConfigure \/ GadgetEnable \/ GadgetDisable \/ PadCreate
           \/ \E id \in Ids : PadDestroy(id)
  <2>1. call' \in {"none", "configure", "enable", "disable", "create", "destroy_pad"}
    BY <1>7 DEF GadgetCreate, Refused, GadgetDestroyUninitialised, GadgetConfigure,
                GadgetEnable, GadgetDisable, PadCreate, PadDestroy, Begin
  <2>2. QED
    BY <1>4, <2>1
<1>8. QED
  BY <1>1, <1>2, <1>3, <1>5, <1>6, <1>7 DEF Next

\* As long as no system call of a removal fails where the kernel would allow it,
\* what is left of the removal in progress tries all that is left of the tree,
\* in an order in which nothing is busy or not empty when its turn comes.
THEOREM RemovalInvariant ==
  ASSUME RemovalIsReliable PROVE Spec => []RemovalInv
<1>1. Init => RemovalInv
  BY DEF Init, RemovalInv
<1>2. Inv /\ RemovalInv /\ [Next]_vars => RemovalInv'
  BY StepKeepsRemoval
<1>3. QED
  BY <1>1, <1>2, GadgetInvariant, PTL DEF Spec

\* init with cleanup succeeds after a crash at any point of any call, for any
\* number of functions, as long as the removal's system calls fail only where
\* the kernel refuses them.
THEOREM CrashesAreCleanedUp ==
  ASSUME RemovalIsReliable PROVE Spec => CleanupRecovers
<1>1. Inv /\ RemovalInv /\ [Next]_vars =>
        [call = "init_cleanup" /\ call' = "none" => ret' = "ok" \/ ram' = "none"]_vars
  <2> SUFFICES ASSUME Inv, RemovalInv, Next,
                      call = "init_cleanup", call' = "none"
               PROVE  ret' = "ok" \/ ram' = "none"
    BY DEF vars
  <2>1. ~StepAborts
    <3> SUFFICES ASSUME StepAborts PROVE FALSE
      OBVIOUS
    <3>1. /\ script # <<>> /\ script \in Seq(InitSteps)
          /\ Ascending(script) /\ Covers(script)
      BY DEF StepAborts, Inv, CallInv, InitInv, RemovalInv
    <3>2. Head(script).op = "mkdir"
      BY <3>1, TailIn, InitStepKinds DEF StepAborts, MakeGadget, Must
    <3>3. ~CanFail(Head(script))
      BY <3>1, <3>2, MakeGadgetFindsNothing DEF CanFail, RemovalIsReliable
    <3>4. QED
      BY <3>3 DEF StepAborts
  <2>2. CASE Return
    BY <2>2 DEF Return
  <2>3. CASE Crash
    BY <2>3 DEF Crash
  <2>4. QED
    BY <2>1, <2>2, <2>3
       DEF Next, GadgetCreate, GadgetInit, GadgetConfigure, GadgetEnable, GadgetDisable,
           PadCreate, Refused, PadDestroy, GadgetDestroy, GadgetDestroyUninitialised,
           StepSucceeds, StepIgnored
<1>2. Spec => []RemovalInv
  BY RemovalInvariant
<1>3. QED
  BY <1>1, <1>2, GadgetInvariant, PTL DEF Spec, CleanupRecovers

\* udcinput_gadget_destroy leaves nothing in configfs, under the same assumption,
\* whatever gamepads exist and whatever part of the gadget was configured.
THEOREM DestroyedGadgetsAreGone ==
  ASSUME RemovalIsReliable PROVE Spec => DestroyLeavesNothing
<1>1. Inv /\ RemovalInv /\ [Next]_vars =>
        [call = "destroy_gadget" /\ call' = "none" /\ ret' = "ok" =>
           dirs' = {} /\ functions' = {} /\ links' = {} /\ ~bound']_vars
  <2> SUFFICES ASSUME Inv, RemovalInv, Next,
                      call = "destroy_gadget", call' = "none", ret' = "ok"
               PROVE  dirs' = {} /\ functions' = {} /\ links' = {} /\ ~bound'
    BY DEF vars
  <2>1. Return
    BY DEF Next, GadgetCreate, GadgetInit, GadgetConfigure, GadgetEnable, GadgetDisable,
           PadCreate, Refused, PadDestroy, GadgetDestroy, GadgetDestroyUninitialised,
           StepSucceeds, StepIgnored, StepAborts, Crash
  <2>2. script = <<>> /\ UNCHANGED <<dirs, functions, links, bound>>
    BY <2>1 DEF Return, tree
  <2>3. \A x : ~Has(script, x)
    BY <2>2 DEF Has
  <2>4. dirs = {} /\ functions = {} /\ links = {}
    BY <2>3 DEF RemovalInv, Covers
  <2>5. ~bound
    BY <2>4 DEF Inv, TreeInv
  <2>6. QED
    BY <2>2, <2>4, <2>5
<1>2. Spec => []RemovalInv
  BY RemovalInvariant
<1>3. QED
  BY <1>1, <1>2, GadgetInvariant, PTL DEF Spec, DestroyLeavesNothing
-----------------------------------------------------------------------------
(* The functions of the gamepads.                                           *)

\* Between two calls the functions in the tree are the gamepads'; during create
\* and destroy there may be one more, and the script that is left removes it or
\* makes a gamepad of it.
OneMore(id) == id \in Ids \ pads /\ functions = pads \cup {id}

CreatingInv ==
  \/ script = CreateScript(next) /\ functions = pads
  \/ /\ OneMore(next - 1) /\ next - 1 \notin links
     /\ \/ script = <<Must("write_function", next - 1), Must("link", next - 1)>>
        \/ script = <<Must("link", next - 1)>>
  \/ script = <<>> /\ OneMore(next - 1)

UndoingInv ==
  \/ script = UndoCreateScript /\ OneMore(next - 1) /\ next - 1 \notin links
  \/ script = <<>> /\ functions = pads

DestroyingInv ==
  \/ script = <<>> /\ functions = pads
  \/ \E id \in Ids :
       /\ OneMore(id)
       /\ script = DestroyScript(id) \/ (script = <<Try("rmfunction", id)>> /\ id \notin links)

OrphanInv ==
  ram = "ready" =>
    /\ call \in {"none", "configure", "enable", "disable"} => functions = pads
    /\ call = "create" => CreatingInv
    /\ call = "undo_create" => UndoingInv
    /\ call = "destroy_pad" => DestroyingInv

\* Removing a function fails only where the kernel refuses it.
FunctionsAreRemovable == Faults \cap {"rmfunction", "unlink"} = {}

LEMMA MustFacts ==
  \A op, arg : Must(op, arg).op = op /\ Must(op, arg).arg = arg /\ Must(op, arg).must
  BY DEF Must

\* A script of one, two or three steps goes on.
LEMMA ShortScripts ==
  /\ \A a : <<a>> # <<>> /\ Head(<<a>>) = a /\ Tail(<<a>>) = <<>>
  /\ \A a, b : <<a, b>> # <<>> /\ Head(<<a, b>>) = a /\ Tail(<<a, b>>) = <<b>>
  /\ \A a, b, c : <<a, b, c>> # <<>> /\ Head(<<a, b, c>>) = a /\ Tail(<<a, b, c>>) = <<b, c>>
  OBVIOUS

\* The calls that have nothing to do with functions.
LEMMA OtherStepsKeepFunctions ==
  ASSUME Inv, StepSucceeds, call \in {"configure", "enable", "disable"}
  PROVE  functions' = functions
<1>1. Head(script).op \notin {"mkfunction", "rmfunction"}
  <2>1. CASE call = "configure"
    BY <2>1, TailIn DEF StepSucceeds, Inv, CallInv, ConfigureSteps
  <2>2. CASE call \in {"enable", "disable"}
    BY <2>2, TailIn DEF StepSucceeds, Inv, CallInv, BindSteps
  <2>3. QED
    BY <2>1, <2>2
<1>2. QED
  BY <1>1 DEF StepSucceeds, Effect

\* A system call of create succeeds.
LEMMA CreateGoesOn ==
  ASSUME Inv, CreatingInv, StepSucceeds, call = "create"
  PROVE  CreatingInv'
<1> DEFINE h == Head(script)
<1>1. /\ script # <<>> /\ script' = Tail(script)
      /\ UNCHANGED <<ram, pads, call>>
      /\ Allowed(h.op, h.arg) /\ Effect(h.op, h.arg)
      /\ next' = IF h.op = "mkfunction" THEN next + 1 ELSE next
  BY DEF StepSucceeds
<1>2. CASE script = CreateScript(next) /\ functions = pads
  <2>1. /\ h = Must("mkfunction", next)
        /\ Tail(script) = <<Must("write_function", next), Must("link", next)>>
    BY <1>2, ShortScripts DEF CreateScript
  <2>2. h.op = "mkfunction" /\ h.arg = next
    BY <2>1, MustFacts
  <2>3. next \in Ids
    BY <1>1, <2>2, HeadFacts
  <2>4. /\ next \notin functions /\ functions' = functions \cup {next}
        /\ links' = links /\ next' = next + 1
    BY <1>1, <2>2 DEF Allowed, Effect
  <2>5. next' - 1 = next
    BY <2>3, <2>4 DEF Ids
  <2>6. next \notin links
    BY <2>4 DEF Inv, TreeInv
  <2>7. OneMore(next - 1)' /\ next' - 1 \notin links'
    BY <1>1, <1>2, <2>3, <2>4, <2>5, <2>6 DEF OneMore
  <2>8. script' = <<Must("write_function", next' - 1), Must("link", next' - 1)>>
    BY <1>1, <2>1, <2>5
  <2>9. QED
    BY <2>7, <2>8 DEF CreatingInv
<1>3. CASE /\ OneMore(next - 1) /\ next - 1 \notin links
           /\ script = <<Must("write_function", next - 1), Must("link", next - 1)>>
  <2>1. h = Must("write_function", next - 1) /\ Tail(script) = <<Must("link", next - 1)>>
    BY <1>3, ShortScripts
  <2>2. h.op = "write_function"
    BY <2>1, MustFacts
  <2>3. next' = next /\ functions' = functions /\ links' = links
    BY <1>1, <2>2 DEF Effect
  <2>4. QED
    BY <1>1, <1>3, <2>1, <2>3 DEF CreatingInv, OneMore
<1>4. CASE /\ OneMore(next - 1) /\ next - 1 \notin links
           /\ script = <<Must("link", next - 1)>>
  <2>1. h = Must("link", next - 1) /\ Tail(script) = <<>>
    BY <1>4, ShortScripts
  <2>2. h.op = "link"
    BY <2>1, MustFacts
  <2>3. next' = next /\ functions' = functions
    BY <1>1, <2>2 DEF Effect
  <2>4. QED
    BY <1>1, <1>4, <2>1, <2>3 DEF CreatingInv, OneMore
<1>5. QED
  BY <1>1, <1>2, <1>3, <1>4 DEF CreatingInv

\* The function of a create that failed is removed: its gamepad never was.
LEMMA UndoGoesOn ==
  ASSUME Inv, UndoingInv, FunctionsAreRemovable, StepSucceeds \/ StepIgnored, call = "undo_create"
  PROVE  UndoingInv'
<1> DEFINE h == Head(script)
<1>1. script # <<>> /\ script' = Tail(script) /\ UNCHANGED pads
  BY DEF StepSucceeds, StepIgnored
<1>2. script = UndoCreateScript /\ OneMore(next - 1) /\ next - 1 \notin links
  BY <1>1 DEF UndoingInv
<1>3. h = Try("rmfunction", next - 1) /\ Tail(script) = <<>>
  BY <1>2, ShortScripts DEF UndoCreateScript
<1>4. h.op = "rmfunction" /\ h.arg = next - 1
  BY <1>3, TryFacts
<1>5. Allowed(h.op, h.arg) /\ h.op \notin Faults
  BY <1>2, <1>4 DEF Allowed, OneMore, FunctionsAreRemovable
<1>6. functions' = functions \ {next - 1}
  <2>1. Effect(h.op, h.arg)
    BY <1>5 DEF StepSucceeds, StepIgnored, CanFail
  <2>2. QED
    BY <1>4, <2>1 DEF Effect
<1>7. functions' = pads'
  BY <1>1, <1>2, <1>6 DEF OneMore
<1>8. QED
  BY <1>1, <1>3, <1>7 DEF UndoingInv

\* Neither step of a function's destruction can be skipped while it has to do.
LEMMA DestroyGoesOn ==
  ASSUME Inv, DestroyingInv, FunctionsAreRemovable, StepSucceeds \/ StepIgnored
  PROVE  DestroyingInv'
<1> DEFINE h == Head(script)
<1>1. /\ script # <<>> /\ script' = Tail(script) /\ UNCHANGED pads
      /\ h.op \in {"unlink", "rmfunction"} =>
           \/ (Allowed(h.op, h.arg) /\ Effect(h.op, h.arg))
           \/ (~Allowed(h.op, h.arg) /\ UNCHANGED tree)
  BY DEF StepSucceeds, StepIgnored, CanFail, FunctionsAreRemovable
<1>2. PICK id \in Ids :
        /\ OneMore(id)
        /\ script = DestroyScript(id) \/ (script = <<Try("rmfunction", id)>> /\ id \notin links)
  BY <1>1 DEF DestroyingInv
<1>3. CASE script = DestroyScript(id)
  <2>1. h = Try("unlink", id) /\ Tail(script) = <<Try("rmfunction", id)>>
    BY <1>3, ShortScripts DEF DestroyScript
  <2>2. h.op = "unlink" /\ h.arg = id
    BY <2>1, TryFacts
  <2>3. id \notin links' /\ functions' = functions
    BY <1>1, <2>2 DEF Effect, Allowed, tree
  <2>4. QED
    BY <1>1, <1>2, <2>1, <2>3 DEF DestroyingInv, OneMore
<1>4. CASE script = <<Try("rmfunction", id)>> /\ id \notin links
  <2>1. h = Try("rmfunction", id) /\ Tail(script) = <<>>
    BY <1>4, ShortScripts
  <2>2. h.op = "rmfunction" /\ h.arg = id
    BY <2>1, TryFacts
  <2>3. Allowed(h.op, h.arg)
    BY <1>2, <1>4, <2>2 DEF Allowed, OneMore
  <2>4. functions' = functions \ {id}
    BY <1>1, <2>2, <2>3 DEF Effect
  <2>5. functions' = pads'
    BY <1>1, <1>2, <2>4 DEF OneMore
  <2>6. QED
    BY <1>1, <2>1, <2>5 DEF DestroyingInv
<1>5. QED
  BY <1>2, <1>3, <1>4

\* A system call that succeeds or whose failure is ignored.
LEMMA OrphanGoesOn ==
  ASSUME Inv, OrphanInv, FunctionsAreRemovable, StepSucceeds \/ StepIgnored
  PROVE  OrphanInv'
<1>1. script # <<>> /\ call # "none" /\ UNCHANGED <<ram, call, pads>>
  BY HeadFacts DEF StepSucceeds, StepIgnored
<1> SUFFICES ASSUME ram = "ready" PROVE OrphanInv'
  BY <1>1 DEF OrphanInv
<1>2. CASE call \in {"configure", "enable", "disable"}
  <2>1. functions' = functions
    BY <1>2, OtherStepsKeepFunctions DEF StepIgnored, tree
  <2>2. QED
    BY <1>1, <1>2, <2>1 DEF OrphanInv
<1>3. CASE call = "create"
  <2>1. ~StepIgnored
    <3> SUFFICES ASSUME StepIgnored PROVE FALSE
      OBVIOUS
    <3>1. CreatingInv
      BY <1>3 DEF OrphanInv
    <3>2. \E op, arg : Head(script) = Must(op, arg)
      BY <1>1, <3>1, ShortScripts DEF CreatingInv, CreateScript
    <3>3. QED
      BY <3>2, MustFacts DEF StepIgnored
  <2>2. CreatingInv'
    BY <1>3, <2>1, CreateGoesOn DEF OrphanInv
  <2>3. QED
    BY <1>1, <1>3, <2>2 DEF OrphanInv
<1>4. CASE call = "undo_create"
  <2>1. UndoingInv'
    BY <1>4, UndoGoesOn DEF OrphanInv
  <2>2. QED
    BY <1>1, <1>4, <2>1 DEF OrphanInv
<1>5. CASE call = "destroy_pad"
  <2>1. DestroyingInv'
    BY <1>5, DestroyGoesOn DEF OrphanInv
  <2>2. QED
    BY <1>1, <1>5, <2>1 DEF OrphanInv
<1>6. CASE call \in {"init", "init_cleanup", "destroy_gadget"}
  BY <1>1, <1>6 DEF OrphanInv
<1>7. QED
  BY <1>1, <1>2, <1>3, <1>4, <1>5, <1>6 DEF Inv, TypeOK, Calls

\* A call that fails: create leaves its function to the undoing.
LEMMA OrphanAborts ==
  ASSUME Inv, OrphanInv, StepAborts
  PROVE  OrphanInv'
<1>1. script # <<>> /\ Head(script).must /\ UNCHANGED <<dirs, functions, links, bound, ram, next, pads>>
  BY DEF StepAborts, tree
<1> SUFFICES ASSUME ram = "ready" PROVE OrphanInv'
  BY <1>1 DEF OrphanInv
<1>2. CASE call = "create" /\ Head(script).op # "mkfunction"
  <2>1. call' = "undo_create" /\ script' = UndoCreateScript
    BY <1>2 DEF StepAborts
  <2>2. CreatingInv
    BY <1>2 DEF OrphanInv
  <2>3. script # CreateScript(next)
    <3> SUFFICES ASSUME script = CreateScript(next) PROVE FALSE
      OBVIOUS
    <3>1. Head(script) = Must("mkfunction", next)
      BY ShortScripts DEF CreateScript
    <3>2. QED
      BY <1>2, <3>1, MustFacts
  <2>4. OneMore(next - 1) /\ next - 1 \notin links
    BY <1>1, <2>2, <2>3 DEF CreatingInv
  <2>5. UndoingInv'
    BY <1>1, <2>1, <2>4 DEF UndoingInv, UndoCreateScript, OneMore
  <2>6. QED
    BY <2>1, <2>5 DEF OrphanInv
<1>3. CASE ~(call = "create" /\ Head(script).op # "mkfunction")
  <2>1. call' = "none"
    BY <1>3 DEF StepAborts
  <2>2. functions = pads
    <3>1. CASE call = "create"
      <4>1. CreatingInv /\ Head(script).op = "mkfunction"
        BY <1>3, <3>1 DEF OrphanInv
      <4>2. script # <<Must("write_function", next - 1), Must("link", next - 1)>>
        BY <4>1, ShortScripts, MustFacts
      <4>3. script # <<Must("link", next - 1)>>
        BY <4>1, ShortScripts, MustFacts
      <4>4. QED
        BY <1>1, <4>1, <4>2, <4>3 DEF CreatingInv
    <3>2. CASE call = "undo_create"
      <4>1. UndoingInv
        BY <3>2 DEF OrphanInv
      <4>2. ~(script = UndoCreateScript)
        BY <1>1, ShortScripts, TryFacts DEF UndoCreateScript
      <4>3. QED
        BY <1>1, <4>1, <4>2 DEF UndoingInv
    <3>3. CASE call = "destroy_pad"
      <4>1. DestroyingInv
        BY <3>3 DEF OrphanInv
      <4>2. \A id \in Ids : script # DestroyScript(id) /\ script # <<Try("rmfunction", id)>>
        BY <1>1, ShortScripts, TryFacts DEF DestroyScript
      <4>3. QED
        BY <1>1, <4>1, <4>2 DEF DestroyingInv
    <3>4. CASE call \in {"configure", "enable", "disable"}
      BY <3>4 DEF OrphanInv
    <3>5. call \notin {"none", "init", "init_cleanup", "destroy_gadget"}
      BY <1>1 DEF Inv, CallInv, InitInv
    <3>6. QED
      BY <3>1, <3>2, <3>3, <3>4, <3>5 DEF Inv, TypeOK, Calls
  <2>3. QED
    BY <1>1, <2>1, <2>2 DEF OrphanInv
<1>4. QED
  BY <1>2, <1>3

\* A call has ended: a new gadget has neither functions nor gamepads.
LEMMA OrphanReturns ==
  ASSUME Inv, OrphanInv, Return
  PROVE  OrphanInv'
<1>1. script = <<>> /\ call # "none" /\ call' = "none" /\ UNCHANGED <<functions, next>>
  BY DEF Return, tree
<1>2. ram' = "ready" => functions' = pads'
  <2> SUFFICES ASSUME ram' = "ready" PROVE functions' = pads'
    OBVIOUS
  <2>1. CASE call \in {"init", "init_cleanup"}
    <3>1. pads = {} /\ functions = {}
      BY <1>1, <2>1 DEF Inv, CallInv, InitInv, Fresh, PadInv
    <3>2. QED
      BY <1>1, <2>1, <3>1 DEF Return
  <2>2. CASE call = "create"
    <3>1. CreatingInv /\ pads' = pads \cup {next - 1}
      BY <2>2 DEF Return, OrphanInv
    <3>2. script # CreateScript(next)
      BY <1>1, ShortScripts DEF CreateScript
    <3>3. functions = pads \cup {next - 1}
      BY <1>1, <3>1, <3>2 DEF CreatingInv, OneMore
    <3>4. QED
      BY <1>1, <3>1, <3>3
  <2>3. CASE call \in {"undo_create", "destroy_pad", "configure", "enable", "disable"}
    <3>1. pads' = pads /\ ram = "ready"
      BY <2>3 DEF Return
    <3>2. \A id : script # DestroyScript(id) /\ script # <<Try("rmfunction", id)>>
      BY <1>1, ShortScripts DEF DestroyScript
    <3>3. script # UndoCreateScript
      BY <1>1, ShortScripts DEF UndoCreateScript
    <3>4. functions = pads
      BY <2>3, <3>1, <3>2, <3>3 DEF OrphanInv, UndoingInv, DestroyingInv
    <3>5. QED
      BY <1>1, <3>1, <3>4
  <2>4. call # "destroy_gadget"
    BY DEF Inv, CallInv, Return
  <2>5. QED
    BY <1>1, <2>1, <2>2, <2>3, <2>4 DEF Inv, TypeOK, Calls
<1>3. QED
  BY <1>1, <1>2 DEF OrphanInv

\* The calls begin where the functions are the gamepads'.
LEMMA OrphanBegins ==
  ASSUME Inv, OrphanInv, call = "none",
         \/ GadgetConfigure \/ GadgetEnable \/ GadgetDisable \/ PadCreate \/ Refused
         \/ \E id \in Ids : PadDestroy(id)
  PROVE  OrphanInv'
<1>1. ram' = ram /\ UNCHANGED <<functions, links, next>>
  BY DEF GadgetConfigure, GadgetEnable, GadgetDisable, PadCreate, PadDestroy, Refused, tree
<1> SUFFICES ASSUME ram = "ready" PROVE OrphanInv'
  BY <1>1 DEF OrphanInv
<1>2. functions = pads
  BY DEF OrphanInv
<1>3. CASE GadgetConfigure \/ GadgetEnable \/ GadgetDisable \/ Refused
  <2>1. pads' = pads /\ call' \in {"configure", "enable", "disable", "none"}
    BY <1>3 DEF GadgetConfigure, GadgetEnable, GadgetDisable, Refused, Begin
  <2>2. QED
    BY <1>1, <1>2, <2>1 DEF OrphanInv
<1>4. CASE PadCreate
  <2>1. pads' = pads /\ call' = "create" /\ script' = CreateScript(next)
    BY <1>4 DEF PadCreate, Begin
  <2>2. CreatingInv'
    BY <1>1, <1>2, <2>1 DEF CreatingInv, CreateScript
  <2>3. QED
    BY <2>1, <2>2 DEF OrphanInv
<1>5. CASE \E id \in Ids : PadDestroy(id)
  <2> PICK id \in Ids : PadDestroy(id)
    BY <1>5
  <2>1. id \in pads /\ pads' = pads \ {id} /\ call' = "destroy_pad" /\ script' = DestroyScript(id)
    BY DEF PadDestroy, Begin
  <2>2. OneMore(id)'
    BY <1>1, <1>2, <2>1 DEF OneMore
  <2>3. DestroyingInv'
    BY <2>1, <2>2 DEF DestroyingInv
  <2>4. QED
    BY <2>1, <2>3 DEF OrphanInv
<1>6. QED
  BY <1>3, <1>4, <1>5

LEMMA StepKeepsOrphan ==
  ASSUME Inv, OrphanInv, FunctionsAreRemovable, [Next]_vars
  PROVE  OrphanInv'
<1>1. CASE StepSucceeds \/ StepIgnored
  BY <1>1, OrphanGoesOn
<1>2. CASE StepAborts
  BY <1>2, OrphanAborts
<1>3. CASE Return
  BY <1>3, OrphanReturns
<1>4. CASE \/ GadgetConfigure \/ GadgetEnable \/ GadgetDisable \/ PadCreate \/ Refused
           \/ \E id \in Ids : PadDestroy(id)
  <2>1. call = "none"
    BY <1>4 DEF GadgetConfigure, GadgetEnable, GadgetDisable, PadCreate, Refused, PadDestroy
  <2>2. QED
    BY <1>4, <2>1, OrphanBegins
<1>5. CASE \/ GadgetCreate \/ GadgetDestroy \/ GadgetDestroyUninitialised \/ Crash
           \/ \E cleanup \in BOOLEAN : GadgetInit(cleanup)
  <2>1. ram' # "ready"
    BY <1>5 DEF GadgetCreate, GadgetDestroy, GadgetDestroyUninitialised, Crash, GadgetInit
  <2>2. QED
    BY <2>1 DEF OrphanInv
<1>6. CASE UNCHANGED vars
  BY <1>6 DEF vars, OrphanInv, CreatingInv, UndoingInv, DestroyingInv, OneMore,
              CreateScript, UndoCreateScript, DestroyScript
<1>7. QED
  BY <1>1, <1>2, <1>3, <1>4, <1>5, <1>6 DEF Next

\* Between two calls the functions in the tree are exactly the gamepads', for
\* any number of them and whatever fails in create: only the removal of a
\* function may not fail where the kernel would allow it.
THEOREM NoFunctionIsOrphaned ==
  ASSUME FunctionsAreRemovable PROVE Spec => []NoOrphanFunctions
<1>1. Init => OrphanInv
  BY DEF Init, OrphanInv
<1>2. Inv /\ OrphanInv /\ [Next]_vars => OrphanInv'
  BY StepKeepsOrphan
<1>3. OrphanInv => NoOrphanFunctions
  BY DEF OrphanInv, NoOrphanFunctions
<1>4. QED
  BY <1>1, <1>2, <1>3, GadgetInvariant, PTL DEF Spec
===============================================================================
