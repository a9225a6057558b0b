--------------------------------- MODULE Wrapper -------------------------------
(***************************************************************************)
(* Who owns what in the C++ wrapper include/udcinput.hpp: the C structure in *)
(* a CStructWrapper, which the last wrapper it was moved to destroys, and    *)
(* the callbacks that SwitchPro::set_callbacks puts on the heap.  Gadget and *)
(* Loop are the same wrapper without callbacks.                             *)
(*                                                                         *)
(* A wrapper is a variable of the application, or the temporary of create:   *)
(* create constructs one, moves it into the optional and destroys it.        *)
(***************************************************************************)
EXTENDS Naturals, FiniteSets

CONSTANTS
  Wrappers,     \* variables and temporaries of the C++ type
  Objects,      \* C structures: each is created once
  Blocks,       \* GamepadCallbacks on the heap: each is allocated once
  Null          \* no block: the nullptr of raw.user_data

ASSUME WrapperAssumption == Null \notin Blocks

VARIABLES
  alive,        \* the wrappers whose constructor ran and whose destructor did not
  raw,          \* the C structure in each wrapper: a copy after a move
  valid,        \* the member valid
  user_data,    \* the member raw.user_data
  delete_userdata,  \* the member delete_userdata is not the nullptr
  created,      \* history: objects that were created
  destroys,     \* history: how often DestroyFn was called for each object
  allocated,    \* history: blocks that were allocated
  freed         \* history: blocks that were deleted

vars == <<alive, raw, valid, user_data, delete_userdata, created, destroys, allocated, freed>>

-----------------------------------------------------------------------------
Freeing(w) == IF delete_userdata[w] THEN {user_data[w]} ELSE {}

Init ==
  /\ alive = {}
  /\ raw \in [Wrappers -> Objects]      \* anything, in storage that is no object yet
  /\ valid = [w \in Wrappers |-> FALSE]
  /\ user_data = [w \in Wrappers |-> Null]
  /\ delete_userdata = [w \in Wrappers |-> FALSE]
  /\ created = {}
  /\ destroys = [o \in Objects |-> 0]
  /\ allocated = {}
  /\ freed = {}

\* create when the C function succeeded: SwitchPro(switchpro).
Construct(w) ==
  /\ w \notin alive
  /\ alive' = alive \cup {w}
  /\ \E o \in Objects \ created :
       /\ created' = created \cup {o}
       /\ raw' = [raw EXCEPT ![w] = o]
  /\ valid' = [valid EXCEPT ![w] = TRUE]
  /\ user_data' = [user_data EXCEPT ![w] = Null]
  /\ delete_userdata' = [delete_userdata EXCEPT ![w] = FALSE]
  /\ UNCHANGED <<destroys, allocated, freed>>

-----------------------------------------------------------------------------
(* Faulty variants, no part of the wrapper.                                 *)

\* valid is copied like raw.
MoveCopiesValid(from, to) ==
  /\ from \in alive
  /\ to \notin alive
  /\ alive' = alive \cup {to}
  /\ raw' = [raw EXCEPT ![to] = raw[from]]
  /\ user_data' = [user_data EXCEPT ![to] = user_data[from]]
  /\ valid' = [valid EXCEPT ![to] = valid[from]]
  /\ delete_userdata' = [delete_userdata EXCEPT ![to] = delete_userdata[from], ![from] = FALSE]
  /\ UNCHANGED <<created, destroys, allocated, freed>>

\* valid is reset, and not handed over.
MoveForgetsValid(from, to) ==
  /\ from \in alive
  /\ to \notin alive
  /\ alive' = alive \cup {to}
  /\ raw' = [raw EXCEPT ![to] = raw[from]]
  /\ user_data' = [user_data EXCEPT ![to] = user_data[from]]
  /\ valid' = [valid EXCEPT ![to] = FALSE, ![from] = FALSE]
  /\ delete_userdata' = [delete_userdata EXCEPT ![to] = delete_userdata[from], ![from] = FALSE]
  /\ UNCHANGED <<created, destroys, allocated, freed>>

-----------------------------------------------------------------------------
\* The move constructor: raw is copied, user_data in it; valid and
\* delete_userdata are swapped with the new wrapper's false and nullptr.
Move(from, to) ==
  /\ from \in alive
  /\ to \notin alive
  /\ alive' = alive \cup {to}
  /\ raw' = [raw EXCEPT ![to] = raw[from]]
  /\ user_data' = [user_data EXCEPT ![to] = user_data[from]]
  /\ valid' = [valid EXCEPT ![to] = valid[from], ![from] = FALSE]
  /\ delete_userdata' = [delete_userdata EXCEPT ![to] = delete_userdata[from], ![from] = FALSE]
  /\ UNCHANGED <<created, destroys, allocated, freed>>

\* set_callbacks, by an application that uses no wrapper it moved from.  No line
\* of the code sets delete_userdata.
SetCallbacks(w) ==
  /\ w \in alive
  /\ valid[w]
  /\ freed' = freed \cup Freeing(w)
  /\ \E b \in Blocks \ allocated :
       /\ allocated' = allocated \cup {b}
       /\ user_data' = [user_data EXCEPT ![w] = b]
  /\ UNCHANGED <<alive, raw, valid, delete_userdata, created, destroys>>

\* ~SwitchPro, and then ~CStructWrapper.
Destroy(w) ==
  /\ w \in alive
  /\ alive' = alive \ {w}
  /\ freed' = freed \cup Freeing(w)
  /\ destroys' = IF valid[w] THEN [destroys EXCEPT ![raw[w]] = @ + 1] ELSE destroys
  /\ UNCHANGED <<raw, valid, user_data, delete_userdata, created, allocated>>

Next ==
  \/ \E w \in Wrappers : Construct(w)
  \/ \E from, to \in Wrappers : Move(from, to)
  \/ \E w \in Wrappers : SetCallbacks(w)
  \/ \E w \in Wrappers : Destroy(w)

Spec == Init /\ [][Next]_vars

-----------------------------------------------------------------------------
(* Properties.                                                              *)

\* Every variable has its type.
TypeOK ==
  /\ alive \subseteq Wrappers
  /\ raw \in [Wrappers -> Objects]
  /\ valid \in [Wrappers -> BOOLEAN]
  /\ user_data \in [Wrappers -> Blocks \cup {Null}]
  /\ delete_userdata \in [Wrappers -> BOOLEAN]
  /\ created \subseteq Objects
  /\ destroys \in [Objects -> Nat]
  /\ allocated \subseteq Blocks
  /\ freed \subseteq allocated

Owns(w, o) == w \in alive /\ valid[w] /\ raw[w] = o

\* A C structure that was created and not yet destroyed has a wrapper that will
\* destroy it, however often it was moved.
NothingIsOrphaned ==
  \A o \in created : destroys[o] = 0 => \E w \in Wrappers : Owns(w, o)

\* No structure is destroyed twice, none is used after it was destroyed, and no
\* two wrappers take the same one for theirs, although a move copies it
\* ("This works because all of our C structs are copyable", udcinput.hpp:19).
OneOwner ==
  /\ \A o \in Objects : destroys[o] <= 1
  /\ \A w \in alive : valid[w] => raw[w] \in created /\ destroys[raw[w]] = 0
  /\ \A v, w \in alive : valid[v] /\ valid[w] /\ raw[v] = raw[w] => v = w
===============================================================================
