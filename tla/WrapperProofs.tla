------------------------------ MODULE WrapperProofs ----------------------------
(***************************************************************************)
(* The ownership of Wrapper for any number of wrappers, structures and        *)
(* callbacks, and any sequence of constructions, moves and destructions.     *)
(***************************************************************************)
EXTENDS Wrapper, TLAPS

\* What the ownership rests on beyond itself: an object that was not created was
\* not destroyed, only live wrappers hold a delete_userdata, and nobody sets one.
Inv ==
  /\ TypeOK
  /\ NothingIsOrphaned
  /\ OneOwner
  /\ \A o \in Objects \ created : destroys[o] = 0
  /\ \A w \in Wrappers : ~delete_userdata[w]
  /\ freed = {}
  /\ \A w \in Wrappers : user_data[w] \in allocated \cup {Null}

LEMMA InitInv == Init => Inv
<1> SUFFICES ASSUME Init PROVE Inv
  OBVIOUS
<1>1. TypeOK
  BY DEF Init, TypeOK
<1>2. NothingIsOrphaned /\ OneOwner
  BY DEF Init, NothingIsOrphaned, OneOwner
<1> QED
  BY <1>1, <1>2 DEF Init, Inv

\* What the members tell of callbacks is the same for every step: no step
\* sets delete_userdata, so none deletes.
LEMMA NothingIsDeleted ==
  ASSUME Inv, NEW w \in Wrappers
  PROVE  Freeing(w) = {}
  BY DEF Inv, Freeing

LEMMA ConstructInv ==
  ASSUME Inv, NEW w \in Wrappers, Construct(w)
  PROVE  Inv'
<1>1. PICK o \in Objects \ created :
        created' = created \cup {o} /\ raw' = [raw EXCEPT ![w] = o]
  BY DEF Construct
<1>2. /\ alive' = alive \cup {w}
      /\ valid' = [valid EXCEPT ![w] = TRUE]
      /\ user_data' = [user_data EXCEPT ![w] = Null]
      /\ delete_userdata' = [delete_userdata EXCEPT ![w] = FALSE]
      /\ UNCHANGED <<destroys, allocated, freed>>
  BY DEF Construct
<1>3. TypeOK'
  BY <1>1, <1>2 DEF Inv, TypeOK
<1>4. destroys[o] = 0
  BY DEF Inv
<1>5. raw'[w] = o /\ valid'[w] /\ w \in alive'
  BY <1>1, <1>2 DEF Inv, TypeOK
<1>6. \A v \in Wrappers \ {w} : raw'[v] = raw[v] /\ valid'[v] = valid[v]
                                /\ (v \in alive' <=> v \in alive)
  BY <1>1, <1>2 DEF Inv, TypeOK
<1>7. w \notin alive
  BY DEF Construct
<1>8. NothingIsOrphaned'
  <2> SUFFICES ASSUME NEW p \in created', destroys[p] = 0
               PROVE  \E v \in Wrappers : v \in alive' /\ valid'[v] /\ raw'[v] = p
    BY <1>2 DEF NothingIsOrphaned, Owns
  <2>1. CASE p = o
    BY <2>1, <1>5
  <2>2. CASE p # o
    <3>1. p \in created
      BY <2>2, <1>1
    <3>2. PICK v \in Wrappers : v \in alive /\ valid[v] /\ raw[v] = p
      BY <3>1 DEF Inv, NothingIsOrphaned, Owns
    <3>3. v # w
      BY <3>2, <1>7
    <3> QED
      BY <3>2, <3>3, <1>6
  <2> QED
    BY <2>1, <2>2
<1>9. OneOwner'
  <2>1. \A v \in alive' : v \in Wrappers
    BY <1>3 DEF TypeOK
  <2>2. \A v \in alive : valid[v] => raw[v] \in created
    BY DEF Inv, OneOwner
  <2>3. \A v \in alive' : valid'[v] => raw'[v] \in created' /\ destroys[raw'[v]] = 0
    <3> SUFFICES ASSUME NEW v \in alive', valid'[v]
                 PROVE  raw'[v] \in created' /\ destroys[raw'[v]] = 0
      OBVIOUS
    <3>1. CASE v = w
      BY <3>1, <1>1, <1>4, <1>5
    <3>2. CASE v # w
      BY <3>2, <2>1, <1>1, <1>6 DEF Inv, OneOwner
    <3> QED
      BY <3>1, <3>2
  <2>4. \A u, v \in alive' : valid'[u] /\ valid'[v] /\ raw'[u] = raw'[v] => u = v
    <3> SUFFICES ASSUME NEW u \in alive', NEW v \in alive', valid'[u], valid'[v],
                        raw'[u] = raw'[v]
                 PROVE  u = v
      OBVIOUS
    <3>1. CASE u # w /\ v # w
      BY <3>1, <2>1, <1>6 DEF Inv, OneOwner
    <3>2. CASE u = w /\ v # w
      BY <3>2, <2>1, <2>2, <1>1, <1>5, <1>6
    <3>3. CASE u # w /\ v = w
      BY <3>3, <2>1, <2>2, <1>1, <1>5, <1>6
    <3> QED
      BY <3>1, <3>2, <3>3
  <2>5. \A p \in Objects : destroys[p] <= 1
    BY DEF Inv, OneOwner
  <2> QED
    BY <1>2, <2>3, <2>4, <2>5 DEF OneOwner
<1>10. \A p \in Objects \ created' : destroys'[p] = 0
  BY <1>1, <1>2 DEF Inv
<1>11. \A v \in Wrappers : ~delete_userdata'[v] /\ user_data'[v] \in allocated' \cup {Null}
  BY <1>2 DEF Inv, TypeOK
<1>12. freed' = {}
  BY <1>2 DEF Inv
<1> QED
  BY <1>3, <1>8, <1>9, <1>10, <1>11, <1>12 DEF Inv

LEMMA MoveInv ==
  ASSUME Inv, NEW from \in Wrappers, NEW to \in Wrappers, Move(from, to)
  PROVE  Inv'
<1>1. /\ from \in alive
      /\ to \notin alive
      /\ alive' = alive \cup {to}
      /\ raw' = [raw EXCEPT ![to] = raw[from]]
      /\ user_data' = [user_data EXCEPT ![to] = user_data[from]]
      /\ valid' = [valid EXCEPT ![to] = valid[from], ![from] = FALSE]
      /\ delete_userdata' = [delete_userdata EXCEPT ![to] = delete_userdata[from], ![from] = FALSE]
      /\ UNCHANGED <<created, destroys, allocated, freed>>
  BY DEF Move
<1>2. TypeOK'
  BY <1>1 DEF Inv, TypeOK
<1>3. from # to
  BY <1>1
<1>4. /\ raw'[to] = raw[from]
      /\ valid'[to] = valid[from]
      /\ ~valid'[from]
  BY <1>1, <1>3 DEF Inv, TypeOK
<1>5. \A v \in Wrappers \ {from, to} : raw'[v] = raw[v] /\ valid'[v] = valid[v]
                                       /\ (v \in alive' <=> v \in alive)
  BY <1>1 DEF Inv, TypeOK
<1>6. NothingIsOrphaned'
  <2> SUFFICES ASSUME NEW p \in created, destroys[p] = 0
               PROVE  \E v \in Wrappers : v \in alive' /\ valid'[v] /\ raw'[v] = p
    BY <1>1 DEF NothingIsOrphaned, Owns
  <2>1. PICK v \in Wrappers : v \in alive /\ valid[v] /\ raw[v] = p
    BY DEF Inv, NothingIsOrphaned, Owns
  <2>2. CASE v = from
    BY <2>1, <2>2, <1>1, <1>4
  <2>3. CASE v # from
    <3>1. v # to
      BY <2>1, <1>1
    <3> QED
      BY <2>1, <2>3, <3>1, <1>5
  <2> QED
    BY <2>2, <2>3
<1>7. OneOwner'
  <2>1. \A v \in alive' : v \in Wrappers
    BY <1>2 DEF TypeOK
  <2>2. \A v \in alive' : valid'[v] => raw'[v] \in created /\ destroys[raw'[v]] = 0
    <3> SUFFICES ASSUME NEW v \in alive', valid'[v]
                 PROVE  raw'[v] \in created /\ destroys[raw'[v]] = 0
      OBVIOUS
    <3>1. CASE v = to
      BY <3>1, <1>1, <1>4 DEF Inv, OneOwner
    <3>2. CASE v # to
      <4>1. v # from
        BY <1>4
      <4> QED
        BY <3>2, <4>1, <2>1, <1>5 DEF Inv, OneOwner
    <3> QED
      BY <3>1, <3>2
  <2>3. \A u, v \in alive' : valid'[u] /\ valid'[v] /\ raw'[u] = raw'[v] => u = v
    <3> SUFFICES ASSUME NEW u \in alive', NEW v \in alive', valid'[u], valid'[v],
                        raw'[u] = raw'[v]
                 PROVE  u = v
      OBVIOUS
    <3>1. u # from /\ v # from
      BY <1>4
    <3>2. CASE u # to /\ v # to
      BY <3>1, <3>2, <2>1, <1>5 DEF Inv, OneOwner
    <3>3. CASE u = to /\ v # to
      <4>1. v \in alive /\ valid[v] /\ raw[v] = raw[from] /\ valid[from]
        BY <3>1, <3>3, <2>1, <1>4, <1>5
      <4> QED
        BY <4>1, <3>1, <1>1 DEF Inv, OneOwner
    <3>4. CASE u # to /\ v = to
      <4>1. u \in alive /\ valid[u] /\ raw[u] = raw[from] /\ valid[from]
        BY <3>1, <3>4, <2>1, <1>4, <1>5
      <4> QED
        BY <4>1, <3>1, <1>1 DEF Inv, OneOwner
    <3> QED
      BY <3>2, <3>3, <3>4
  <2>4. \A p \in Objects : destroys[p] <= 1
    BY DEF Inv, OneOwner
  <2> QED
    BY <1>1, <2>2, <2>3, <2>4 DEF OneOwner
<1>8. \A p \in Objects \ created' : destroys'[p] = 0
  BY <1>1 DEF Inv
<1>9. \A v \in Wrappers : ~delete_userdata'[v]
  BY <1>1 DEF Inv, TypeOK
<1>10. \A v \in Wrappers : user_data'[v] \in allocated' \cup {Null}
  BY <1>1 DEF Inv, TypeOK
<1>11. freed' = {}
  BY <1>1 DEF Inv
<1> QED
  BY <1>2, <1>6, <1>7, <1>8, <1>9, <1>10, <1>11 DEF Inv

LEMMA SetCallbacksInv ==
  ASSUME Inv, NEW w \in Wrappers, SetCallbacks(w)
  PROVE  Inv'
<1>1. PICK b \in Blocks \ allocated :
        allocated' = allocated \cup {b} /\ user_data' = [user_data EXCEPT ![w] = b]
  BY DEF SetCallbacks
<1>2. UNCHANGED <<alive, raw, valid, delete_userdata, created, destroys>>
  BY DEF SetCallbacks
<1>3. freed' = {}
  BY NothingIsDeleted DEF SetCallbacks, Inv
<1>4. TypeOK'
  BY <1>1, <1>2, <1>3 DEF Inv, TypeOK
<1>5. NothingIsOrphaned' /\ OneOwner'
  BY <1>2 DEF Inv, NothingIsOrphaned, OneOwner, Owns
<1>6. \A v \in Wrappers : user_data'[v] \in allocated' \cup {Null}
  BY <1>1 DEF Inv, TypeOK
<1> QED
  BY <1>2, <1>3, <1>4, <1>5, <1>6 DEF Inv

LEMMA DestroyInv ==
  ASSUME Inv, NEW w \in Wrappers, Destroy(w)
  PROVE  Inv'
<1>1. /\ w \in alive
      /\ alive' = alive \ {w}
      /\ destroys' = IF valid[w] THEN [destroys EXCEPT ![raw[w]] = @ + 1] ELSE destroys
      /\ UNCHANGED <<raw, valid, user_data, delete_userdata, created, allocated>>
  BY DEF Destroy
<1>2. freed' = {}
  BY NothingIsDeleted DEF Destroy, Inv
<1>3. TypeOK'
  BY <1>1, <1>2 DEF Inv, TypeOK
<1>4. raw[w] \in Objects
  BY DEF Inv, TypeOK
<1>5. CASE ~valid[w]
  <2>1. destroys' = destroys
    BY <1>1, <1>5
  <2>2. NothingIsOrphaned'
    BY <1>1, <1>5, <2>1 DEF Inv, NothingIsOrphaned, Owns
  <2>3. OneOwner'
    BY <1>1, <2>1 DEF Inv, OneOwner
  <2> QED
    BY <1>1, <1>2, <1>3, <2>1, <2>2, <2>3 DEF Inv
<1>6. CASE valid[w]
  <2>1. raw[w] \in created /\ destroys[raw[w]] = 0
    BY <1>1, <1>6 DEF Inv, OneOwner
  <2>2. destroys' = [destroys EXCEPT ![raw[w]] = @ + 1]
    BY <1>1, <1>6
  <2>3. destroys'[raw[w]] = 1
    BY <2>1, <2>2, <1>4 DEF Inv, TypeOK
  <2>4. \A p \in Objects \ {raw[w]} : destroys'[p] = destroys[p]
    BY <2>2 DEF Inv, TypeOK
  <2>5. NothingIsOrphaned'
    <3> SUFFICES ASSUME NEW p \in created, destroys'[p] = 0
                 PROVE  \E v \in Wrappers : v \in alive' /\ valid[v] /\ raw[v] = p
      BY <1>1 DEF NothingIsOrphaned, Owns
    <3>1. p # raw[w] /\ p \in Objects
      BY <2>3 DEF Inv, TypeOK
    <3>2. destroys[p] = 0
      BY <3>1, <2>4
    <3>3. PICK v \in Wrappers : v \in alive /\ valid[v] /\ raw[v] = p
      BY <3>2 DEF Inv, NothingIsOrphaned, Owns
    <3> QED
      BY <3>1, <3>3, <1>1
  <2>6. OneOwner'
    <3>1. \A p \in Objects : destroys'[p] <= 1
      BY <2>3, <2>4 DEF Inv, OneOwner
    <3>2. \A v \in alive' : valid[v] => raw[v] # raw[w]
      BY <1>1, <1>6 DEF Inv, OneOwner
    <3>3. \A v \in alive' : valid[v] => raw[v] \in created /\ destroys'[raw[v]] = 0
      BY <3>2, <2>4, <1>1 DEF Inv, OneOwner, TypeOK
    <3>4. \A u, v \in alive' : valid[u] /\ valid[v] /\ raw[u] = raw[v] => u = v
      BY <1>1 DEF Inv, OneOwner
    <3> QED
      BY <3>1, <3>3, <3>4, <1>1 DEF OneOwner
  <2>7. \A p \in Objects \ created' : destroys'[p] = 0
    BY <2>1, <2>4, <1>1 DEF Inv
  <2> QED
    BY <1>1, <1>2, <1>3, <2>5, <2>6, <2>7 DEF Inv
<1> QED
  BY <1>5, <1>6

THEOREM WrapperInvariant == Spec => []Inv
<1>1. Inv /\ [Next]_vars => Inv'
  <2> SUFFICES ASSUME Inv, [Next]_vars PROVE Inv'
    OBVIOUS
  <2>1. ASSUME NEW w \in Wrappers, Construct(w) PROVE Inv'
    BY <2>1, ConstructInv
  <2>2. ASSUME NEW from \in Wrappers, NEW to \in Wrappers, Move(from, to) PROVE Inv'
    BY <2>2, MoveInv
  <2>3. ASSUME NEW w \in Wrappers, SetCallbacks(w) PROVE Inv'
    BY <2>3, SetCallbacksInv
  <2>4. ASSUME NEW w \in Wrappers, Destroy(w) PROVE Inv'
    BY <2>4, DestroyInv
  <2>5. CASE UNCHANGED vars
    BY <2>5 DEF vars, Inv, TypeOK, NothingIsOrphaned, OneOwner, Owns
  <2> QED
    BY <2>1, <2>2, <2>3, <2>4, <2>5 DEF Next
<1> QED
  BY InitInv, <1>1, PTL DEF Spec

\* None of the callbacks that set_callbacks puts on the heap is ever deleted,
\* although the destructor and set_callbacks have "if (delete_userdata)" for it
\* (udcinput.hpp:113 and 144): no line sets that member.
THEOREM CallbacksAreNeverFreed == Spec => [](freed = {})
<1>1. Inv => freed = {}
  BY DEF Inv
<1> QED
  BY WrapperInvariant, <1>1, PTL

\* Types are never left, however many wrappers and structures there are.
THEOREM WrapperTypeCorrect == Spec => []TypeOK
<1>1. Inv => TypeOK
  BY DEF Inv
<1> QED
  BY WrapperInvariant, <1>1, PTL

\* Every structure that lives has a wrapper that will destroy it.
THEOREM StructuresAreOwned == Spec => []NothingIsOrphaned
<1>1. Inv => NothingIsOrphaned
  BY DEF Inv
<1> QED
  BY WrapperInvariant, <1>1, PTL

\* No structure has two owners or is destroyed twice.
THEOREM StructuresHaveOneOwner == Spec => []OneOwner
<1>1. Inv => OneOwner
  BY DEF Inv
<1> QED
  BY WrapperInvariant, <1>1, PTL
===============================================================================
