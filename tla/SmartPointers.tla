---------------------------- MODULE SmartPointers ----------------------------
(***************************************************************************)
(* kc::mem: OwningPtr, which owns an object in memory of an allocator, and *)
(* LocalPtr, which holds one inside of itself. Pointers are created, moved *)
(* from and into, converted, cleared and destroyed in any order.           *)
(*                                                                         *)
(* An OwningPtr<T> may hold an object of a class derived from T: it points *)
(* to the part of the object that is a T. ~T() destroys the whole object   *)
(* only if it is virtual, and deallocate() gets the address that           *)
(* allocate() has returned only if the part lies at the object's beginning.*)
(*                                                                         *)
(* These uses end badly, and are marked (misused):                         *)
(*  - converting an OwningPtr that owns an object to one of a base class   *)
(*    without a virtual destructor, or of one at an offset;                *)
(*  - assigning an OwningPtr that owns an object to itself, which leaves   *)
(*    it with freed memory;                                                *)
(*  - moving an empty LocalPtr, or into an empty one by assignment, which  *)
(*    leaves a pointer to a buffer without an object.                      *)
(* Assigning to an OwningPtr that owns an object is not one of them,       *)
(* although its destructor is never called (replaced).                     *)
(***************************************************************************)
EXTENDS FiniteSets

CONSTANTS
    Owning, Local,  \* the pointers
    Object, Allocator,
    Class,
    ClassOf,        \* of an object
    LocalClass,     \* the T of the LocalPtrs
    Base,           \* pairs: the first class is derived from the second one,
    Displaced,      \* ... which does not lie at the beginning of the first
    Virtual         \* the classes with a virtual destructor

VARIABLES
    objects,        \* "new", "alive", "dead", "partly" (only a base of it has been
                    \* destroyed) or "thrown" (its constructor has)
    memory,         \* who has allocated an object's memory, or "none", "freed"
    type,           \* the T of an OwningPtr, or "none" if there is no such pointer
    m_buffer,       \* of an OwningPtr: the object whose T it points to, or null;
                    \* of a LocalPtr: the object in its bytes, or null
    m_allocator,    \* of an OwningPtr
    m_pointer,      \* of a LocalPtr: whether it points to its buffer
    exist,          \* the pointers that have been created and not destroyed
    replaced,       \* history: the objects whose pointers have been assigned to
    misused,        \* history: one of the uses above has happened
    corrupted       \* a destructor or deallocate() has been called wrongly

pointerVars ==
    <<objects, memory, type, m_buffer, m_allocator, m_pointer, exist, replaced, misused, corrupted>>

null == "null"

ASSUME PointersAssumption ==
    /\ null \notin Object
    /\ Owning \cap Local = {}
    /\ Allocator \cap {"none", "freed"} = {}
    /\ ClassOf \in [Object -> Class] /\ "none" \notin Class
    /\ Base \subseteq Class \X Class /\ Displaced \subseteq Base
    /\ \A T \in Class : <<T, T>> \notin Base

\* The T in an object is where the object is; ~T() destroys all of it.
AtBeginning(o, T) == <<ClassOf[o], T>> \notin Displaced
DestroysAll(o, T) == T = ClassOf[o] \/ T \in Virtual

PointersInit ==
    /\ objects = [o \in Object |-> "new"] /\ memory = [o \in Object |-> "none"]
    /\ type = [p \in Owning |-> "none"]
    /\ m_buffer = [p \in Owning \cup Local |-> null]
    /\ m_allocator = [p \in Owning |-> null] /\ m_pointer = [p \in Local |-> FALSE]
    /\ exist = {} /\ replaced = {} /\ misused = FALSE /\ corrupted = FALSE

\* Nothing is claimed of what follows a misuse, and it is not explored.
Exists(p) == ~ (corrupted \/ misused) /\ p \in exist
Absent(p) == ~ (corrupted \/ misused) /\ p \notin exist

----------------------------------------------------------------------------
\* OwningPtr<T>(): also from nullptr.
OwningEmpty(p, T) ==
    /\ Absent(p) /\ exist' = exist \cup {p}
    /\ type' = [type EXCEPT ![p] = T]
    /\ m_buffer' = [m_buffer EXCEPT ![p] = null] /\ m_allocator' = [m_allocator EXCEPT ![p] = null]
    /\ UNCHANGED <<objects, memory, m_pointer, replaced, misused, corrupted>>

\* makeOwningPtr(): the object is constructed in memory of the allocator ...
makeOwningPtr(p, o, allocator) ==
    /\ Absent(p) /\ exist' = exist \cup {p}
    /\ objects[o] = "new" /\ objects' = [objects EXCEPT ![o] = "alive"]
    /\ memory' = [memory EXCEPT ![o] = allocator]
    /\ type' = [type EXCEPT ![p] = ClassOf[o]]
    /\ m_buffer' = [m_buffer EXCEPT ![p] = o]
    /\ m_allocator' = [m_allocator EXCEPT ![p] = allocator]
    /\ UNCHANGED <<m_pointer, replaced, misused, corrupted>>

\* ... or its constructor throws: nobody frees the memory.
makeOwningPtrThrows(p, o, allocator) ==
    /\ Absent(p)
    /\ objects[o] = "new" /\ objects' = [objects EXCEPT ![o] = "thrown"]
    /\ memory' = [memory EXCEPT ![o] = allocator]
    /\ UNCHANGED <<type, m_buffer, m_allocator, m_pointer, exist, replaced, misused, corrupted>>

\* m_buffer and m_allocator of q go to p, q gets null (std::exchange()).
TakeOver(p, q) ==
    /\ m_buffer' = [m_buffer EXCEPT ![q] = null, ![p] = m_buffer[q]]
    /\ m_allocator' = [m_allocator EXCEPT ![q] = null, ![p] = m_allocator[q]]

\* OwningPtr(OwningPtr&&).
OwningMove(p, q) ==
    /\ Absent(p) /\ exist' = exist \cup {p} /\ Exists(q)
    /\ type' = [type EXCEPT ![p] = type[q]]
    /\ TakeOver(p, q)
    /\ UNCHANGED <<objects, memory, m_pointer, replaced, misused, corrupted>>

\* Mutant: the other pointer keeps the object.
OwningConvertShares(p, q, T) ==
    /\ Absent(p) /\ exist' = exist \cup {p} /\ Exists(q)
    /\ <<type[q], T>> \in Base
    /\ type' = [type EXCEPT ![p] = T]
    /\ m_buffer' = [m_buffer EXCEPT ![p] = m_buffer[q]]
    /\ m_allocator' = [m_allocator EXCEPT ![p] = m_allocator[q]]
    /\ misused' = (misused \/ LET o == m_buffer[q]
                              IN o # null /\ ~ (AtBeginning(o, T) /\ DestroysAll(o, T)))
    /\ UNCHANGED <<objects, memory, m_pointer, replaced, corrupted>>

\* OwningPtr(OwningPtr<F>&&), F derived from T: of the object that q points to as
\* an F, p points to the T. The constructor asks for no more of F and T.
OwningConvert(p, q, T) ==
    /\ Absent(p) /\ exist' = exist \cup {p} /\ Exists(q)
    /\ <<type[q], T>> \in Base
    /\ type' = [type EXCEPT ![p] = T]
    /\ TakeOver(p, q)
    /\ misused' = (misused \/ LET o == m_buffer[q]
                              IN o # null /\ ~ (AtBeginning(o, T) /\ DestroysAll(o, T)))
    /\ UNCHANGED <<objects, memory, m_pointer, replaced, corrupted>>

\* deallocate(), with the address of the T that p points to: it is one that the
\* allocator has given out and nobody has returned, or worse.
Deallocates(p) == memory[m_buffer[p]] = m_allocator[p] /\ AtBeginning(m_buffer[p], type[p])

\* operator=(OwningPtr&&), both of one type (a pointer to a derived class is
\* converted first). The pointer takes over after the other one has been reset,
\* so that one assigned to itself gets its own value back.
OwningAssign(p, q) ==
    /\ Exists(p) /\ Exists(q) /\ type[p] = type[q]
    /\ LET o == m_buffer[p]
       IN IF o = null THEN UNCHANGED <<memory, replaced, misused, corrupted>>
          ELSE /\ memory' = [memory EXCEPT ![o] = "freed"]
               /\ corrupted' = ~ Deallocates(p)
               /\ replaced' = replaced \cup {o}
               /\ misused' = (misused \/ p = q)
    /\ TakeOver(p, q)
    /\ UNCHANGED <<objects, type, m_pointer, exist>>

\* OwningPtr::clear(): ~T(), then deallocate().
clear(p) ==
    /\ LET o == m_buffer[p]
       IN IF o = null THEN UNCHANGED <<objects, memory, corrupted>>
          ELSE /\ objects' = [objects EXCEPT ![o] =
                                IF DestroysAll(o, type[p]) THEN "dead" ELSE "partly"]
               /\ memory' = [memory EXCEPT ![o] = "freed"]
               /\ corrupted' = ~ (objects[o] = "alive" /\ Deallocates(p))
    /\ m_buffer' = [m_buffer EXCEPT ![p] = null]
    /\ UNCHANGED <<m_allocator, m_pointer, replaced, misused>>

OwningClear(p) == Exists(p) /\ clear(p) /\ UNCHANGED <<type, exist>>
OwningDestroy(p) ==
    Exists(p) /\ clear(p) /\ exist' = exist \ {p} /\ type' = [type EXCEPT ![p] = "none"]

----------------------------------------------------------------------------
\* LocalPtr::clear(), then an object o, or none (null), in the buffer. Only what
\* m_pointer says tells the code whether there is something to destroy.
Replace(p, o) ==
    /\ IF m_pointer[p] THEN corrupted' = (m_buffer[p] = null) ELSE UNCHANGED corrupted
    /\ objects' = [n \in Object |->
                     IF n = o THEN "alive"
                     ELSE IF m_pointer[p] /\ n = m_buffer[p] THEN "dead" ELSE objects[n]]
    /\ m_buffer' = [m_buffer EXCEPT ![p] = o]
    /\ m_pointer' = [m_pointer EXCEPT ![p] = o # null]
    /\ UNCHANGED <<memory, type, m_allocator, replaced, misused>>

\* LocalPtr(), and LocalPtr(args), which is an emplace().
LocalCreate(p, o) ==
    /\ Absent(p) /\ exist' = exist \cup {p}
    /\ o # null => objects[o] = "new" /\ ClassOf[o] = LocalClass
    /\ objects' = [n \in Object |-> IF n = o THEN "alive" ELSE objects[n]]
    /\ m_buffer' = [m_buffer EXCEPT ![p] = o] /\ m_pointer' = [m_pointer EXCEPT ![p] = o # null]
    /\ UNCHANGED <<memory, type, m_allocator, replaced, misused, corrupted>>

\* emplace(): clear() and a new object; nothing if its constructor throws.
emplace(p, o) ==
    /\ Exists(p)
    /\ o # null => objects[o] = "new" /\ ClassOf[o] = LocalClass
    /\ Replace(p, o)
    /\ UNCHANGED exist

LocalDestroy(p) == Exists(p) /\ Replace(p, null) /\ exist' = exist \ {p}

\* LocalPtr(LocalPtr&&): the bytes move, and the new pointer points to its own.
LocalMove(p, q) ==
    /\ Absent(p) /\ exist' = exist \cup {p} /\ Exists(q)
    /\ m_buffer' = [m_buffer EXCEPT ![p] = m_buffer[q], ![q] = null]
    /\ m_pointer' = [m_pointer EXCEPT ![p] = TRUE, ![q] = FALSE]
    /\ misused' = (misused \/ ~ m_pointer[q])
    /\ UNCHANGED <<objects, memory, type, m_allocator, replaced, corrupted>>

\* operator=(LocalPtr&&): the bytes are exchanged; the other pointer stays as
\* it is, so that it now destroys what this one held.
LocalAssign(p, q) ==
    /\ Exists(p) /\ Exists(q)
    /\ m_buffer' = [m_buffer EXCEPT ![p] = m_buffer[q], ![q] = m_buffer[p]]
    /\ m_pointer' = [m_pointer EXCEPT ![p] = TRUE]
    /\ misused' = (misused \/ ~ m_pointer[p] \/ ~ m_pointer[q])
    /\ UNCHANGED <<objects, memory, type, m_allocator, exist, replaced, corrupted>>

PointersNext ==
    \/ \E p \in Owning :
         \/ OwningClear(p) \/ OwningDestroy(p)
         \/ \E T \in Class : OwningEmpty(p, T)
         \/ \E o \in Object, allocator \in Allocator :
              makeOwningPtr(p, o, allocator) \/ makeOwningPtrThrows(p, o, allocator)
         \/ \E q \in Owning :
              \/ OwningMove(p, q) \/ OwningAssign(p, q)
              \/ \E T \in Class : OwningConvert(p, q, T)
    \/ \E p \in Local :
         \/ LocalDestroy(p)
         \/ \E o \in Object \cup {null} : LocalCreate(p, o) \/ emplace(p, o)
         \/ \E q \in Local : LocalMove(p, q) \/ LocalAssign(p, q)

PointersSpec == PointersInit /\ [][PointersNext]_pointerVars

----------------------------------------------------------------------------
\* The pointers that hold object o.
Holders(o) ==
    {p \in exist : m_buffer[p] = o /\ (p \in Local => m_pointer[p])}

\* Through every sequence of moves and conversions an object has one holder
\* while it is alive and none before and after. Its memory is freed once, with
\* the address and by the allocator it came from, and not before its destructor
\* has been called, once and for all of it; but for one object that is left in a
\* pointer which is assigned to: its memory is freed in the same way, its
\* destructor is never called. No other object is forgotten, and no memory but
\* that of an object whose constructor threw.
DestroyedOnce ==
    ~ misused =>
        /\ ~ corrupted
        /\ \A o \in Object :
             /\ Cardinality(Holders(o)) =
                    IF objects[o] = "alive" /\ o \notin replaced THEN 1 ELSE 0
             /\ memory[o] \in Allocator => objects[o] \in {"alive", "thrown"}
             /\ memory[o] = "freed" => (objects[o] = "dead" \/ o \in replaced)
             /\ o \in replaced => memory[o] = "freed" /\ objects[o] = "alive"
=============================================================================
