--------------------------- MODULE GuestObjectsProofs ---------------------------
(***************************************************************************)
(* Proofs about the objects and the files of the guest, for every bound,   *)
(* name and path.  The first half is about Objects: what each operation on *)
(* the store does to a store whose references, names and tables agree      *)
(* (Good), then that each handler keeps the invariant IInv.  The second    *)
(* half is about Files in the same way, with GoodFiles and FilesInv.  A    *)
(* part of the guest leaves the state of the other parts alone.            *)
(***************************************************************************)
EXTENDS Integers, GuestObjects, SequenceTheorems, FiniteSetTheorems, NaturalsInduction, TLAPS

-----------------------------------------------------------------------------
\* A name that is none, and the names of objects.
NoName == ""
ObjectNames == Names \cup {NoName, ProcessName}

\* A kernel object.
Object ==
  [type : AnyType, name : ObjectNames, ref : Int, signaled : BOOLEAN, manual : BOOLEAN,
   suspend : Nat, process : Nat, token : Nat, modified : BOOLEAN, cursor : Nat]

\* The tables name objects, and the token of an object is a token.  No handle is free to be given out again.
StoreOK(s) ==
  /\ s = [objects |-> s.objects, om |-> s.om, table |-> s.table, next |-> s.next, closed |-> <<>>]
  /\ s.objects \in Seq(Object) /\ s.om \subseteq Ids(s) /\ s.next \in Nat \ {0}
  /\ s.table = [h \in DOMAIN s.table |-> s.table[h]] /\ DOMAIN s.table \subseteq 1 .. (s.next - 1)
  /\ \A h \in DOMAIN s.table : s.table[h].object \in Ids(s)
  /\ \A o \in Ids(s) : s.objects[o].token # 0 =>
       s.objects[o].token \in Ids(s) /\ s.objects[s.objects[o].token].type = "token"

\* The handles of an object in a table.
HandlesIn(table, o) == {h \in DOMAIN table : table[h].object = o}

\* The references of an object r that has n handles; `known` says whether the object manager knows it.
Held(r, n, known) ==
  /\ r.type \in Sync => r.ref = n /\ (known <=> n > 0)
  /\ r.type \in {"process", "thread"} => known /\ r.ref >= n + 1
  /\ r.type = "token" => r.ref >= n

AllHeld(s) == \A o \in Ids(s) : Held(s.objects[o], Cardinality(HandlesIn(s.table, o)), o \in s.om)

\* No two objects of synchronization that the object manager knows have one name that a lookup can find.
NamesOK(s) ==
  \A o, x \in s.om : /\ s.objects[o].type \in Sync /\ s.objects[x].type \in Sync
                     /\ Findable(s.objects[o].name) /\ s.objects[o].name = s.objects[x].name
                     => o = x

Good(s) == StoreOK(s) /\ AllHeld(s) /\ NamesOK(s)

\* What no operation changes in an object.
Still(r, q) == q.type = r.type /\ q.name = r.name /\ q.process = r.process

\* From s to t objects and handles were added, and handles were closed.
Larger(s, t) ==
  /\ Len(s.objects) <= Len(t.objects) /\ s.next <= t.next
  /\ \A o \in Ids(s) : Still(s.objects[o], t.objects[o])
  /\ \A h \in DOMAIN t.table : h < s.next => h \in DOMAIN s.table /\ t.table[h] = s.table[h]

\* No thread was suspended or resumed.
SameCounts(s, t) == \A o \in Ids(s) : t.objects[o].suspend = s.objects[o].suspend
Grown(s, t) == Larger(s, t) /\ SameCounts(s, t)

-----------------------------------------------------------------------------
(* Objects and stores. *)

\* A reference count that is set.
LEMMA RefSet ==
  ASSUME NEW r \in Object, NEW i \in Int
  PROVE  LET q == [r EXCEPT !.ref = i]
         IN  q \in Object /\ Still(r, q) /\ q.ref = i /\ q.suspend = r.suspend /\ q.token = r.token
BY DEF Object, Still

\* A suspend count that is set.
LEMMA CountOf ==
  ASSUME NEW r \in Object, NEW i \in Nat
  PROVE  LET q == [r EXCEPT !.suspend = i]
         IN  q \in Object /\ Still(r, q) /\ q.ref = r.ref /\ q.suspend = i /\ q.token = r.token
BY DEF Object, Still

\* A token that is set.
LEMMA TokenSet ==
  ASSUME NEW r \in Object, NEW i \in Nat
  PROVE  LET q == [r EXCEPT !.token = i]
         IN  q \in Object /\ Still(r, q) /\ q.ref = r.ref /\ q.suspend = r.suspend /\ q.token = i
BY DEF Object, Still

\* A cursor that is set.
LEMMA CursorSet ==
  ASSUME NEW r \in Object, NEW i \in Nat
  PROVE  LET q == [r EXCEPT !.cursor = i]
         IN  q \in Object /\ Still(r, q) /\ q.ref = r.ref /\ q.suspend = r.suspend /\ q.token = r.token
BY DEF Object, Still

\* A flag that is set.
LEMMA SignalSet ==
  ASSUME NEW r \in Object, NEW b \in BOOLEAN
  PROVE  LET q == [r EXCEPT !.signaled = b]
         IN  q \in Object /\ Still(r, q) /\ q.ref = r.ref /\ q.suspend = r.suspend /\ q.token = r.token
BY DEF Object, Still

\* A flag that is set.
LEMMA ManualSet ==
  ASSUME NEW r \in Object, NEW b \in BOOLEAN
  PROVE  LET q == [r EXCEPT !.manual = b]
         IN  q \in Object /\ Still(r, q) /\ q.ref = r.ref /\ q.suspend = r.suspend /\ q.token = r.token
BY DEF Object, Still

\* A flag that is set.
LEMMA ModifiedSet ==
  ASSUME NEW r \in Object, NEW b \in BOOLEAN
  PROVE  LET q == [r EXCEPT !.modified = b]
         IN  q \in Object /\ Still(r, q) /\ q.ref = r.ref /\ q.suspend = r.suspend /\ q.token = r.token
BY DEF Object, Still

\* A new object.
LEMMA NewObject ==
  ASSUME NEW kind \in AnyType, NEW n \in ObjectNames
  PROVE  LET r == KernelObject(kind, n)
         IN  /\ r \in Object /\ r.type = kind /\ r.name = n /\ r.ref = 0 /\ r.suspend = 0 /\ r.process = 0
             /\ r.token = 0
<1> DEFINE r == KernelObject(kind, n)
<1>1. r = [type |-> kind, name |-> n, ref |-> 0, signaled |-> TRUE, manual |-> TRUE,
           suspend |-> 0, process |-> 0, token |-> 0, modified |-> FALSE, cursor |-> 0]
  BY DEF KernelObject
<1> HIDE DEF r
<1>2. r \in Object
  <2>1. 0 \in Nat OBVIOUS
  <2>2. \A x \in Nat : x \in Int OBVIOUS
  <2>3. TRUE \in BOOLEAN /\ FALSE \in BOOLEAN BY Zenon
  <2> QED BY <1>1, <2>1, <2>2, <2>3, Zenon DEF Object
<1>3. r.type = kind /\ r.name = n /\ r.ref = 0 /\ r.suspend = 0 /\ r.process = 0 /\ r.token = 0
  BY <1>1, Zenon
<1> QED BY <1>2, <1>3 DEF r

\* The parts of a store.
LEMMA StoreTypes ==
  ASSUME NEW s, StoreOK(s)
  PROVE  /\ Len(s.objects) \in Nat /\ DOMAIN s.objects = 1 .. Len(s.objects) /\ Ids(s) = 1 .. Len(s.objects)
         /\ \A o \in Ids(s) : /\ o \in Nat /\ o # 0 /\ s.objects[o] \in Object /\ s.objects[o].ref \in Int
                              /\ s.objects[o].type \in AnyType /\ s.objects[o].process \in Nat
                              /\ s.objects[o].token \in Nat /\ s.objects[o].suspend \in Nat
         /\ s.closed = <<>> /\ s.next \in Nat /\ s.next # 0
         /\ \A o : IsFiniteSet(HandlesIn(s.table, o)) /\ Cardinality(HandlesIn(s.table, o)) \in Nat
<1>1. Len(s.objects) \in Nat /\ DOMAIN s.objects = 1 .. Len(s.objects) /\ Ids(s) = 1 .. Len(s.objects)
  BY LenProperties DEF StoreOK, Ids
<1>2. \A o \in Ids(s) : s.objects[o] \in Object BY <1>1, ElementOfSeq DEF StoreOK
<1>3. \A r \in Object : r.ref \in Int /\ r.type \in AnyType /\ r.process \in Nat /\ r.token \in Nat /\ r.suspend \in Nat
  BY DEF Object
<1>4. s.closed = <<>> /\ s.next \in Nat /\ s.next # 0 BY DEF StoreOK
<1>5. ASSUME NEW o PROVE IsFiniteSet(HandlesIn(s.table, o)) /\ Cardinality(HandlesIn(s.table, o)) \in Nat
  <2>1. HandlesIn(s.table, o) \in SUBSET (1 .. (s.next - 1)) BY DEF HandlesIn, StoreOK
  <2>2. IsFiniteSet(1 .. (s.next - 1)) BY <1>4, FS_Interval
  <2> QED BY <2>1, <2>2, FS_Subset, FS_CardinalityType
<1> QED BY <1>1, <1>2, <1>3, <1>4, <1>5

\* A sequence of objects of which one is replaced.
LEMMA Replaced ==
  ASSUME NEW os \in Seq(Object), NEW o \in 1 .. Len(os), NEW r \in Object
  PROVE  LET t == [os EXCEPT ![o] = r]
         IN  /\ t \in Seq(Object) /\ Len(t) = Len(os)
             /\ \A x \in 1 .. Len(os) : t[x] = IF x = o THEN r ELSE os[x]
BY ExceptSeq

\* Objects that change without their references and names; a token that is set is one.
LEMMA OtherFields ==
  ASSUME NEW s, Good(s), NEW os \in Seq(Object), Len(os) = Len(s.objects),
         \A o \in Ids(s) : Still(s.objects[o], os[o]) /\ os[o].ref = s.objects[o].ref
                           /\ (os[o].token = s.objects[o].token
                               \/ (os[o].token \in Ids(s) /\ s.objects[os[o].token].type = "token"))
  PROVE  LET t == [s EXCEPT !.objects = os]
         IN  /\ Good(t) /\ Ids(t) = Ids(s) /\ t.objects = os /\ t.om = s.om /\ t.table = s.table /\ t.next = s.next
             /\ Larger(s, t) /\ ((\A o \in Ids(s) : os[o].suspend = s.objects[o].suspend) => Grown(s, t))
<1> DEFINE t == [s EXCEPT !.objects = os]
<1>1. t = [objects |-> os, om |-> s.om, table |-> s.table, next |-> s.next, closed |-> <<>>]
  BY DEF Good, StoreOK
<1> HIDE DEF t
<1>2. t.objects = os /\ t.om = s.om /\ t.table = s.table /\ t.next = s.next /\ t.closed = <<>> BY <1>1
<1>3. Ids(t) = Ids(s) BY <1>2 DEF Ids
<1>4. StoreOK(t)
  <2>1. \A o \in Ids(t) : t.objects[o].token # 0 =>
          t.objects[o].token \in Ids(t) /\ t.objects[t.objects[o].token].type = "token"
    BY <1>2, <1>3 DEF Good, StoreOK, Still
  <2> QED BY <1>1, <1>2, <1>3, <2>1 DEF Good, StoreOK
<1>5. AllHeld(t)
  BY <1>2, <1>3 DEF Good, AllHeld, Held, Still
<1>6. NamesOK(t)
  <2>1. s.om \subseteq Ids(s) BY DEF Good, StoreOK
  <2> QED BY <1>2, <2>1 DEF Good, NamesOK, Still
<1>7. Larger(s, t) /\ ((\A o \in Ids(s) : os[o].suspend = s.objects[o].suspend) => Grown(s, t))
  <2>1. Len(s.objects) \in Nat /\ s.next \in Nat BY StoreTypes DEF Good
  <2> QED BY <1>2, <1>3, <2>1 DEF Grown, Larger, SameCounts
<1> QED BY <1>2, <1>3, <1>4, <1>5, <1>6, <1>7 DEF t, Good

\* The store with one object more, and the objects that the object manager then knows.
Add(s, r, w) == [s EXCEPT !.objects = Append(@, r), !.om = w]

\* An object that is appended, and the object manager knows it or not: it has no handle, and the others are as before.
LEMMA Appended ==
  ASSUME NEW s, Good(s), NEW r \in Object, r.token = 0,
         NEW w, w = s.om \/ w = s.om \cup {Len(s.objects) + 1},
         r.type \in Sync => ~Findable(r.name) \/ \A x \in s.om : s.objects[x].name # r.name
  PROVE  LET t == Add(s, r, w)
             n == Len(s.objects) + 1
         IN  /\ StoreOK(t) /\ NamesOK(t) /\ Grown(s, t)
             /\ t = [objects |-> Append(s.objects, r), om |-> w, table |-> s.table, next |-> s.next, closed |-> <<>>]
             /\ n \in Ids(t) /\ \A o \in Ids(t) : o \in Ids(s) \/ o = n
             /\ Len(t.objects) = n /\ t.objects[n] = r /\ t.om = w /\ t.table = s.table /\ t.next = s.next
             /\ \A o \in Ids(s) : o # n /\ Held(t.objects[o], Cardinality(HandlesIn(t.table, o)), o \in t.om)
             /\ Cardinality(HandlesIn(t.table, n)) = 0
<1> DEFINE t == Add(s, r, w)
           n == Len(s.objects) + 1
           os == Append(s.objects, r)
<1>0. Good(s) /\ StoreOK(s) BY DEF Good
<1>1. t = [objects |-> os, om |-> w, table |-> s.table, next |-> s.next, closed |-> <<>>]
  <2>1. t = [s EXCEPT !.objects = os, !.om = w] BY DEF Add
  <2>2. s = [objects |-> s.objects, om |-> s.om, table |-> s.table, next |-> s.next, closed |-> <<>>]
    BY <1>0 DEF StoreOK
  <2> HIDE DEF os
  <2> DEFINE u == [s EXCEPT !.objects = os]
  <2>3. u = [objects |-> os, om |-> s.om, table |-> s.table, next |-> s.next, closed |-> <<>>] BY <2>2
  <2>4. t = [u EXCEPT !.om = w] BY <2>1
  <2> HIDE DEF u
  <2> QED BY <2>3, <2>4
<1>2. /\ Len(s.objects) \in Nat /\ Ids(s) = 1 .. Len(s.objects) /\ s.objects \in Seq(Object)
      /\ \A o \in Ids(s) : s.objects[o] \in Object
  BY <1>0, StoreTypes DEF StoreOK
<1>3. /\ os \in Seq(Object) /\ Len(os) = n
      /\ \A i \in Ids(s) : os[i] = s.objects[i]
      /\ os[n] = r
  BY <1>2, AppendProperties
<1> HIDE DEF t, os
<1>4. t.objects = os /\ t.om = w /\ t.table = s.table /\ t.next = s.next /\ t.closed = <<>> BY <1>1
<1>5. Ids(t) = 1 .. n /\ \A o \in Ids(t) : o \in Ids(s) \/ o = n BY <1>2, <1>3, <1>4 DEF Ids
<1>6. n \notin Ids(s) /\ Ids(s) \subseteq Ids(t) /\ n \in Ids(t) BY <1>2, <1>5
<1>7. s.om \subseteq w /\ w \subseteq s.om \cup {n} /\ s.om \subseteq Ids(s) BY <1>0 DEF StoreOK
<1>8. StoreOK(t)
  <2>1. w \subseteq Ids(t) BY <1>6, <1>7
  <2>2. \A h \in DOMAIN t.table : t.table[h].object \in Ids(t) BY <1>0, <1>4, <1>6 DEF StoreOK
  <2>3. ASSUME NEW o \in Ids(t), t.objects[o].token # 0
        PROVE  t.objects[o].token \in Ids(t) /\ t.objects[t.objects[o].token].type = "token"
    <3>1. o \in Ids(s) BY <2>3, <1>3, <1>4, <1>5
    <3>2. s.objects[o].token \in Ids(s) /\ s.objects[s.objects[o].token].type = "token"
      BY <3>1, <2>3, <1>0, <1>3, <1>4 DEF StoreOK
    <3> QED BY <3>1, <3>2, <1>3, <1>4, <1>6
  <2> QED BY <1>0, <1>1, <1>3, <1>4, <2>1, <2>2, <2>3 DEF StoreOK
<1>9. ASSUME NEW o \in Ids(s) PROVE o # n /\ Held(t.objects[o], Cardinality(HandlesIn(t.table, o)), o \in t.om)
  <2>1. t.objects[o] = s.objects[o] /\ t.table = s.table /\ (o \in t.om <=> o \in s.om) BY <1>3, <1>4, <1>6, <1>7
  <2>2. Held(s.objects[o], Cardinality(HandlesIn(s.table, o)), o \in s.om) BY <1>0 DEF Good, AllHeld
  <2> QED BY <2>1, <2>2, <1>6 DEF Held
<1>12. Cardinality(HandlesIn(t.table, n)) = 0
  <2>1. HandlesIn(t.table, n) = {} BY <1>0, <1>4, <1>6 DEF HandlesIn, StoreOK
  <2> QED BY <2>1, FS_EmptySet
<1>10. NamesOK(t)
  <2> SUFFICES ASSUME NEW o \in t.om, NEW x \in t.om, t.objects[o].type \in Sync, t.objects[x].type \in Sync,
                      Findable(t.objects[o].name), t.objects[o].name = t.objects[x].name
               PROVE  o = x
    BY DEF NamesOK
  <2>1. CASE o \in s.om /\ x \in s.om
    <3>1. t.objects[o] = s.objects[o] /\ t.objects[x] = s.objects[x] BY <1>3, <1>4, <1>7, <2>1
    <3> QED BY <1>0, <2>1, <3>1 DEF Good, NamesOK
  <2>2. CASE o = n /\ x \in s.om BY <1>3, <1>4, <1>7, <2>2
  <2>3. CASE x = n /\ o \in s.om BY <1>3, <1>4, <1>7, <2>3
  <2> QED BY <1>4, <1>7, <2>1, <2>2, <2>3
<1>11. Grown(s, t)
  <2>1. s.next \in Nat BY <1>0, StoreTypes
  <2> QED BY <1>2, <1>3, <1>4, <2>1 DEF Grown, Larger, SameCounts, Still
<1> QED BY <1>1, <1>3, <1>4, <1>5, <1>6, <1>8, <1>9, <1>10, <1>11, <1>12 DEF t, os, Good

\* An object that no handle is needed for.
LEMMA ObjectAppended ==
  ASSUME NEW s, Good(s), NEW r \in Object, r.token = 0, r.type \notin Sync,
         NEW w, w = s.om \/ w = s.om \cup {Len(s.objects) + 1},
         r.type \in {"process", "thread"} => Len(s.objects) + 1 \in w /\ r.ref >= 1,
         r.type = "token" => r.ref >= 0
  PROVE  LET t == Add(s, r, w)
             n == Len(s.objects) + 1
         IN  /\ Good(t) /\ Grown(s, t) /\ Len(t.objects) = n /\ n \in Ids(t) /\ t.objects[n] = r
             /\ t.om = w /\ t.table = s.table /\ t.next = s.next
<1> DEFINE t == Add(s, r, w)
           n == Len(s.objects) + 1
<1>0. r.type \in Sync => ~Findable(r.name) \/ \A x \in s.om : s.objects[x].name # r.name OBVIOUS
<1>1. /\ StoreOK(t) /\ NamesOK(t) /\ Grown(s, t)
      /\ n \in Ids(t) /\ \A o \in Ids(t) : o \in Ids(s) \/ o = n
      /\ Len(t.objects) = n /\ t.objects[n] = r /\ t.om = w /\ t.table = s.table /\ t.next = s.next
      /\ \A o \in Ids(s) : o # n /\ Held(t.objects[o], Cardinality(HandlesIn(t.table, o)), o \in t.om)
      /\ Cardinality(HandlesIn(t.table, n)) = 0
  BY <1>0, Appended
<1> HIDE DEF t
<1>2. Held(r, 0, n \in w)
  <2>1. r.ref \in Int BY DEF Object
  <2>2. Len(s.objects) \in Nat BY StoreTypes DEF Good
  <2> QED BY <2>1, <2>2 DEF Held
<1>3. AllHeld(t) BY <1>1, <1>2 DEF AllHeld
<1> QED BY <1>1, <1>3 DEF Good, t

\* The references of an object that gets a handle: the object manager knows it, also when it has no handle yet.
HeldKnown(r, n, known) ==
  /\ r.type \in Sync => r.ref = n /\ known
  /\ r.type \in {"process", "thread"} => known /\ r.ref >= n + 1
  /\ r.type = "token" => r.ref >= n
Ready(s, o) == HeldKnown(s.objects[o], Cardinality(HandlesIn(s.table, o)), o \in s.om)

\* A table with one handle more, and an object with the reference of a handle.
WithHandle(table, h, p, o) ==
  [x \in DOMAIN table \cup {h} |-> IF x = h THEN [process |-> p, object |-> o] ELSE table[x]]
Referred(r) == [r EXCEPT !.ref = IF r.type \in Counted THEN r.ref + 1 ELSE r.ref]

\* What new_handle makes of a store.
LEMMA NewHandleIs ==
  ASSUME NEW s, StoreOK(s), NEW p, NEW o
  PROVE  new_handle(s, p, o) =
           [objects |-> [s.objects EXCEPT ![o] = Referred(s.objects[o])], om |-> s.om,
            table |-> WithHandle(s.table, s.next, p, o), next |-> s.next + 1, closed |-> <<>>]
<1> DEFINE h == s.next
           tb == [x \in DOMAIN s.table \cup {h} |-> IF x = h THEN [process |-> p, object |-> o] ELSE s.table[x]]
           ref == IF s.objects[o].type \in Counted THEN s.objects[o].ref + 1 ELSE s.objects[o].ref
           os == [s.objects EXCEPT ![o] = [s.objects[o] EXCEPT !.ref = ref]]
           u == [s EXCEPT !.next = @ + 1]
<1>1. s.closed = <<>> BY DEF StoreOK
<1>2. u = [objects |-> s.objects, om |-> s.om, table |-> s.table, next |-> s.next + 1, closed |-> <<>>]
  BY DEF StoreOK
<1>3. new_handle(s, p, o) = [u EXCEPT !.table = tb, !.objects = os]
  BY <1>1 DEF new_handle, allocate_handle
<1>4. [u EXCEPT !.table = tb, !.objects = os] =
        [objects |-> os, om |-> s.om, table |-> tb, next |-> s.next + 1, closed |-> <<>>]
  <2> DEFINE v == [u EXCEPT !.table = tb]
  <2> HIDE DEF tb, os, u
  <2>1. v = [objects |-> s.objects, om |-> s.om, table |-> tb, next |-> s.next + 1, closed |-> <<>>] BY <1>2
  <2>2. [u EXCEPT !.table = tb, !.objects = os] = [v EXCEPT !.objects = os] OBVIOUS
  <2> HIDE DEF v
  <2> QED BY <2>1, <2>2
<1> QED BY <1>3, <1>4 DEF WithHandle, Referred

\* new_handle: the object gets one more handle, and one more reference if references are counted.
LEMMA HandleAdded ==
  ASSUME NEW s, StoreOK(s), NamesOK(s), NEW p, NEW o \in Ids(s), Ready(s, o),
         \A x \in Ids(s) : x # o => Held(s.objects[x], Cardinality(HandlesIn(s.table, x)), x \in s.om)
  PROVE  LET t == new_handle(s, p, o)
         IN  /\ Good(t) /\ Grown(s, t) /\ Ids(t) = Ids(s) /\ t.om = s.om /\ Len(t.objects) = Len(s.objects)
             /\ t.next = s.next + 1
<1> DEFINE t == new_handle(s, p, o)
           h == s.next
           tb == [x \in DOMAIN s.table \cup {h} |-> IF x = h THEN [process |-> p, object |-> o] ELSE s.table[x]]
           counted == s.objects[o].type \in Counted
           ref == IF counted THEN s.objects[o].ref + 1 ELSE s.objects[o].ref
           r == [s.objects[o] EXCEPT !.ref = ref]
           os == [s.objects EXCEPT ![o] = r]
<1>0. StoreOK(s) OBVIOUS
<1>1. /\ Len(s.objects) \in Nat /\ Ids(s) = 1 .. Len(s.objects) /\ s.objects \in Seq(Object)
      /\ s.objects[o] \in Object /\ s.objects[o].ref \in Int /\ s.closed = <<>> /\ s.next \in Nat /\ s.next # 0
      /\ s.objects[o].type \in AnyType
  BY <1>0, StoreTypes DEF StoreOK
<1>2. t = [objects |-> os, om |-> s.om, table |-> tb, next |-> s.next + 1, closed |-> <<>>]
  BY <1>0, NewHandleIs, ZenonT(60) DEF WithHandle, Referred
<1>3. r \in Object /\ Still(s.objects[o], r) /\ r.ref = ref /\ r.suspend = s.objects[o].suspend
      /\ r.token = s.objects[o].token
  <2>1. ref \in Int BY <1>1
  <2> HIDE DEF ref
  <2> QED BY <1>1, <2>1, RefSet
<1> HIDE DEF t, tb, r
<1>4. os \in Seq(Object) /\ Len(os) = Len(s.objects) /\ \A x \in Ids(s) : os[x] = IF x = o THEN r ELSE s.objects[x]
  BY <1>1, <1>3, Replaced
<1> HIDE DEF os
<1>5. t.objects = os /\ t.om = s.om /\ t.table = tb /\ t.next = s.next + 1 /\ t.closed = <<>> BY <1>2
<1>6. Ids(t) = Ids(s) BY <1>4, <1>5 DEF Ids
<1>7. DOMAIN tb = DOMAIN s.table \cup {h} /\ tb[h].object = o /\ h \notin DOMAIN s.table
      /\ (\A x \in DOMAIN s.table : tb[x] = s.table[x]) /\ tb = [x \in DOMAIN tb |-> tb[x]]
  <2>1. h \notin DOMAIN s.table /\ DOMAIN s.table \subseteq 1 .. (s.next - 1) BY <1>0, <1>1 DEF StoreOK
  <2> QED BY <2>1 DEF tb
<1>8. \A x \in Ids(s) : /\ Still(s.objects[x], os[x]) /\ os[x].suspend = s.objects[x].suspend
                        /\ os[x].token = s.objects[x].token
  BY <1>3, <1>4 DEF Still
<1>9. StoreOK(t)
  <2>1. DOMAIN tb \subseteq 1 .. ((s.next + 1) - 1) /\ s.next + 1 \in Nat \ {0} BY <1>0, <1>1, <1>7 DEF StoreOK
  <2>2. \A x \in DOMAIN tb : tb[x].object \in Ids(s) BY <1>0, <1>7 DEF StoreOK
  <2>3. \A x \in Ids(t) : t.objects[x].token # 0 =>
          t.objects[x].token \in Ids(t) /\ t.objects[t.objects[x].token].type = "token"
    BY <1>0, <1>5, <1>6, <1>8 DEF StoreOK, Still
  <2>4. s.om \subseteq Ids(t) BY <1>0, <1>6 DEF StoreOK
  <2>5. t = [objects |-> t.objects, om |-> t.om, table |-> t.table, next |-> t.next, closed |-> <<>>]
    BY <1>2, <1>5
  <2> QED BY <1>4, <1>5, <1>6, <1>7, <2>1, <2>2, <2>3, <2>4, <2>5 DEF StoreOK
<1>10. AllHeld(t)
  <2>1. ASSUME NEW x \in Ids(s), x # o PROVE Held(t.objects[x], Cardinality(HandlesIn(t.table, x)), x \in t.om)
    <3>1. HandlesIn(tb, x) = HandlesIn(s.table, x) BY <2>1, <1>7 DEF HandlesIn
    <3>2. t.objects[x] = s.objects[x] BY <2>1, <1>4, <1>5
    <3>3. Held(s.objects[x], Cardinality(HandlesIn(s.table, x)), x \in s.om) BY <2>1
    <3> QED BY <1>5, <3>1, <3>2, <3>3
  <2>2. Held(t.objects[o], Cardinality(HandlesIn(t.table, o)), o \in t.om)
    <3>1. HandlesIn(tb, o) = HandlesIn(s.table, o) \cup {h} BY <1>7 DEF HandlesIn
    <3>2. h \notin HandlesIn(s.table, o) BY <1>7 DEF HandlesIn
    <3>3. IsFiniteSet(HandlesIn(s.table, o)) /\ Cardinality(HandlesIn(s.table, o)) \in Nat BY <1>0, StoreTypes
    <3>4. Cardinality(HandlesIn(tb, o)) = Cardinality(HandlesIn(s.table, o)) + 1
      BY <3>1, <3>2, <3>3, FS_AddElement
    <3>5. HeldKnown(s.objects[o], Cardinality(HandlesIn(s.table, o)), o \in s.om) BY DEF Ready
    <3>6. t.objects[o] = r BY <1>4, <1>5
    <3>7. r.type = s.objects[o].type BY <1>3 DEF Still
    <3> DEFINE c == Cardinality(HandlesIn(s.table, o))
               d == Cardinality(HandlesIn(tb, o))
    <3> HIDE DEF c, d
    <3>8. c \in Nat /\ d = c + 1 /\ HeldKnown(s.objects[o], c, o \in s.om) BY <3>3, <3>4, <3>5 DEF c, d
    <3>9. Held(r, d, o \in s.om)
      BY <1>1, <1>3, <3>7, <3>8 DEF Held, HeldKnown, Counted, Sync
    <3> QED BY <1>5, <3>6, <3>9 DEF d
  <2> QED BY <1>6, <2>1, <2>2 DEF AllHeld
<1>11. NamesOK(t)
  <2>1. s.om \subseteq Ids(s) BY <1>0 DEF StoreOK
  <2> QED BY <1>5, <1>8, <2>1 DEF NamesOK, Still
<1>12. Grown(s, t)
  <2>1. \A x \in DOMAIN t.table : x < s.next => x \in DOMAIN s.table /\ t.table[x] = s.table[x]
    BY <1>1, <1>5, <1>7
  <2> QED BY <1>1, <1>4, <1>5, <1>8, <2>1 DEF Grown, Larger, SameCounts
<1> QED BY <1>4, <1>5, <1>6, <1>9, <1>10, <1>11, <1>12 DEF t, Good

\* A handle to an object that is alive.
LEMMA NewHandle ==
  ASSUME NEW s, Good(s), NEW p, NEW o \in Ids(s), s.objects[o].type \in Sync => o \in s.om
  PROVE  LET t == new_handle(s, p, o)
         IN  /\ Good(t) /\ Grown(s, t) /\ Ids(t) = Ids(s) /\ t.om = s.om /\ Len(t.objects) = Len(s.objects)
             /\ t.next = s.next + 1
<1>1. StoreOK(s) /\ NamesOK(s) /\ \A x \in Ids(s) : Held(s.objects[x], Cardinality(HandlesIn(s.table, x)), x \in s.om)
  BY DEF Good, AllHeld
<1>2. Ready(s, o) BY <1>1 DEF Ready, HeldKnown, Held
<1> QED BY <1>1, <1>2, HandleAdded

\* One reference more for an object that needs none for its name: a thread, a process.
LEMMA RefAdded ==
  ASSUME NEW s, Good(s), NEW o \in Ids(s), s.objects[o].type \in {"process", "thread"}
  PROVE  LET t == add_object(s, o)
         IN  Good(t) /\ Grown(s, t) /\ Ids(t) = Ids(s) /\ Len(t.objects) = Len(s.objects) /\ t.next = s.next
<1> DEFINE t == add_object(s, o)
           r == [s.objects[o] EXCEPT !.ref = @ + 1]
           os == [s.objects EXCEPT ![o] = r]
           w == s.om \cup {o}
<1>0. Good(s) /\ StoreOK(s) BY DEF Good
<1>1. /\ Len(s.objects) \in Nat /\ Ids(s) = 1 .. Len(s.objects) /\ s.objects \in Seq(Object)
      /\ s.objects[o] \in Object /\ s.objects[o].ref \in Int /\ s.next \in Nat
      /\ Cardinality(HandlesIn(s.table, o)) \in Nat
  BY <1>0, StoreTypes DEF StoreOK
<1>2. t = [objects |-> os, om |-> w, table |-> s.table, next |-> s.next, closed |-> <<>>]
  <2>1. t = [s EXCEPT !.objects = os, !.om = w] BY DEF add_object
  <2>2. s = [objects |-> s.objects, om |-> s.om, table |-> s.table, next |-> s.next, closed |-> <<>>]
    BY <1>0 DEF StoreOK
  <2> HIDE DEF os, w
  <2> DEFINE u == [s EXCEPT !.objects = os]
  <2>3. u = [objects |-> os, om |-> s.om, table |-> s.table, next |-> s.next, closed |-> <<>>] BY <2>2
  <2>4. t = [u EXCEPT !.om = w] BY <2>1
  <2> HIDE DEF u
  <2> QED BY <2>3, <2>4
<1>3. r \in Object /\ Still(s.objects[o], r) /\ r.ref = s.objects[o].ref + 1 /\ r.suspend = s.objects[o].suspend
      /\ r.token = s.objects[o].token
  <2> DEFINE i == s.objects[o].ref + 1
  <2>1. i \in Int BY <1>1
  <2>2. r = [s.objects[o] EXCEPT !.ref = i] OBVIOUS
  <2> HIDE DEF i, r
  <2>3. /\ [s.objects[o] EXCEPT !.ref = i] \in Object /\ Still(s.objects[o], [s.objects[o] EXCEPT !.ref = i])
        /\ [s.objects[o] EXCEPT !.ref = i].ref = i
        /\ [s.objects[o] EXCEPT !.ref = i].suspend = s.objects[o].suspend
        /\ [s.objects[o] EXCEPT !.ref = i].token = s.objects[o].token
    BY <1>1, <2>1, RefSet
  <2> QED BY <2>2, <2>3 DEF i
<1> HIDE DEF t, r
<1>4. os \in Seq(Object) /\ Len(os) = Len(s.objects) /\ \A x \in Ids(s) : os[x] = IF x = o THEN r ELSE s.objects[x]
  BY <1>1, <1>3, Replaced
<1> HIDE DEF os
<1>5. t.objects = os /\ t.om = w /\ t.table = s.table /\ t.next = s.next /\ t.closed = <<>> BY <1>2
<1>6. Ids(t) = Ids(s) BY <1>4, <1>5 DEF Ids
<1>7. \A x \in Ids(s) : /\ Still(s.objects[x], os[x]) /\ os[x].suspend = s.objects[x].suspend
                        /\ os[x].token = s.objects[x].token
  BY <1>3, <1>4 DEF Still
<1>8. Held(s.objects[o], Cardinality(HandlesIn(s.table, o)), o \in s.om) BY <1>0 DEF Good, AllHeld
<1>9. o \in s.om /\ w = s.om BY <1>8 DEF Held
<1>10. StoreOK(t)
  <2>1. \A x \in Ids(t) : t.objects[x].token # 0 =>
          t.objects[x].token \in Ids(t) /\ t.objects[t.objects[x].token].type = "token"
    BY <1>0, <1>5, <1>6, <1>7 DEF StoreOK, Still
  <2>2. t = [objects |-> t.objects, om |-> t.om, table |-> t.table, next |-> t.next, closed |-> <<>>]
    BY <1>2, <1>5
  <2> QED BY <1>0, <1>4, <1>5, <1>6, <1>9, <2>1, <2>2 DEF StoreOK
<1>11. AllHeld(t)
  <2>1. ASSUME NEW x \in Ids(s), x # o PROVE Held(t.objects[x], Cardinality(HandlesIn(t.table, x)), x \in t.om)
    <3>1. t.objects[x] = s.objects[x] BY <2>1, <1>4, <1>5
    <3> QED BY <1>0, <1>5, <1>9, <3>1 DEF Good, AllHeld
  <2>2. Held(t.objects[o], Cardinality(HandlesIn(t.table, o)), o \in t.om)
    <3>1. t.objects[o] = r /\ r.type = s.objects[o].type BY <1>3, <1>4, <1>5 DEF Still
    <3> DEFINE c == Cardinality(HandlesIn(s.table, o))
    <3>2. c \in Nat /\ Held(s.objects[o], c, o \in s.om) BY <1>1, <1>8
    <3> HIDE DEF c
    <3>3. Held(r, c, TRUE) BY <1>1, <1>3, <1>9, <3>1, <3>2 DEF Held, Sync
    <3> QED BY <1>5, <1>9, <3>1, <3>3 DEF c
  <2> QED BY <1>6, <2>1, <2>2 DEF AllHeld
<1>12. NamesOK(t)
  <2>1. s.om \subseteq Ids(s) BY <1>0 DEF StoreOK
  <2> QED BY <1>0, <1>5, <1>7, <1>9, <2>1 DEF Good, NamesOK, Still
<1>13. Grown(s, t) BY <1>1, <1>4, <1>5, <1>7 DEF Grown, Larger, SameCounts
<1> QED BY <1>4, <1>5, <1>6, <1>10, <1>11, <1>12, <1>13 DEF t, Good

\* close: the handle goes, with its reference, and an object without references leaves the object manager.
LEMMA Closed ==
  ASSUME NEW s, Good(s), NEW p, NEW h
  PROVE  LET t == close(s, p, h)
         IN  Good(t) /\ Grown(s, t) /\ Ids(t) = Ids(s) /\ Len(t.objects) = Len(s.objects) /\ t.next = s.next
<1>0. Good(s) /\ StoreOK(s) BY DEF Good
<1>1. Len(s.objects) \in Nat /\ s.next \in Nat BY <1>0, StoreTypes
<1>2. CASE get_pseudo_handle_object(h) # 0 \/ h \notin Open(s, p)
  <2>1. close(s, p, h) = s BY <1>2 DEF close
  <2>2. Grown(s, s) BY <1>1 DEF Grown, Larger, SameCounts, Still
  <2> QED BY <2>1, <2>2, <1>0
<1>3. CASE ~(get_pseudo_handle_object(h) # 0 \/ h \notin Open(s, p))
  <2> DEFINE t == close(s, p, h)
             o == s.table[h].object
             tb == [x \in DOMAIN s.table \ {h} |-> s.table[x]]
             counted == s.objects[o].type \in Counted
             r == [s.objects[o] EXCEPT !.ref = @ - 1]
             os == IF counted THEN [s.objects EXCEPT ![o] = r] ELSE s.objects
             w == IF counted /\ r.ref <= 0 THEN s.om \ {o} ELSE s.om
  <2>1. h \in DOMAIN s.table BY <1>3 DEF Open
  <2>2. /\ o \in Ids(s) /\ Ids(s) = 1 .. Len(s.objects) /\ s.objects \in Seq(Object)
        /\ s.objects[o] \in Object /\ s.objects[o].ref \in Int /\ s.objects[o].type \in AnyType
    BY <1>0, <2>1, StoreTypes DEF StoreOK
  <2>3. r \in Object /\ Still(s.objects[o], r) /\ r.ref = s.objects[o].ref - 1 /\ r.suspend = s.objects[o].suspend
        /\ r.token = s.objects[o].token
    <3>1. s.objects[o].ref - 1 \in Int BY <2>2
    <3> DEFINE i == s.objects[o].ref - 1
    <3>2. r = [s.objects[o] EXCEPT !.ref = i] OBVIOUS
    <3> HIDE DEF i, r
    <3>3. /\ [s.objects[o] EXCEPT !.ref = i] \in Object /\ Still(s.objects[o], [s.objects[o] EXCEPT !.ref = i])
          /\ [s.objects[o] EXCEPT !.ref = i].ref = i
          /\ [s.objects[o] EXCEPT !.ref = i].suspend = s.objects[o].suspend
          /\ [s.objects[o] EXCEPT !.ref = i].token = s.objects[o].token
      BY <2>2, <3>1, RefSet DEF i
    <3> QED BY <3>2, <3>3 DEF i
  <2>4. t = [objects |-> os, om |-> w, table |-> tb, next |-> s.next, closed |-> <<>>]
    <3> DEFINE u == [objects |-> s.objects, om |-> s.om, table |-> tb, next |-> s.next, closed |-> <<>>]
               qs == [s.objects EXCEPT ![o] = r]
               v == [objects |-> qs, om |-> s.om, table |-> tb, next |-> s.next, closed |-> <<>>]
    <3>1. free_handle([s EXCEPT !.table = Restrict(@, DOMAIN @ \ {h})], h) = u
      <4>1. [s EXCEPT !.table = Restrict(@, DOMAIN @ \ {h})] = [s EXCEPT !.table = tb] BY DEF Restrict
      <4>2. s = [objects |-> s.objects, om |-> s.om, table |-> s.table, next |-> s.next, closed |-> <<>>]
        BY <1>0 DEF StoreOK
      <4> HIDE DEF tb
      <4>3. [s EXCEPT !.table = tb] = u BY <4>2
      <4> QED BY <4>1, <4>3 DEF free_handle, REUSE_CLOSED_HANDLES
    <3>2. t = IF counted THEN dec_ref(u, o) ELSE u BY <1>3, <3>1 DEF close
    <3>3. [u EXCEPT !.objects[o].ref = @ - 1] = v
      <4>1. [u EXCEPT !.objects[o].ref = @ - 1] = [u EXCEPT !.objects = qs]
        <5>1. u.objects = s.objects OBVIOUS
        <5> HIDE DEF u, tb
        <5> QED BY <5>1
      <4> HIDE DEF tb, qs
      <4> QED BY <4>1
    <3>4. v.objects[o] = r BY <2>2
    <3>5. dec_ref(u, o) = IF r.ref <= 0 THEN remove_object(v, o) ELSE v
      <4> HIDE DEF u, v, r
      <4> QED BY <3>3, <3>4 DEF dec_ref
    <3>6. remove_object(v, o) =
            [objects |-> qs, om |-> s.om \ {o}, table |-> tb, next |-> s.next, closed |-> <<>>]
      <4> HIDE DEF tb, qs
      <4> QED BY DEF remove_object, v
    <3>7. CASE counted /\ r.ref <= 0
      <4>1. os = qs /\ w = s.om \ {o} BY <3>7
      <4>2. t = remove_object(v, o) BY <3>7, <3>2, <3>5
      <4> HIDE DEF t, os, w, v, u, tb, qs
      <4> QED BY <3>6, <4>1, <4>2
    <3>8. CASE counted /\ ~(r.ref <= 0)
      <4>1. os = qs /\ w = s.om BY <3>8
      <4>2. t = v BY <3>8, <3>2, <3>5
      <4> HIDE DEF t, os, w, u, tb, qs
      <4> QED BY <4>1, <4>2
    <3>9. CASE ~counted
      <4>1. os = s.objects /\ w = s.om BY <3>9
      <4>2. t = u BY <3>9, <3>2
      <4> HIDE DEF t, os, w, tb, r
      <4> QED BY <4>1, <4>2
    <3> QED BY <3>7, <3>8, <3>9
  <2> HIDE DEF t, r
  <2>5. os \in Seq(Object) /\ Len(os) = Len(s.objects)
        /\ \A x \in Ids(s) : os[x] = IF counted /\ x = o THEN r ELSE s.objects[x]
    <3> DEFINE qs == [s.objects EXCEPT ![o] = r]
    <3>1. s.objects \in Seq(Object) /\ o \in 1 .. Len(s.objects) /\ r \in Object BY <2>2, <2>3
    <3> HIDE DEF r, o, counted
    <3>2. /\ qs \in Seq(Object) /\ Len(qs) = Len(s.objects)
          /\ \A x \in 1 .. Len(s.objects) : qs[x] = IF x = o THEN r ELSE s.objects[x]
      BY <3>1, Replaced
    <3>3. CASE counted
      <4>1. os = qs BY <3>3
      <4> HIDE DEF qs, os
      <4> QED BY <4>1, <3>2, <3>3, <2>2
    <3>4. CASE ~counted
      <4>1. os = s.objects BY <3>4
      <4> HIDE DEF qs, os
      <4> QED BY <4>1, <3>1, <3>4, <2>2
    <3> QED BY <3>3, <3>4
  <2> HIDE DEF os
  <2>6. t.objects = os /\ t.om = w /\ t.table = tb /\ t.next = s.next /\ t.closed = <<>> BY <2>4
  <2>7. Ids(t) = Ids(s) BY <2>5, <2>6 DEF Ids
  <2>8. \A x \in Ids(s) : /\ Still(s.objects[x], os[x]) /\ os[x].suspend = s.objects[x].suspend
                          /\ os[x].token = s.objects[x].token
    BY <2>3, <2>5 DEF Still
  <2>9. w \subseteq s.om /\ (\A x \in s.om : x # o => x \in w) /\ (o \in w <=> o \in s.om /\ ~(counted /\ r.ref <= 0))
    OBVIOUS
  <2>10. DOMAIN tb = DOMAIN s.table \ {h} /\ (\A x \in DOMAIN tb : tb[x] = s.table[x])
         /\ tb = [x \in DOMAIN tb |-> tb[x]]
    OBVIOUS
  <2> HIDE DEF tb, w
  <2>11. StoreOK(t)
    <3>1. DOMAIN tb \subseteq 1 .. (s.next - 1) /\ \A x \in DOMAIN tb : tb[x].object \in Ids(s)
      BY <1>0, <2>10 DEF StoreOK
    <3>2. \A x \in Ids(t) : t.objects[x].token # 0 =>
            t.objects[x].token \in Ids(t) /\ t.objects[t.objects[x].token].type = "token"
      BY <1>0, <2>6, <2>7, <2>8 DEF StoreOK, Still
    <3>3. t = [objects |-> t.objects, om |-> t.om, table |-> t.table, next |-> t.next, closed |-> <<>>]
      BY <2>4, <2>6
    <3>4. w \subseteq Ids(t) /\ s.next \in Nat \ {0} BY <1>0, <2>7, <2>9 DEF StoreOK
    <3> QED BY <2>5, <2>6, <2>7, <2>10, <3>1, <3>2, <3>3, <3>4 DEF StoreOK
  <2>12. AllHeld(t)
    <3>1. ASSUME NEW x \in Ids(s), x # o PROVE Held(t.objects[x], Cardinality(HandlesIn(t.table, x)), x \in t.om)
      <4>1. HandlesIn(tb, x) = HandlesIn(s.table, x) BY <3>1, <2>10 DEF HandlesIn
      <4>2. t.objects[x] = s.objects[x] /\ (x \in t.om <=> x \in s.om) BY <3>1, <2>5, <2>6, <2>9
      <4>3. Held(s.objects[x], Cardinality(HandlesIn(s.table, x)), x \in s.om) BY <1>0 DEF Good, AllHeld
      <4> QED BY <2>6, <4>1, <4>2, <4>3 DEF Held
    <3>2. Held(t.objects[o], Cardinality(HandlesIn(t.table, o)), o \in t.om)
      <4>1. h \in HandlesIn(s.table, o) BY <2>1 DEF HandlesIn
      <4>2. HandlesIn(tb, o) = HandlesIn(s.table, o) \ {h} BY <2>10 DEF HandlesIn
      <4>3. IsFiniteSet(HandlesIn(s.table, o)) /\ Cardinality(HandlesIn(s.table, o)) \in Nat
            /\ Cardinality(HandlesIn(tb, o)) \in Nat
        BY <1>0, <2>6, <2>11, StoreTypes
      <4>4. Cardinality(HandlesIn(tb, o)) = Cardinality(HandlesIn(s.table, o)) - 1
        BY <4>1, <4>2, <4>3, FS_RemoveElement
      <4>5. Held(s.objects[o], Cardinality(HandlesIn(s.table, o)), o \in s.om) BY <1>0, <2>2 DEF Good, AllHeld
      <4> DEFINE c == Cardinality(HandlesIn(s.table, o))
                 d == Cardinality(HandlesIn(tb, o))
      <4>6. c \in Nat /\ d \in Nat /\ d = c - 1 /\ Held(s.objects[o], c, o \in s.om) BY <4>3, <4>4, <4>5
      <4> HIDE DEF c, d
      <4>7. r.type = s.objects[o].type BY <2>3 DEF Still
      <4>8. CASE counted
        <5>1. t.objects[o] = r BY <4>8, <2>2, <2>5, <2>6
        <5> DEFINE i == s.objects[o].ref
        <5>2. i \in Int /\ r.ref = i - 1 /\ (o \in w <=> o \in s.om /\ ~(r.ref <= 0))
          BY <4>8, <2>2, <2>3, <2>9
        <5>3. /\ r.type \in Sync => i = c /\ (o \in s.om <=> c > 0)
              /\ r.type \in {"process", "thread"} => o \in s.om /\ i >= c + 1
              /\ r.type = "token" => i >= c
          BY <4>6, <4>7 DEF Held
        <5> HIDE DEF i
        <5>4. r.type \in Sync => r.ref = d /\ (o \in w <=> d > 0) BY <4>6, <5>2, <5>3
        <5>5. r.type \in {"process", "thread"} => o \in w /\ r.ref >= d + 1 BY <4>6, <5>2, <5>3
        <5>6. r.type = "token" => r.ref >= d BY <4>6, <5>2, <5>3
        <5>7. Held(r, d, o \in w) BY <5>4, <5>5, <5>6 DEF Held
        <5> QED BY <2>6, <5>1, <5>7 DEF d
      <4>9. CASE ~counted
        <5>1. t.objects[o] = s.objects[o] BY <4>9, <2>2, <2>5, <2>6
        <5>2. Held(s.objects[o], d, o \in w) BY <4>9 DEF Held, Sync, Counted
        <5> QED BY <2>6, <5>1, <5>2 DEF d
      <4> QED BY <4>8, <4>9
    <3> QED BY <2>7, <3>1, <3>2 DEF AllHeld
  <2>13. NamesOK(t)
    <3>1. s.om \subseteq Ids(s) BY <1>0 DEF StoreOK
    <3> QED BY <1>0, <2>6, <2>8, <2>9, <3>1 DEF Good, NamesOK, Still
  <2>14. Grown(s, t) BY <1>1, <2>5, <2>6, <2>8, <2>10 DEF Grown, Larger, SameCounts
  <2> QED BY <2>5, <2>6, <2>7, <2>11, <2>12, <2>13, <2>14 DEF t, Good
<1> QED BY <1>2, <1>3

\* Adding is transitive.
LEMMA LargerOn ==
  ASSUME NEW s, NEW t, NEW u, StoreOK(s), StoreOK(t), StoreOK(u), Larger(s, t), Larger(t, u)
  PROVE  Larger(s, u) /\ Ids(s) \subseteq Ids(t)
<1>1. /\ Len(s.objects) \in Nat /\ Len(t.objects) \in Nat /\ Len(u.objects) \in Nat
      /\ Ids(s) = 1 .. Len(s.objects) /\ Ids(t) = 1 .. Len(t.objects)
      /\ s.next \in Nat /\ t.next \in Nat /\ u.next \in Nat
  BY StoreTypes
<1>2. Len(s.objects) <= Len(u.objects) /\ s.next <= u.next BY <1>1 DEF Larger
<1>3. Ids(s) \subseteq Ids(t) BY <1>1 DEF Larger
<1>4. \A o \in Ids(s) : Still(s.objects[o], u.objects[o]) BY <1>3 DEF Larger, Still
<1>5. ASSUME NEW h \in DOMAIN u.table, h < s.next PROVE h \in DOMAIN s.table /\ u.table[h] = s.table[h]
  <2>1. h \in 1 .. (u.next - 1) BY DEF StoreOK
  <2>2. h < t.next BY <1>1, <1>5, <2>1 DEF Larger
  <2> QED BY <1>5, <2>2 DEF Larger
<1> QED BY <1>2, <1>3, <1>4, <1>5 DEF Larger

LEMMA GrownOn ==
  ASSUME NEW s, NEW t, NEW u, StoreOK(s), StoreOK(t), StoreOK(u), Grown(s, t), Grown(t, u)
  PROVE  Grown(s, u)
<1>1. Larger(s, u) /\ Ids(s) \subseteq Ids(t) BY LargerOn DEF Grown
<1>2. SameCounts(s, u) BY <1>1 DEF Grown, SameCounts
<1> QED BY <1>1, <1>2 DEF Grown

\* The last object of a sequence is replaced.
LEMMA LastSet ==
  ASSUME NEW os \in Seq(Object), NEW a \in Object, NEW b \in Object
  PROVE  [Append(os, a) EXCEPT ![Len(os) + 1] = b] = Append(os, b)
<1> DEFINE n == Len(os) + 1
           c == Append(os, a)
           d == [c EXCEPT ![n] = b]
           e == Append(os, b)
<1>1. Len(os) \in Nat BY LenProperties
<1>2. c \in Seq(Object) /\ Len(c) = n /\ (\A i \in 1 .. Len(os) : c[i] = os[i]) BY AppendProperties
<1>3. e \in Seq(Object) /\ Len(e) = n /\ (\A i \in 1 .. Len(os) : e[i] = os[i]) /\ e[n] = b BY AppendProperties
<1> HIDE DEF c, e
<1>4. d \in Seq(Object) /\ Len(d) = n /\ \A i \in 1 .. n : d[i] = IF i = n THEN b ELSE c[i]
  BY <1>1, <1>2, Replaced
<1> HIDE DEF d
<1>5. \A i \in 1 .. n : d[i] = e[i] BY <1>1, <1>2, <1>3, <1>4
<1>6. d = e BY <1>3, <1>4, <1>5, SeqEqual
<1> QED BY <1>6 DEF c, d, e

\* A new object whose handle takes its reference over is one whose handle is its reference.
LEMMA NewObjectHandleIs ==
  ASSUME NEW s, Good(s), NEW r \in Object, r.token = 0, r.ref = 0,
         r.type \in Sync, ~Findable(r.name) \/ \A x \in s.om : s.objects[x].name # r.name
  PROVE  _new_object_handle(s, r) =
           new_handle(Add(s, r, s.om \cup {Len(s.objects) + 1}), cur.process, Len(s.objects) + 1)
<1> DEFINE n == Len(s.objects) + 1
           w == s.om \cup {n}
           q == [r EXCEPT !.ref = 1]
           q2 == [q EXCEPT !.ref = 2]
           a == Add(s, r, w)
           b == Add(s, q, w)
           tb == WithHandle(s.table, s.next, cur.process, n)
           Result(os) == [objects |-> os, om |-> w, table |-> tb, next |-> s.next + 1, closed |-> <<>>]
<1>0. Good(s) /\ StoreOK(s) /\ s.objects \in Seq(Object) /\ Len(s.objects) \in Nat
  BY StoreTypes DEF Good, StoreOK
<1>1. q \in Object /\ q.type = r.type /\ q.name = r.name /\ q.ref = 1 /\ q.token = 0
  <2>1. 1 \in Int OBVIOUS
  <2> QED BY <2>1, RefSet DEF Still
<1>2. q2 \in Object /\ q2.type = r.type /\ q2.ref = 2
  <2> HIDE DEF q
  <2>1. 2 \in Int OBVIOUS
  <2> QED BY <1>1, <2>1, RefSet DEF Still
<1>3. [r EXCEPT !.ref = r.ref + 1] = q /\ Referred(r) = q BY DEF Referred, Sync, Counted
<1>4. Referred(q) = q2
  <2> HIDE DEF q
  <2>1. q.type \in Counted /\ q.ref + 1 = 2 BY <1>1 DEF Sync, Counted
  <2> QED BY <2>1 DEF Referred
<1>5. [q2 EXCEPT !.ref = q2.ref - 1] = q
  <2>1. q2.ref - 1 = 1 BY <1>2
  <2>2. [q2 EXCEPT !.ref = 1] = q BY DEF Object
  <2> HIDE DEF q, q2
  <2> QED BY <2>1, <2>2
<1> HIDE DEF q, q2
<1>6. [Append(s.objects, r) EXCEPT ![n] = q] = Append(s.objects, q)
      /\ [Append(s.objects, q) EXCEPT ![n] = q2] = Append(s.objects, q2)
      /\ [Append(s.objects, q2) EXCEPT ![n] = q] = Append(s.objects, q)
  BY <1>0, <1>1, <1>2, LastSet
<1>7. /\ Append(s.objects, r)[n] = r /\ Append(s.objects, q)[n] = q /\ Append(s.objects, q2)[n] = q2
  BY <1>0, <1>1, <1>2, AppendProperties
<1>8. /\ StoreOK(a) /\ a.objects = Append(s.objects, r) /\ a.om = w /\ a.table = s.table /\ a.next = s.next
      /\ StoreOK(b) /\ b.objects = Append(s.objects, q) /\ b.om = w /\ b.table = s.table /\ b.next = s.next
  <2>1. w = s.om \/ w = s.om \cup {n} OBVIOUS
  <2>2. StoreOK(a) /\ a = [objects |-> Append(s.objects, r), om |-> w, table |-> s.table, next |-> s.next, closed |-> <<>>]
    <3> HIDE DEF w
    <3> QED BY <1>0, <2>1, Appended
  <2>3. r.type \in Sync => ~Findable(q.name) \/ \A x \in s.om : s.objects[x].name # q.name BY <1>1
  <2>4. StoreOK(b) /\ b = [objects |-> Append(s.objects, q), om |-> w, table |-> s.table, next |-> s.next, closed |-> <<>>]
    <3> HIDE DEF w
    <3> QED BY <1>0, <1>1, <2>1, <2>3, Appended
  <2> HIDE DEF a, b
  <2> QED BY <2>2, <2>4
<1> HIDE DEF a, b
<1>9. new_handle(a, cur.process, n) = Result(Append(s.objects, q))
  <2>1. StoreOK(a) BY <1>8
  <2>2. new_handle(a, cur.process, n) =
          [objects |-> [a.objects EXCEPT ![n] = Referred(a.objects[n])], om |-> a.om,
           table |-> WithHandle(a.table, a.next, cur.process, n), next |-> a.next + 1, closed |-> <<>>]
    BY <2>1, NewHandleIs
  <2>3. [a.objects EXCEPT ![n] = Referred(a.objects[n])] = Append(s.objects, q) BY <1>3, <1>6, <1>7, <1>8
  <2> HIDE DEF w, n
  <2> QED BY <1>8, <2>2, <2>3
<1>10. new_handle(b, cur.process, n) = Result(Append(s.objects, q2))
  <2>1. StoreOK(b) BY <1>8
  <2>2. new_handle(b, cur.process, n) =
          [objects |-> [b.objects EXCEPT ![n] = Referred(b.objects[n])], om |-> b.om,
           table |-> WithHandle(b.table, b.next, cur.process, n), next |-> b.next + 1, closed |-> <<>>]
    BY <2>1, NewHandleIs
  <2>3. [b.objects EXCEPT ![n] = Referred(b.objects[n])] = Append(s.objects, q2) BY <1>4, <1>6, <1>7, <1>8
  <2> HIDE DEF w, n
  <2> QED BY <1>8, <2>2, <2>3
<1>11. new_object(s, r) = b
  <2> DEFINE u == [s EXCEPT !.objects = Append(@, r)]
             v == [u EXCEPT !.objects = [u.objects EXCEPT ![n] = q]]
  <2>1. u = [objects |-> Append(s.objects, r), om |-> s.om, table |-> s.table, next |-> s.next, closed |-> <<>>]
    <3> DEFINE os == Append(s.objects, r)
    <3>1. s = [objects |-> s.objects, om |-> s.om, table |-> s.table, next |-> s.next, closed |-> <<>>]
      BY <1>0 DEF StoreOK
    <3> HIDE DEF os
    <3> QED BY <3>1
  <2>2. u.objects = Append(s.objects, r) /\ u.om = s.om BY <2>1
  <2> HIDE DEF u
  <2>3. add_object(u, n) = [u EXCEPT !.objects = Append(s.objects, q), !.om = w]
    <3>1. [u.objects EXCEPT ![n] = [u.objects[n] EXCEPT !.ref = u.objects[n].ref + 1]] = Append(s.objects, q)
      BY <1>3, <1>6, <1>7, <2>2
    <3>2. add_object(u, n) =
            [u EXCEPT !.objects = [u.objects EXCEPT ![n] = [u.objects[n] EXCEPT !.ref = u.objects[n].ref + 1]],
                      !.om = u.om \cup {n}]
      BY DEF add_object
    <3> QED BY <3>1, <3>2, <2>2
  <2>4. [u EXCEPT !.objects = Append(s.objects, q), !.om = w] = b
    <3> DEFINE os == Append(s.objects, q)
               x == [u EXCEPT !.objects = os]
    <3>1. x = [objects |-> os, om |-> s.om, table |-> s.table, next |-> s.next, closed |-> <<>>]
      <4> HIDE DEF os
      <4> QED BY <2>1
    <3>2. [u EXCEPT !.objects = os, !.om = w] = [x EXCEPT !.om = w] OBVIOUS
    <3>3. b = [objects |-> os, om |-> w, table |-> s.table, next |-> s.next, closed |-> <<>>]
      BY <1>8 DEF StoreOK
    <3> DEFINE y == [x EXCEPT !.om = w]
    <3> HIDE DEF x, os, w
    <3>4. y = b BY <3>1, <3>3
    <3> QED BY <3>2, <3>4 DEF os, y
  <2> QED BY <2>3, <2>4 DEF new_object, u
<1>12. dec_ref(Result(Append(s.objects, q2)), n) = Result(Append(s.objects, q))
  <2> DEFINE c == Result(Append(s.objects, q2))
             d == Result(Append(s.objects, q))
  <2>1. c.objects = Append(s.objects, q2) OBVIOUS
  <2>2. [c EXCEPT !.objects[n].ref = @ - 1] = [c EXCEPT !.objects = Append(s.objects, q)]
    <3> HIDE DEF c
    <3> QED BY <1>5, <1>6, <1>7, <2>1
  <2>3. [c EXCEPT !.objects = Append(s.objects, q)] = d
    <3> DEFINE os == Append(s.objects, q)
               os2 == Append(s.objects, q2)
    <3> HIDE DEF os, os2, w, tb
    <3>1. [Result(os2) EXCEPT !.objects = os] = Result(os) OBVIOUS
    <3> QED BY <3>1 DEF os, os2
  <2>4. d.objects[n].ref = 1 BY <1>1, <1>7
  <2> HIDE DEF c, d
  <2> DEFINE e == [c EXCEPT !.objects[n].ref = @ - 1]
  <2>5. e = d BY <2>2, <2>3
  <2>6. dec_ref(c, n) = IF e.objects[n].ref <= 0 THEN remove_object(e, n) ELSE e BY DEF dec_ref
  <2> HIDE DEF e
  <2>7. dec_ref(c, n) = d BY <2>4, <2>5, <2>6
  <2> QED BY <2>7 DEF c, d
<1> QED BY <1>9, <1>10, <1>11, <1>12 DEF _new_object_handle, a

\* A new object of synchronization, with its first handle.
LEMMA NewSync ==
  ASSUME NEW s, Good(s), NEW kind \in Sync, NEW n \in ObjectNames, ~Findable(n) \/ \A x \in s.om : s.objects[x].name # n
  PROVE  LET t == _new_object_handle(s, KernelObject(kind, n))
         IN  /\ Good(t) /\ Grown(s, t) /\ Len(t.objects) = Len(s.objects) + 1
             /\ Ids(t) = Ids(s) \cup {Len(s.objects) + 1}
<1> DEFINE r == KernelObject(kind, n)
           m == Len(s.objects) + 1
           w == s.om \cup {m}
           a == Add(s, r, w)
           t == new_handle(a, cur.process, m)
<1>0. Good(s) /\ StoreOK(s) /\ Len(s.objects) \in Nat /\ Ids(s) = 1 .. Len(s.objects) BY StoreTypes DEF Good
<1>1. r \in Object /\ r.type = kind /\ r.name = n /\ r.ref = 0 /\ r.token = 0
  BY NewObject DEF AnyType, Counted, Sync
<1> HIDE DEF r
<1>2. _new_object_handle(s, r) = t BY <1>0, <1>1, NewObjectHandleIs
<1>3. /\ StoreOK(a) /\ NamesOK(a) /\ Grown(s, a)
      /\ m \in Ids(a) /\ (\A o \in Ids(a) : o \in Ids(s) \/ o = m)
      /\ Len(a.objects) = m /\ a.objects[m] = r /\ a.om = w /\ a.table = s.table
      /\ (\A o \in Ids(s) : Held(a.objects[o], Cardinality(HandlesIn(a.table, o)), o \in a.om))
      /\ Cardinality(HandlesIn(a.table, m)) = 0
  <2>1. w = s.om \/ w = s.om \cup {m} OBVIOUS
  <2>2. r.type \in Sync => ~Findable(r.name) \/ \A x \in s.om : s.objects[x].name # r.name BY <1>1
  <2> HIDE DEF w, a
  <2> QED BY <1>0, <1>1, <2>1, <2>2, Appended DEF a
<1> HIDE DEF a
<1>4. Ready(a, m) BY <1>1, <1>3 DEF Ready, HeldKnown, Sync
<1>5. Good(t) /\ Grown(a, t) /\ Ids(t) = Ids(a) /\ Len(t.objects) = Len(a.objects)
  BY <1>3, <1>4, HandleAdded
<1>6. Grown(s, t) BY <1>0, <1>3, <1>5, GrownOn DEF Good
<1>7. Ids(t) = Ids(s) \cup {m} BY <1>0, <1>3, <1>5 DEF Ids
<1> QED BY <1>2, <1>3, <1>5, <1>6, <1>7 DEF r

\* A store with an object more, part by part.
LEMMA AddIs ==
  ASSUME NEW s, StoreOK(s), NEW r, NEW w
  PROVE  Add(s, r, w) =
           [objects |-> Append(s.objects, r), om |-> w, table |-> s.table, next |-> s.next, closed |-> <<>>]
<1> DEFINE os == Append(s.objects, r)
           u == [s EXCEPT !.objects = os]
<1>1. s = [objects |-> s.objects, om |-> s.om, table |-> s.table, next |-> s.next, closed |-> <<>>] BY DEF StoreOK
<1>2. Add(s, r, w) = [u EXCEPT !.om = w] BY DEF Add
<1> HIDE DEF os
<1>3. u = [objects |-> os, om |-> s.om, table |-> s.table, next |-> s.next, closed |-> <<>>] BY <1>1
<1> HIDE DEF u
<1>4. [u EXCEPT !.om = w] = [objects |-> os, om |-> w, table |-> s.table, next |-> s.next, closed |-> <<>>]
  BY <1>3
<1> QED BY <1>2, <1>4 DEF os

\* An object that the object manager does not learn of.
LEMMA AppendIs ==
  ASSUME NEW s, StoreOK(s), NEW r
  PROVE  [s EXCEPT !.objects = Append(@, r)] = Add(s, r, s.om)
<1> DEFINE os == Append(s.objects, r)
           u == [s EXCEPT !.objects = os]
<1>1. s = [objects |-> s.objects, om |-> s.om, table |-> s.table, next |-> s.next, closed |-> <<>>] BY DEF StoreOK
<1>2. Add(s, r, s.om) = [objects |-> os, om |-> s.om, table |-> s.table, next |-> s.next, closed |-> <<>>] BY AddIs
<1> HIDE DEF os
<1>3. u = [objects |-> os, om |-> s.om, table |-> s.table, next |-> s.next, closed |-> <<>>] BY <1>1
<1> QED BY <1>2, <1>3 DEF os

\* A new object that the object manager knows has a reference.
LEMMA NewObjectIs ==
  ASSUME NEW s, StoreOK(s), NEW r \in Object, r.ref = 0
  PROVE  new_object(s, r) = Add(s, [r EXCEPT !.ref = 1], s.om \cup {Len(s.objects) + 1})
<1> DEFINE n == Len(s.objects) + 1
           q == [r EXCEPT !.ref = 1]
           a == Add(s, r, s.om)
           os == Append(s.objects, q)
           w == s.om \cup {n}
<1>0. s.objects \in Seq(Object) BY DEF StoreOK
<1>1. q \in Object /\ [r EXCEPT !.ref = r.ref + 1] = q
  <2>1. 1 \in Int OBVIOUS
  <2>2. q \in Object BY <2>1, RefSet
  <2>3. r.ref + 1 = 1 OBVIOUS
  <2> QED BY <2>2, <2>3
<1>2. [s EXCEPT !.objects = Append(@, r)] = a BY AppendIs
<1>3. a = [objects |-> Append(s.objects, r), om |-> s.om, table |-> s.table, next |-> s.next, closed |-> <<>>] BY AddIs
<1>4. a.objects = Append(s.objects, r) /\ a.om = s.om BY <1>3
<1> HIDE DEF q, a
<1>5. Append(s.objects, r)[n] = r /\ [Append(s.objects, r) EXCEPT ![n] = q] = os
  <2>1. Append(s.objects, r)[n] = r BY <1>0, AppendProperties
  <2>2. [Append(s.objects, r) EXCEPT ![n] = q] = os BY <1>0, <1>1, LastSet
  <2> QED BY <2>1, <2>2
<1>6. add_object(a, n) =
        [a EXCEPT !.objects = [a.objects EXCEPT ![n] = [a.objects[n] EXCEPT !.ref = a.objects[n].ref + 1]],
                  !.om = a.om \cup {n}]
  BY DEF add_object
<1>7. [a.objects EXCEPT ![n] = [a.objects[n] EXCEPT !.ref = a.objects[n].ref + 1]] = os BY <1>1, <1>4, <1>5
<1>8. add_object(a, n) = [a EXCEPT !.objects = os, !.om = w] BY <1>4, <1>6, <1>7 DEF w
<1> HIDE DEF w
<1>9. Add(s, q, w) = [objects |-> os, om |-> w, table |-> s.table, next |-> s.next, closed |-> <<>>] BY AddIs
<1> HIDE DEF os
<1> DEFINE x == [a EXCEPT !.objects = os]
           y == [x EXCEPT !.om = w]
<1>10. x = [objects |-> os, om |-> s.om, table |-> s.table, next |-> s.next, closed |-> <<>>] BY <1>3
<1>11. [a EXCEPT !.objects = os, !.om = w] = y OBVIOUS
<1> HIDE DEF x
<1>12. y = [objects |-> os, om |-> w, table |-> s.table, next |-> s.next, closed |-> <<>>] BY <1>10
<1> QED BY <1>2, <1>8, <1>9, <1>11, <1>12 DEF new_object, q, w

\* A new process.
LEMMA NewProcess ==
  ASSUME NEW s, Good(s), NEW n \in ObjectNames
  PROVE  LET t == Process(s, n)
             p == Len(s.objects) + 1
         IN  /\ Good(t) /\ Grown(s, t) /\ Len(t.objects) = p /\ Ids(t) = Ids(s) \cup {p} /\ t.next = s.next
             /\ t.objects[p].type = "process" /\ t.om = s.om \cup {p}
<1> DEFINE r == KernelObject("process", n)
           q == [r EXCEPT !.ref = 1]
           p == Len(s.objects) + 1
           w == s.om \cup {p}
           t == Add(s, q, w)
<1>0. Good(s) /\ StoreOK(s) /\ Len(s.objects) \in Nat /\ Ids(s) = 1 .. Len(s.objects) BY StoreTypes DEF Good
<1>1. r \in Object /\ r.type = "process" /\ r.ref = 0 /\ r.token = 0
  <2>1. "process" \in AnyType BY DEF AnyType, Counted
  <2> QED BY <2>1, NewObject
<1> HIDE DEF r
<1>2. q \in Object /\ q.type = "process" /\ q.ref = 1 /\ q.token = 0
  <2>1. 1 \in Int OBVIOUS
  <2> QED BY <1>1, <2>1, RefSet DEF Still
<1>3. Process(s, n) = t BY <1>0, <1>1, NewObjectIs DEF Process, r
<1> HIDE DEF q, t
<1>4. Good(t) /\ Grown(s, t) /\ Len(t.objects) = p /\ t.objects[p] = q /\ t.om = w /\ t.table = s.table /\ t.next = s.next
  <2>1. w = s.om \/ w = s.om \cup {p} OBVIOUS
  <2>2. q.type \notin Sync /\ p \in w /\ q.ref >= 1 BY <1>2 DEF Sync
  <2>3. q.type = "token" => q.ref >= 0 BY <1>2
  <2>4. q.type \in {"process", "thread"} => p \in w /\ q.ref >= 1 BY <2>2
  <2> HIDE DEF w
  <2> QED BY <1>0, <1>2, <2>1, <2>2, <2>3, <2>4, ObjectAppended DEF t
<1>5. Ids(t) = Ids(s) \cup {p} BY <1>0, <1>4 DEF Ids
<1> QED BY <1>2, <1>3, <1>4, <1>5

\* A new thread of a process.
LEMMA NewThread ==
  ASSUME NEW s, Good(s), NEW p \in Nat
  PROVE  LET t == Thread(s, p)
             n == Len(s.objects) + 1
         IN  /\ Good(t) /\ Grown(s, t) /\ Len(t.objects) = n /\ Ids(t) = Ids(s) \cup {n} /\ t.next = s.next
             /\ t.objects[n].type = "thread" /\ t.objects[n].process = p /\ t.om = s.om \cup {n}
<1> DEFINE k == KernelObject("thread", NoName)
           r == [k EXCEPT !.process = p]
           q == [r EXCEPT !.ref = 1]
           n == Len(s.objects) + 1
           w == s.om \cup {n}
           t == Add(s, q, w)
<1>0. Good(s) /\ StoreOK(s) /\ Len(s.objects) \in Nat /\ Ids(s) = 1 .. Len(s.objects) BY StoreTypes DEF Good
<1>1. k \in Object /\ k.type = "thread" /\ k.ref = 0 /\ k.token = 0
  <2>1. "thread" \in AnyType BY DEF AnyType, Counted
  <2>2. NoName \in ObjectNames BY DEF ObjectNames
  <2> QED BY <2>1, <2>2, NewObject
<1> HIDE DEF k
<1>2. r \in Object /\ r.type = "thread" /\ r.ref = 0 /\ r.token = 0 /\ r.process = p BY <1>1 DEF Object
<1> HIDE DEF r
<1>3. q \in Object /\ q.type = "thread" /\ q.ref = 1 /\ q.token = 0 /\ q.process = p
  <2>1. 1 \in Int OBVIOUS
  <2> QED BY <1>2, <2>1, RefSet DEF Still
<1>4. Thread(s, p) = t
  <2>1. Thread(s, p) = new_object(s, r) BY Zenon DEF Thread, r, k, NoName
  <2> QED BY <1>0, <1>2, <2>1, NewObjectIs
<1> HIDE DEF q, t
<1>5. Good(t) /\ Grown(s, t) /\ Len(t.objects) = n /\ t.objects[n] = q /\ t.om = w /\ t.table = s.table /\ t.next = s.next
  <2>1. w = s.om \/ w = s.om \cup {n} OBVIOUS
  <2>2. q.type \notin Sync /\ n \in w /\ q.ref >= 1 BY <1>3 DEF Sync
  <2>3. q.type = "token" => q.ref >= 0 BY <1>3
  <2>4. q.type \in {"process", "thread"} => n \in w /\ q.ref >= 1 BY <2>2
  <2> HIDE DEF w
  <2> QED BY <1>0, <1>3, <2>1, <2>2, <2>3, <2>4, ObjectAppended DEF t
<1>6. Ids(t) = Ids(s) \cup {n} BY <1>0, <1>5 DEF Ids
<1> QED BY <1>3, <1>4, <1>5, <1>6

-----------------------------------------------------------------------------
(* The state of the scheduler. *)

\* An object of a kind, and a thread of a process.
IsKind(s, o, kind) == o \in Ids(s) /\ s.objects[o].type = kind
ThreadOf(s, p) == \E t \in Ids(s) : s.objects[t].type = "thread" /\ s.objects[t].process = p

\* Runs that are queued, and runs that wait suspended.
Runs == [thread : Nat, process : Nat]
RunOK(s, r) == IsKind(s, r.process, "process") /\ (r.thread = 0 \/ IsKind(s, r.thread, "thread"))
Scheduled(s, q) == q \in Seq(Runs) /\ \A i \in 1 .. Len(q) : RunOK(s, q[i])
Waiting(s, w) ==
  /\ \A i \in 1 .. Len(w) : w[i].thread # 0 /\ s.objects[w[i].thread].suspend >= 1
  /\ \A i, j \in 1 .. Len(w) : w[i].thread = w[j].thread => i = j

\* Processes in a list without repetitions.
Listed(s, ps) ==
  /\ ps \in Seq(Nat) /\ \A i \in DOMAIN ps : IsKind(s, ps[i], "process")
  /\ \A i, j \in DOMAIN ps : ps[i] = ps[j] => i = j
Startable(s, ps) == Listed(s, ps) /\ \A i \in DOMAIN ps : ThreadOf(s, ps[i])

\* The process and the thread that run.
Current(s, c) ==
  /\ c = [process |-> c.process, thread |-> c.thread, running |-> c.running]
  /\ IsKind(s, c.process, "process") /\ IsKind(s, c.thread, "thread")

World(s, c, q, w, ps, cs) ==
  /\ Good(s) /\ Len(s.objects) <= MaxObjects
  /\ Current(s, c) /\ Scheduled(s, q) /\ Scheduled(s, w) /\ Waiting(s, w)
  /\ Listed(s, ps) /\ Startable(s, cs)

\* The inductive invariant, and what every step keeps to.
IInv == World(store, cur, queue, suspended, processes, children)
Kept == IInv' /\ Larger(store, store')

\* What is true of objects stays true when objects are added.
LEMMA KindsStay ==
  ASSUME NEW s, NEW t, StoreOK(s), StoreOK(t), Larger(s, t)
  PROVE  /\ Ids(s) \subseteq Ids(t)
         /\ \A o, kind : IsKind(s, o, kind) => IsKind(t, o, kind)
         /\ \A p : ThreadOf(s, p) => ThreadOf(t, p)
<1>1. /\ Len(s.objects) \in Nat /\ Len(t.objects) \in Nat
      /\ Ids(s) = 1 .. Len(s.objects) /\ Ids(t) = 1 .. Len(t.objects)
  BY StoreTypes
<1>2. Ids(s) \subseteq Ids(t) BY <1>1 DEF Larger
<1>3. \A o \in Ids(s) : t.objects[o].type = s.objects[o].type /\ t.objects[o].process = s.objects[o].process
  BY DEF Larger, Still
<1>4. ASSUME NEW o, NEW kind, IsKind(s, o, kind) PROVE IsKind(t, o, kind) BY <1>2, <1>3, <1>4 DEF IsKind
<1>5. ASSUME NEW p, ThreadOf(s, p) PROVE ThreadOf(t, p)
  <2>1. PICK x \in Ids(s) : s.objects[x].type = "thread" /\ s.objects[x].process = p BY <1>5 DEF ThreadOf
  <2>2. x \in Ids(t) /\ t.objects[x].type = "thread" /\ t.objects[x].process = p BY <1>2, <1>3, <2>1
  <2> QED BY <2>2 DEF ThreadOf
<1> QED BY <1>2, <1>4, <1>5

LEMMA WorldStays ==
  ASSUME NEW s, NEW t, StoreOK(s), StoreOK(t), Larger(s, t)
  PROVE  /\ \A c : Current(s, c) => Current(t, c)
         /\ \A q : Scheduled(s, q) => Scheduled(t, q)
         /\ \A ps : Listed(s, ps) => Listed(t, ps)
         /\ \A ps : Startable(s, ps) => Startable(t, ps)
         /\ SameCounts(s, t) => \A w : Scheduled(s, w) /\ Waiting(s, w) => Waiting(t, w)
<1>1. /\ \A o, kind : IsKind(s, o, kind) => IsKind(t, o, kind)
      /\ \A p : ThreadOf(s, p) => ThreadOf(t, p)
  BY KindsStay
<1>2. ASSUME NEW c, Current(s, c) PROVE Current(t, c) BY <1>1, <1>2 DEF Current
<1>3. ASSUME NEW q, Scheduled(s, q) PROVE Scheduled(t, q) BY <1>1, <1>3 DEF Scheduled, RunOK
<1>4. ASSUME NEW ps, Listed(s, ps) PROVE Listed(t, ps) BY <1>1, <1>4 DEF Listed
<1>5. ASSUME NEW ps, Startable(s, ps) PROVE Startable(t, ps) BY <1>1, <1>4, <1>5 DEF Startable
<1>6. ASSUME SameCounts(s, t), NEW w, Scheduled(s, w), Waiting(s, w) PROVE Waiting(t, w)
  <2>1. \A i \in 1 .. Len(w) : w[i].thread \in Ids(s)
    BY <1>6 DEF Scheduled, RunOK, Waiting, IsKind
  <2>2. \A i \in 1 .. Len(w) : t.objects[w[i].thread].suspend = s.objects[w[i].thread].suspend
    BY <1>6, <2>1 DEF SameCounts
  <2> QED BY <1>6, <2>2 DEF Waiting
<1> QED BY <1>2, <1>3, <1>4, <1>5, <1>6

\* A call that only adds objects and handles, or closes a handle.
LEMMA Becoming ==
  ASSUME IInv, NEW s, Good(s), Grown(store, s), Becomes(s)
  PROVE  Kept
<1>1. /\ store' = s /\ cur' = cur /\ queue' = queue /\ suspended' = suspended /\ processes' = processes
      /\ children' = children /\ Len(s.objects) <= MaxObjects
  BY DEF Becomes, Others, Fits
<1>2. StoreOK(store) /\ StoreOK(s) /\ Larger(store, s) /\ SameCounts(store, s)
  BY DEF IInv, World, Good, Grown
<1>3. World(s, cur, queue, suspended, processes, children)
  BY <1>1, <1>2, WorldStays DEF IInv, World
<1> QED BY <1>1, <1>2, <1>3 DEF Kept, IInv

\* An operation that changes nothing.
LEMMA NothingAdded ==
  ASSUME NEW s, Good(s)
  PROVE  Grown(s, s)
BY StoreTypes DEF Good, Grown, Larger, SameCounts, Still

\* get finds objects that are alive.
LEMMA Found ==
  ASSUME IInv, NEW p, NEW h, NEW types
  PROVE  LET o == get(store, p, h, types)
         IN  o # 0 => /\ o \in Ids(store) /\ store.objects[o].type \in types /\ store.objects[o] \in Object
                      /\ store.objects[o].type \in Sync => o \in store.om
<1> SUFFICES ASSUME get(store, p, h, types) # 0
             PROVE  LET o == get(store, p, h, types)
                    IN  /\ o \in Ids(store) /\ store.objects[o].type \in types /\ store.objects[o] \in Object
                        /\ store.objects[o].type \in Sync => o \in store.om
  OBVIOUS
<1> DEFINE pseudo == get_pseudo_handle_object(h)
           x == IF pseudo # 0 THEN pseudo ELSE IF h \in Open(store, p) THEN store.table[h].object ELSE 0
<1>0. Good(store) /\ StoreOK(store) /\ Current(store, cur) BY DEF IInv, World, Good
<1>1. get(store, p, h, types) = x /\ x # 0 /\ store.objects[x].type \in types BY DEF get
<1>2. pseudo = cur.process \/ pseudo = cur.thread \/ pseudo = 0 BY DEF get_pseudo_handle_object
<1> HIDE DEF pseudo
<1>3. CASE pseudo # 0
  <2>1. IsKind(store, x, "process") \/ IsKind(store, x, "thread") BY <1>0, <1>2, <1>3 DEF Current
  <2>2. x \in Ids(store) /\ store.objects[x].type \notin Sync BY <2>1 DEF IsKind, Sync
  <2> HIDE DEF x
  <2> QED BY <1>0, <1>1, <2>2, StoreTypes
<1>4. CASE pseudo = 0
  <2>1. h \in DOMAIN store.table /\ x = store.table[h].object BY <1>1, <1>4 DEF Open
  <2>2. x \in Ids(store) BY <1>0, <2>1 DEF StoreOK
  <2>3. h \in HandlesIn(store.table, x) BY <2>1 DEF HandlesIn
  <2> HIDE DEF x
  <2>4. IsFiniteSet(HandlesIn(store.table, x)) /\ Cardinality(HandlesIn(store.table, x)) \in Nat
    BY <1>0, StoreTypes
  <2>5. Cardinality(HandlesIn(store.table, x)) # 0 BY <2>3, <2>4, FS_EmptySet
  <2>6. Held(store.objects[x], Cardinality(HandlesIn(store.table, x)), x \in store.om)
    BY <1>0, <2>2 DEF Good, AllHeld
  <2> DEFINE c == Cardinality(HandlesIn(store.table, x))
  <2>7. c \in Nat /\ c # 0 /\ Held(store.objects[x], c, x \in store.om) BY <2>4, <2>5, <2>6
  <2> HIDE DEF c
  <2>8. store.objects[x].type \in Sync => x \in store.om BY <2>7 DEF Held
  <2> QED BY <1>0, <1>1, <2>2, <2>8, StoreTypes
<1> QED BY <1>3, <1>4

\* A process or a thread is not an object of synchronization.
LEMMA FoundProcess ==
  ASSUME IInv, NEW h
  PROVE  /\ Obj(h, {"process"}) # 0 => IsKind(store, Obj(h, {"process"}), "process")
         /\ Obj(h, {"thread"}) # 0 => IsKind(store, Obj(h, {"thread"}), "thread")
BY Found DEF Obj, IsKind

\* One object that changes without its references, its name and its token.
LEMMA FieldChanged ==
  ASSUME NEW s, Good(s), NEW o \in Ids(s), NEW r \in Object,
         Still(s.objects[o], r), r.ref = s.objects[o].ref, r.token = s.objects[o].token
  PROVE  LET t == [s EXCEPT !.objects[o] = r]
         IN  /\ Good(t) /\ Larger(s, t) /\ Ids(t) = Ids(s) /\ Len(t.objects) = Len(s.objects)
             /\ r.suspend = s.objects[o].suspend => Grown(s, t)
             /\ t.objects[o] = r /\ \A x \in Ids(s) : x # o => t.objects[x] = s.objects[x]
<1> DEFINE os == [s.objects EXCEPT ![o] = r]
           t == [s EXCEPT !.objects = os]
<1>0. Good(s) /\ StoreOK(s) /\ s.objects \in Seq(Object) /\ Ids(s) = 1 .. Len(s.objects)
  BY StoreTypes DEF Good, StoreOK
<1>1. os \in Seq(Object) /\ Len(os) = Len(s.objects) /\ \A x \in Ids(s) : os[x] = IF x = o THEN r ELSE s.objects[x]
  BY <1>0, Replaced
<1>2. [s EXCEPT !.objects[o] = r] = t OBVIOUS
<1> HIDE DEF os
<1>3. \A x \in Ids(s) : Still(s.objects[x], os[x]) /\ os[x].ref = s.objects[x].ref
                        /\ (os[x].token = s.objects[x].token
                            \/ (os[x].token \in Ids(s) /\ s.objects[os[x].token].type = "token"))
  <2>1. \A x \in Ids(s) : Still(s.objects[x], os[x]) /\ os[x].ref = s.objects[x].ref /\ os[x].token = s.objects[x].token
    BY <1>1 DEF Still
  <2> QED BY <2>1
<1>4. /\ Good(t) /\ Ids(t) = Ids(s) /\ t.objects = os
      /\ Larger(s, t) /\ ((\A x \in Ids(s) : os[x].suspend = s.objects[x].suspend) => Grown(s, t))
  BY <1>0, <1>1, <1>3, OtherFields
<1>5. r.suspend = s.objects[o].suspend => \A x \in Ids(s) : os[x].suspend = s.objects[x].suspend BY <1>1
<1> HIDE DEF t
<1> QED BY <1>1, <1>2, <1>4, <1>5

-----------------------------------------------------------------------------
(* Named objects, events and waits. *)

\* The objects that have a name.
Named(s, n) == {o \in s.om : n # NoName /\ s.objects[o].name = n}

\* A set of natural numbers has a least one.
LEMMA LeastOf ==
  ASSUME NEW Some, Some \subseteq Nat, Some # {}
  PROVE  \E x \in Some : \A y \in Some : x <= y
<1>1. IsWellFoundedOn(OpToRel(<, Nat), Nat) BY NatLessThanWellFounded
<1>2. PICK x \in Some : \A y \in Some : ~(<<y, x>> \in OpToRel(<, Nat)) BY <1>1, WFMin
<1>3. \A y \in Some : ~(y < x) BY <1>2 DEF OpToRel
<1>4. \A y \in Some : x <= y BY <1>3
<1> QED BY <1>4

\* The first object of a name is registered, or there is none of the name.
LEMMA FirstIs ==
  ASSUME NEW s, Good(s), NEW n
  PROVE  LET o == FirstNamed(s, n)
         IN  IF o = 0 THEN n = NoName \/ \A x \in s.om : s.objects[x].name # n ELSE o \in s.om
<1> DEFINE S == Named(s, n)
           c == CHOOSE o \in S : \A x \in S : o <= x
<1>1. FirstNamed(s, n) = IF S = {} THEN 0 ELSE c BY Zenon DEF FirstNamed, Named, NoName
<1>2. s.om \subseteq Ids(s) /\ \A x \in Ids(s) : x \in Nat /\ x # 0 BY StoreTypes DEF Good, StoreOK
<1>3. CASE S = {} BY <1>1, <1>3 DEF Named
<1>4. CASE S # {}
  <2>1. S \subseteq Nat BY <1>2 DEF Named
  <2> HIDE DEF S
  <2>2. \E o \in S : \A x \in S : o <= x BY <1>4, <2>1, LeastOf
  <2>3. c \in S BY <2>2
  <2> HIDE DEF c
  <2>4. c \in s.om BY <2>3 DEF S, Named
  <2> QED BY <1>1, <1>2, <1>4, <2>4
<1> QED BY <1>3, <1>4

\* get_object_from_name finds a registered object, or there is none of the name if a lookup could find it.
LEMMA FromName ==
  ASSUME NEW s, Good(s), NEW n
  PROVE  LET o == get_object_from_name(s, n)
         IN  IF o = 0 THEN ~Findable(n) \/ \A x \in s.om : s.objects[x].name # n ELSE o \in s.om
<1> DEFINE name == IF n = NoName THEN n ELSE Stripped[n]
           a == FirstNamed(s, name)
           b == FirstNamed(s, Stripped[Links[name]])
<1>1. get_object_from_name(s, n) = IF a = 0 /\ name \in DOMAIN Links THEN b ELSE a
  BY Zenon DEF get_object_from_name, NoName
<1>2. Findable(n) => n # NoName /\ name = n BY Zenon DEF Findable, NoName
<1>3. b # 0 => b \in s.om BY FirstIs
<1>4. IF a = 0 THEN name = NoName \/ \A x \in s.om : s.objects[x].name # name ELSE a \in s.om BY FirstIs
<1> HIDE DEF name, a, b
<1> QED BY <1>1, <1>2, <1>3, <1>4

\* The handle of an object that the object manager knows.
LEMMA KnownHandle ==
  ASSUME NEW s, Good(s), NEW o, o \in s.om
  PROVE  LET t == get_object_handle(s, o)
         IN  Good(t) /\ Grown(s, t) /\ Ids(t) = Ids(s) /\ t.om = s.om /\ Len(t.objects) = Len(s.objects)
<1>1. o \in Ids(s) BY DEF Good, StoreOK
<1>2. get_object_handle(s, o) = new_handle(s, cur.process, o) BY DEF get_object_handle
<1> QED BY <1>1, <1>2, NewHandle

LEMMA OpenNamedKeeps ==
  ASSUME IInv, NEW n, OpenNamed(n)
  PROVE  Kept
<1> DEFINE o == get_object_from_name(store, n)
<1>1. o # 0 /\ Becomes(get_object_handle(store, o)) BY DEF OpenNamed
<1>2. Good(store) BY DEF IInv, World
<1>3. o \in store.om BY <1>1, <1>2, FromName
<1> HIDE DEF o
<1> QED BY <1>1, <1>2, <1>3, KnownHandle, Becoming

LEMMA CreateNamedKeeps ==
  ASSUME IInv, NEW n, NEW new, CreateNamed(n, new),
         (~Findable(n) \/ \A x \in store.om : store.objects[x].name # n) => Good(new) /\ Grown(store, new)
  PROVE  Kept
<1> DEFINE o == get_object_from_name(store, n)
<1>1. Becomes(IF o # 0 THEN get_object_handle(store, o) ELSE new) BY DEF CreateNamed
<1>2. Good(store) BY DEF IInv, World
<1>3. IF o = 0 THEN ~Findable(n) \/ \A x \in store.om : store.objects[x].name # n ELSE o \in store.om BY <1>2, FromName
<1> HIDE DEF o
<1>4. CASE o # 0
  <2>1. o \in store.om BY <1>3, <1>4
  <2> QED BY <1>1, <1>2, <1>4, <2>1, KnownHandle, Becoming
<1>5. CASE o = 0
  <2>1. Good(new) /\ Grown(store, new) /\ Becomes(new) BY <1>1, <1>3, <1>5
  <2> QED BY <2>1, Becoming
<1> QED BY <1>4, <1>5

\* A new event, with the flags of the call.
LEMMA EventFlags ==
  ASSUME NEW s, Good(s), NEW t, Good(t), Grown(s, t), NEW o \in Ids(t),
         NEW m \in BOOLEAN, NEW i \in BOOLEAN
  PROVE  LET u == [t EXCEPT !.objects[o].manual = m, !.objects[o].signaled = i]
         IN  Good(u) /\ Grown(s, u)
<1> DEFINE a == [t.objects[o] EXCEPT !.manual = m]
           v == [t EXCEPT !.objects[o] = a]
           b == [v.objects[o] EXCEPT !.signaled = i]
           u == [v EXCEPT !.objects[o] = b]
<1>0. [t EXCEPT !.objects[o].manual = m, !.objects[o].signaled = i] = u OBVIOUS
<1>1. StoreOK(s) /\ StoreOK(t) /\ t.objects[o] \in Object BY StoreTypes DEF Good
<1>2. /\ a \in Object /\ Still(t.objects[o], a) /\ a.ref = t.objects[o].ref /\ a.suspend = t.objects[o].suspend
      /\ a.token = t.objects[o].token
  BY <1>1, ManualSet
<1> HIDE DEF a
<1>3. Good(v) /\ Grown(t, v) /\ Ids(v) = Ids(t) /\ v.objects[o] = a BY <1>2, FieldChanged
<1> HIDE DEF v
<1>4. /\ b \in Object /\ Still(v.objects[o], b) /\ b.ref = v.objects[o].ref /\ b.suspend = v.objects[o].suspend
      /\ b.token = v.objects[o].token
  BY <1>2, <1>3, SignalSet
<1> HIDE DEF b
<1>5. Good(u) /\ Grown(v, u) BY <1>3, <1>4, FieldChanged
<1> HIDE DEF u
<1>6. StoreOK(v) /\ StoreOK(u) BY <1>3, <1>5 DEF Good
<1>7. Grown(s, v) BY <1>1, <1>3, <1>6, GrownOn
<1>8. Grown(s, u) BY <1>1, <1>5, <1>6, <1>7, GrownOn
<1> QED BY <1>0, <1>5, <1>8

\* Create and open handlers of mutexes, events, timers and semaphores.
LEMMA NamedKeeps ==
  ASSUME IInv, NEW n \in ObjectNames
  PROVE  /\ \/ CreateMutex(n) \/ CreateMutexEx(n) \/ OpenMutex(n) \/ OpenEvent(n) \/ OpenSemaphore(n)
            \/ CreateWaitableTimer(n) \/ CreateWaitableTimerEx(n) \/ OpenWaitableTimer(n) \/ CreateSemaphore(n)
            => Kept
         /\ \A m, i \in BOOLEAN : CreateEvent(n, m, i) \/ CreateEventEx(n, m, i) => Kept
<1>0. Good(store) BY DEF IInv, World
<1> DEFINE Free == ~Findable(n) \/ \A x \in store.om : store.objects[x].name # n
<1>1. ASSUME NEW kind \in Sync, Free
      PROVE  LET t == _new_object_handle(store, KernelObject(kind, n))
             IN  Good(t) /\ Grown(store, t) /\ Len(store.objects) + 1 \in Ids(t)
  <2>1. LET t == _new_object_handle(store, KernelObject(kind, n))
        IN  /\ Good(t) /\ Grown(store, t) /\ Len(t.objects) = Len(store.objects) + 1
            /\ Ids(t) = Ids(store) \cup {Len(store.objects) + 1}
    BY <1>0, <1>1, NewSync
  <2> QED BY <2>1
<1>2. Free => /\ Good(create_mutant(store, n)) /\ Grown(store, create_mutant(store, n))
              /\ Good(create_event(store, n)) /\ Grown(store, create_event(store, n))
              /\ Len(store.objects) + 1 \in Ids(create_event(store, n))
              /\ Good(create_semaphore(store, n)) /\ Grown(store, create_semaphore(store, n))
  <2>1. "mutant" \in Sync /\ "event" \in Sync /\ "semaphore" \in Sync BY DEF Sync
  <2> HIDE DEF Free
  <2> QED BY <1>1, <2>1 DEF create_mutant, create_event, create_semaphore
<1>3. OpenMutex(n) \/ OpenEvent(n) \/ OpenSemaphore(n) \/ OpenWaitableTimer(n) => OpenNamed(n)
  BY Zenon DEF OpenMutex, OpenEvent, OpenSemaphore, OpenWaitableTimer
<1>4. CreateMutex(n) \/ CreateMutexEx(n) => Kept
  BY <1>2, CreateNamedKeeps DEF CreateMutex, CreateMutexEx
<1>5. CreateWaitableTimer(n) \/ CreateWaitableTimerEx(n) => Kept
  BY <1>2, CreateNamedKeeps DEF CreateWaitableTimer, CreateWaitableTimerEx
<1>6. CreateSemaphore(n) => Kept
  BY <1>2, CreateNamedKeeps DEF CreateSemaphore
<1>7. ASSUME NEW m \in BOOLEAN, NEW i \in BOOLEAN, CreateEvent(n, m, i) \/ CreateEventEx(n, m, i) PROVE Kept
  <2> DEFINE t == create_event(store, n)
             o == Len(store.objects) + 1
             u == [t EXCEPT !.objects[o].manual = m, !.objects[o].signaled = i]
  <2>1. CreateNamed(n, u) BY <1>7 DEF CreateEvent, CreateEventEx, Newest
  <2>2. Free => Good(t) /\ Grown(store, t) /\ o \in Ids(t) BY <1>2
  <2> HIDE DEF t, o
  <2>3. Free => Good(u) /\ Grown(store, u) BY <1>0, <2>2, EventFlags
  <2> HIDE DEF u
  <2> QED BY <2>1, <2>3, CreateNamedKeeps
<1> QED BY <1>3, <1>4, <1>5, <1>6, <1>7, OpenNamedKeeps

\* SetEvent, ResetEvent and PulseEvent.
LEMMA SignalKeeps ==
  ASSUME IInv, NEW h, NEW b \in BOOLEAN, Signal(h, b)
  PROVE  Kept
<1> DEFINE o == Obj(h, {"event"})
           r == [store.objects[o] EXCEPT !.signaled = b]
           t == [store EXCEPT !.objects[o] = r]
<1>1. o # 0 /\ Becomes([store EXCEPT !.objects[o].signaled = b]) BY DEF Signal
<1>2. Good(store) BY DEF IInv, World
<1>3. o \in Ids(store) /\ store.objects[o] \in Object BY <1>1, Found DEF Obj
<1> HIDE DEF o
<1>4. [store EXCEPT !.objects[o].signaled = b] = t OBVIOUS
<1>5. /\ r \in Object /\ Still(store.objects[o], r) /\ r.ref = store.objects[o].ref
      /\ r.suspend = store.objects[o].suspend /\ r.token = store.objects[o].token
  BY <1>3, SignalSet
<1> HIDE DEF r
<1>6. Good(t) /\ Grown(store, t) BY <1>2, <1>3, <1>5, FieldChanged
<1> HIDE DEF t
<1> QED BY <1>1, <1>4, <1>6, Becoming

\* A wait takes the signal of some events.
LEMMA WaitKeeps ==
  ASSUME IInv, NEW events, NEW all, Becomes(wait_for_events(events, all))
  PROVE  Kept
<1> DEFINE set == {i \in DOMAIN events : store.objects[events[i]].signaled}
           ready == IF all THEN IF set = DOMAIN events THEN set ELSE {}
                    ELSE {i \in set : \A j \in set : i <= j}
           taken == {events[i] : i \in ready}
           Quiet(r) == [r EXCEPT !.signaled = FALSE]
           os == [o \in DOMAIN store.objects |->
                    IF o \in taken /\ ~store.objects[o].manual THEN Quiet(store.objects[o]) ELSE store.objects[o]]
           t == [store EXCEPT !.objects = os]
<1>1. wait_for_events(events, all) = t BY DEF wait_for_events
<1>2. /\ Good(store) /\ Ids(store) = 1 .. Len(store.objects) /\ Len(store.objects) \in Nat
      /\ DOMAIN store.objects = Ids(store) /\ \A o \in Ids(store) : store.objects[o] \in Object
  BY StoreTypes DEF IInv, World, Good
<1>3. ASSUME NEW r \in Object
      PROVE  LET q == Quiet(r)
             IN  q \in Object /\ Still(r, q) /\ q.ref = r.ref /\ q.suspend = r.suspend /\ q.token = r.token
  <2>1. FALSE \in BOOLEAN BY Zenon
  <2> QED BY <2>1, SignalSet
<1> HIDE DEF taken, Quiet
<1>4. \A o \in Ids(store) : os[o] = store.objects[o] \/ os[o] = Quiet(store.objects[o]) BY <1>2
<1>5. DOMAIN os = 1 .. Len(store.objects) BY <1>2
<1>6. os = [o \in 1 .. Len(store.objects) |-> os[o]] BY <1>2
<1> HIDE DEF os
<1>7. \A o \in Ids(store) : /\ os[o] \in Object /\ Still(store.objects[o], os[o]) /\ os[o].ref = store.objects[o].ref
                            /\ os[o].suspend = store.objects[o].suspend /\ os[o].token = store.objects[o].token
  <2>1. ASSUME NEW o \in Ids(store), os[o] = store.objects[o]
        PROVE  /\ os[o] \in Object /\ Still(store.objects[o], os[o]) /\ os[o].ref = store.objects[o].ref
               /\ os[o].suspend = store.objects[o].suspend /\ os[o].token = store.objects[o].token
    BY <2>1, <1>2 DEF Still
  <2>2. ASSUME NEW o \in Ids(store), os[o] = Quiet(store.objects[o])
        PROVE  /\ os[o] \in Object /\ Still(store.objects[o], os[o]) /\ os[o].ref = store.objects[o].ref
               /\ os[o].suspend = store.objects[o].suspend /\ os[o].token = store.objects[o].token
    BY <2>2, <1>2, <1>3
  <2> QED BY <1>4, <2>1, <2>2
<1>8. os \in Seq(Object) /\ Len(os) = Len(store.objects)
  <2>1. os \in [1 .. Len(store.objects) -> Object] BY <1>2, <1>6, <1>7
  <2> QED BY <1>2, <2>1
<1>9. Good(t) /\ Grown(store, t) BY <1>2, <1>7, <1>8, OtherFields
<1> HIDE DEF t
<1> QED BY <1>1, <1>9, Becoming

-----------------------------------------------------------------------------
(* Handles, tokens and snapshots. *)

\* CloseHandle.
LEMMA CloseKeeps ==
  ASSUME IInv, NEW h, CloseHandle(h)
  PROVE  Kept
<1> DEFINE t == close(store, cur.process, h)
<1>1. Good(store) BY DEF IInv, World
<1>2. Good(t) /\ Grown(store, t) BY <1>1, Closed
<1> HIDE DEF t
<1> QED BY <1>2, Becoming DEF CloseHandle, t

\* DuplicateHandle, with DUPLICATE_CLOSE_SOURCE or without.
LEMMA DuplicateKeeps ==
  ASSUME IInv, NEW hp, NEW h, NEW ht, NEW c, DuplicateHandle(hp, h, ht, c)
  PROVE  Kept
<1> DEFINE p == _get_process_handle_table(hp)
           q == _get_process_handle_table(ht)
           o == get(store, p, h, AnyType)
           d == new_handle(store, q, o)
           e == close(d, p, h)
<1>1. o # 0 /\ Becomes(IF c THEN e ELSE d) BY DEF DuplicateHandle
<1>2. Good(store) BY DEF IInv, World
<1>3. o \in Ids(store) /\ (store.objects[o].type \in Sync => o \in store.om)
  <2> HIDE DEF p
  <2> QED BY <1>1, Found
<1> HIDE DEF p, q, o
<1>4. Good(d) /\ Grown(store, d) BY <1>2, <1>3, NewHandle
<1> HIDE DEF d
<1>5. Good(e) /\ Grown(d, e) BY <1>4, Closed
<1> HIDE DEF e
<1>6. Grown(store, e) BY <1>2, <1>4, <1>5, GrownOn DEF Good
<1>7. CASE c BY <1>1, <1>5, <1>6, <1>7, Becoming
<1>8. CASE ~c BY <1>1, <1>4, <1>8, Becoming
<1> QED BY <1>7, <1>8

\* SetStdHandle changes no object.
LEMMA StdKeeps ==
  ASSUME IInv, NEW h, SetStdHandle(h)
  PROVE  Kept
BY NothingAdded DEF SetStdHandle, Kept, IInv, World, Grown

\* The first handle of an object that has no name: a port, a snapshot, a token of its own.
LEMMA Nameless ==
  ASSUME NEW s, Good(s), NEW r \in Object, r.token = 0, r.type \in {"port", "snapshot", "token"}, r.ref \in Nat
  PROVE  LET a == [s EXCEPT !.objects = Append(@, r)]
             t == new_handle(a, cur.process, Len(s.objects) + 1)
         IN  Good(a) /\ Len(a.objects) = Len(s.objects) + 1 /\ Good(t) /\ Grown(s, t)
<1> DEFINE n == Len(s.objects) + 1
           a == Add(s, r, s.om)
           t == new_handle(a, cur.process, n)
<1>0. StoreOK(s) BY DEF Good
<1>1. [s EXCEPT !.objects = Append(@, r)] = a BY <1>0, AppendIs
<1>2. Good(a) /\ Grown(s, a) /\ Len(a.objects) = n /\ n \in Ids(a) /\ a.objects[n] = r
  <2>1. r.type \notin Sync /\ r.type \notin {"process", "thread"} BY DEF Sync
  <2>2. r.ref >= 0 OBVIOUS
  <2>3. r.type \in {"process", "thread"} => Len(s.objects) + 1 \in s.om /\ r.ref >= 1 BY <2>1
  <2>4. s.om = s.om \/ s.om = s.om \cup {Len(s.objects) + 1} OBVIOUS
  <2>5. r.type = "token" => r.ref >= 0 BY <2>2
  <2> HIDE DEF a
  <2> QED BY <2>1, <2>3, <2>4, <2>5, ObjectAppended DEF a
<1> HIDE DEF a
<1>3. Good(t) /\ Grown(a, t)
  <2>1. a.objects[n].type \in Sync => n \in a.om BY <1>2 DEF Sync
  <2> QED BY <1>2, <2>1, NewHandle
<1> HIDE DEF t
<1>4. Grown(s, t) BY <1>0, <1>2, <1>3, GrownOn DEF Good
<1> QED BY <1>1, <1>2, <1>3, <1>4 DEF t

\* A new object without a name.
LEMMA NamelessObject ==
  ASSUME NEW kind \in {"port", "snapshot", "token"}
  PROVE  /\ LET r == KernelObject(kind, NoName)
            IN  r \in Object /\ r.type = kind /\ r.ref = 0 /\ r.token = 0
         /\ LET q == [KernelObject(kind, NoName) EXCEPT !.ref = 1]
            IN  q \in Object /\ q.type = kind /\ q.ref = 1 /\ q.token = 0
<1> DEFINE r == KernelObject(kind, NoName)
<1>1. r \in Object /\ r.type = kind /\ r.ref = 0 /\ r.token = 0
  <2>1. kind \in AnyType BY DEF AnyType, Counted
  <2>2. NoName \in ObjectNames BY DEF ObjectNames
  <2> QED BY <2>1, <2>2, NewObject
<1> HIDE DEF r
<1>2. LET q == [r EXCEPT !.ref = 1] IN q \in Object /\ q.type = kind /\ q.ref = 1 /\ q.token = 0
  <2>1. 1 \in Int OBVIOUS
  <2> QED BY <1>1, <2>1, RefSet DEF Still
<1> QED BY <1>1, <1>2 DEF r

\* CreateIoCompletionPort and CreateToolhelp32Snapshot.
LEMMA PortKeeps ==
  ASSUME IInv, CreateIoCompletionPort \/ CreateToolhelp32Snapshot
  PROVE  Kept
<1>0. Good(store) BY DEF IInv, World
<1>1. ASSUME NEW kind \in {"port", "snapshot"},
             Becomes(new_handle([store EXCEPT !.objects = Append(@, KernelObject(kind, NoName))],
                                cur.process, Newest(store) + 1))
      PROVE  Kept
  <2> DEFINE r == KernelObject(kind, NoName)
             a == [store EXCEPT !.objects = Append(@, r)]
             t == new_handle(a, cur.process, Len(store.objects) + 1)
  <2>1. r \in Object /\ r.type = kind /\ r.ref = 0 /\ r.token = 0 BY NamelessObject
  <2>2. Becomes(t) BY <1>1 DEF Newest
  <2> HIDE DEF r
  <2>3. r.type \in {"port", "snapshot", "token"} /\ r.ref \in Nat BY <2>1
  <2>4. Good(t) /\ Grown(store, t) BY <1>0, <2>1, <2>3, Nameless
  <2> HIDE DEF t
  <2> QED BY <2>2, <2>4, Becoming
<1>2. CASE CreateIoCompletionPort
  <2>1. Becomes(new_handle([store EXCEPT !.objects = Append(@, KernelObject("port", NoName))],
                           cur.process, Newest(store) + 1))
    BY <1>2, Zenon DEF CreateIoCompletionPort, NoName
  <2> QED BY <1>1, <2>1
<1>3. CASE CreateToolhelp32Snapshot
  <2>1. Becomes(new_handle([store EXCEPT !.objects = Append(@, KernelObject("snapshot", NoName))],
                           cur.process, Newest(store) + 1))
    BY <1>3, Zenon DEF CreateToolhelp32Snapshot, NoName
  <2> QED BY <1>1, <2>1
<1> QED BY <1>2, <1>3

\* DuplicateTokenEx: a token of its own for the new handle.
LEMMA DuplicateTokenKeeps ==
  ASSUME IInv, NEW h, DuplicateTokenEx(h)
  PROVE  Kept
<1> DEFINE r == [KernelObject("token", NoName) EXCEPT !.ref = 1]
           a == [store EXCEPT !.objects = Append(@, r)]
           n == Len(store.objects) + 1
           t == new_handle(a, cur.process, n)
<1>0. Good(store) BY DEF IInv, World
<1>1. Becomes(new_handle(a, cur.process, Newest(a))) BY Zenon DEF DuplicateTokenEx, NoName
<1>2. r \in Object /\ r.type = "token" /\ r.ref = 1 /\ r.token = 0 BY NamelessObject
<1> HIDE DEF r
<1>3. Len(a.objects) = n /\ Good(t) /\ Grown(store, t)
  <2>1. r.type \in {"port", "snapshot", "token"} /\ r.ref \in Nat BY <1>2
  <2> QED BY <1>0, <1>2, <2>1, Nameless
<1> HIDE DEF a
<1>4. Becomes(t) BY <1>1, <1>3 DEF Newest
<1> HIDE DEF t
<1> QED BY <1>3, <1>4, Becoming

\* OpenProcessToken and OpenThreadToken: the token of the object is made when its first handle is opened.
LEMMA OpenTokenKeeps ==
  ASSUME IInv, NEW o \in Ids(store), OpenToken(o)
  PROVE  Kept
<1> DEFINE r == [KernelObject("token", NoName) EXCEPT !.ref = 1]
           n == Newest(store) + 1
           s == [store EXCEPT !.objects = Append([@ EXCEPT ![o].token = n], r)]
<1>0. /\ Good(store) /\ StoreOK(store) /\ store.objects \in Seq(Object) /\ Len(store.objects) \in Nat
      /\ Ids(store) = 1 .. Len(store.objects) /\ store.objects[o] \in Object
  BY StoreTypes DEF IInv, World, Good, StoreOK
<1>1. CASE store.objects[o].token # 0
  <2> DEFINE k == store.objects[o].token
             t == new_handle(store, cur.process, k)
  <2>1. Becomes(t) BY <1>1 DEF OpenToken
  <2>2. k \in Ids(store) /\ store.objects[k].type = "token" BY <1>0, <1>1 DEF StoreOK
  <2> HIDE DEF k
  <2>3. Good(t) /\ Grown(store, t) BY <1>0, <2>2, NewHandle DEF Sync
  <2> HIDE DEF t
  <2> QED BY <2>1, <2>3, Becoming
<1>2. CASE store.objects[o].token = 0
  <2> DEFINE a == [store EXCEPT !.objects = Append(@, r)]
             m == Len(store.objects) + 1
             b == [a.objects[o] EXCEPT !.token = m]
             os == [a.objects EXCEPT ![o] = b]
             v == [a EXCEPT !.objects = os]
             t == new_handle(v, cur.process, m)
  <2>1. Becomes(new_handle(s, cur.process, s.objects[o].token)) BY <1>2, Zenon DEF OpenToken, NoName
  <2>2. r \in Object /\ r.type = "token" /\ r.ref = 1 /\ r.token = 0 BY NamelessObject
  <2> HIDE DEF r
  <2>3. a = Add(store, r, store.om) BY <1>0, AppendIs
  <2>4. a = [objects |-> Append(store.objects, r), om |-> store.om, table |-> store.table, next |-> store.next,
             closed |-> <<>>]
    BY <1>0, <2>3, AddIs
  <2>5. Good(a) /\ Grown(store, a) /\ Len(a.objects) = m /\ m \in Ids(a) /\ a.objects[m] = r
    <3>1. r.type \notin Sync /\ (r.type \in {"process", "thread"} => m \in store.om /\ r.ref >= 1)
          /\ (r.type = "token" => r.ref >= 0)
      BY <2>2 DEF Sync
    <3>2. store.om = store.om \/ store.om = store.om \cup {m} OBVIOUS
    <3> HIDE DEF a
    <3> QED BY <1>0, <2>2, <2>3, <3>1, <3>2, ObjectAppended
  <2>6. /\ StoreOK(a) /\ a.objects \in Seq(Object) /\ Ids(a) = 1 .. Len(a.objects) /\ o \in Ids(a)
        /\ a.objects = Append(store.objects, r) /\ a.objects[o] = store.objects[o] /\ m # o
    <3>1. a.objects = Append(store.objects, r) BY <2>4
    <3>2. a.objects[o] = store.objects[o] /\ m # o BY <1>0, <2>2, <3>1, AppendProperties
    <3> HIDE DEF a
    <3>3. StoreOK(a) BY <2>5 DEF Good
    <3>4. a.objects \in Seq(Object) BY <3>3 DEF StoreOK
    <3>5. Ids(a) = 1 .. Len(a.objects) BY <3>3, StoreTypes
    <3>6. o \in Ids(a) BY <1>0, <2>5, <3>5
    <3> QED BY <3>1, <3>2, <3>3, <3>4, <3>5, <3>6
  <2> HIDE DEF a
  <2>7. /\ b \in Object /\ Still(a.objects[o], b) /\ b.ref = a.objects[o].ref /\ b.suspend = a.objects[o].suspend
        /\ b.token = m
    <3>1. m \in Nat /\ a.objects[o] \in Object BY <1>0, <2>6
    <3> HIDE DEF m
    <3> QED BY <3>1, TokenSet
  <2> HIDE DEF b
  <2>8. os \in Seq(Object) /\ Len(os) = Len(a.objects) /\ \A x \in Ids(a) : os[x] = IF x = o THEN b ELSE a.objects[x]
    <3>1. a.objects \in Seq(Object) /\ o \in 1 .. Len(a.objects) BY <2>6
    <3>2. os \in Seq(Object) /\ Len(os) = Len(a.objects)
          /\ \A x \in 1 .. Len(a.objects) : os[x] = IF x = o THEN b ELSE a.objects[x]
      BY <2>7, <3>1, Replaced
    <3> QED BY <2>6, <3>2
  <2>9. s = v
    <3>1. [a.objects EXCEPT ![o] = b] = Append([store.objects EXCEPT ![o] = b], r)
      <4> DEFINE qs == [store.objects EXCEPT ![o] = b]
                 ws == Append(qs, r)
      <4>1. qs \in Seq(Object) /\ Len(qs) = Len(store.objects)
            /\ \A x \in 1 .. Len(store.objects) : qs[x] = IF x = o THEN b ELSE store.objects[x]
        BY <1>0, <2>7, Replaced
      <4> HIDE DEF qs
      <4>2. ws \in Seq(Object) /\ Len(ws) = m /\ (\A x \in 1 .. Len(store.objects) : ws[x] = qs[x]) /\ ws[m] = r
        BY <2>2, <4>1, AppendProperties
      <4> HIDE DEF ws, os
      <4>3. \A x \in 1 .. Len(store.objects) : a.objects[x] = store.objects[x]
        BY <1>0, <2>2, <2>6, AppendProperties
      <4>4. \A x \in 1 .. m : os[x] = ws[x] BY <1>0, <2>5, <2>6, <2>8, <4>1, <4>2, <4>3
      <4>5. os = ws BY <2>5, <2>8, <4>2, <4>4, SeqEqual
      <4> QED BY <4>5 DEF os, ws, qs
    <3>2. [store.objects EXCEPT ![o].token = n] = [store.objects EXCEPT ![o] = b] BY <2>6 DEF b, Newest
    <3>3. s = [store EXCEPT !.objects = Append([store.objects EXCEPT ![o].token = n], r)] OBVIOUS
    <3>4. s = [store EXCEPT !.objects = os] BY <3>1, <3>2, <3>3
    <3> HIDE DEF os, s
    <3>5. [store EXCEPT !.objects = os] = [objects |-> os, om |-> store.om, table |-> store.table,
                                           next |-> store.next, closed |-> <<>>]
      BY <1>0 DEF StoreOK
    <3>6. [a EXCEPT !.objects = os] = [objects |-> os, om |-> store.om, table |-> store.table,
                                       next |-> store.next, closed |-> <<>>]
      BY <2>4
    <3> QED BY <3>4, <3>5, <3>6
  <2> HIDE DEF os
  <2>10. Good(v) /\ Ids(v) = Ids(a) /\ v.objects = os /\ Grown(a, v)
    <3>1. \A x \in Ids(a) : Still(a.objects[x], os[x]) /\ os[x].ref = a.objects[x].ref
                            /\ (os[x].token = a.objects[x].token
                                \/ (os[x].token \in Ids(a) /\ a.objects[os[x].token].type = "token"))
      <4>1. \A x \in Ids(a) : Still(a.objects[x], os[x]) /\ os[x].ref = a.objects[x].ref BY <2>7, <2>8 DEF Still
      <4>2. os[o].token \in Ids(a) /\ a.objects[os[o].token].type = "token" BY <2>2, <2>5, <2>6, <2>7, <2>8
      <4>3. \A x \in Ids(a) : x # o => os[x].token = a.objects[x].token BY <2>8
      <4> QED BY <4>1, <4>2, <4>3
    <3>2. \A x \in Ids(a) : os[x].suspend = a.objects[x].suspend BY <2>7, <2>8
    <3> QED BY <2>5, <2>8, <3>1, <3>2, OtherFields
  <2>11. v.objects[o].token = m /\ v.objects[m].type = "token" BY <2>2, <2>5, <2>6, <2>7, <2>8, <2>10
  <2> HIDE DEF v, s
  <2>12. Good(t) /\ Grown(v, t) BY <2>5, <2>10, <2>11, NewHandle DEF Sync
  <2>13. Becomes(t) BY <2>1, <2>9, <2>11
  <2> HIDE DEF t
  <2>14. StoreOK(store) /\ StoreOK(a) /\ StoreOK(v) /\ StoreOK(t) BY <1>0, <2>5, <2>10, <2>12 DEF Good
  <2>15. Grown(store, v) BY <2>5, <2>10, <2>14, GrownOn
  <2>16. Grown(store, t) BY <2>12, <2>14, <2>15, GrownOn
  <2> QED BY <2>12, <2>13, <2>16, Becoming
<1> QED BY <1>1, <1>2

\* Process32First, Process32Next, Thread32First and Thread32Next move the position of a walk.
LEMMA WalkKeeps ==
  ASSUME IInv, NEW h, First(h) \/ \E list : NextEntry(h, list)
  PROVE  Kept
<1> DEFINE o == Obj(h, {"snapshot"})
<1>0. Good(store) BY DEF IInv, World
<1>1. o # 0 /\ (\/ Becomes([store EXCEPT !.objects[o].cursor = 1])
                \/ Becomes([store EXCEPT !.objects[o].cursor = @ + 1]))
  BY DEF First, NextEntry
<1>2. o \in Ids(store) /\ store.objects[o] \in Object BY <1>1, Found DEF Obj
<1> HIDE DEF o
<1>3. store.objects[o].cursor + 1 \in Nat BY <1>2 DEF Object
<1>4. ASSUME NEW i \in Nat, Becomes([store EXCEPT !.objects[o].cursor = i]) PROVE Kept
  <2> DEFINE r == [store.objects[o] EXCEPT !.cursor = i]
             t == [store EXCEPT !.objects[o] = r]
  <2>1. [store EXCEPT !.objects[o].cursor = i] = t OBVIOUS
  <2>2. /\ r \in Object /\ Still(store.objects[o], r) /\ r.ref = store.objects[o].ref
        /\ r.suspend = store.objects[o].suspend /\ r.token = store.objects[o].token
    BY <1>2, CursorSet
  <2> HIDE DEF r
  <2>3. Good(t) /\ Grown(store, t) BY <1>0, <1>2, <2>2, FieldChanged
  <2> HIDE DEF t
  <2> QED BY <1>4, <2>1, <2>3, Becoming
<1>5. 1 \in Nat OBVIOUS
<1> QED BY <1>1, <1>3, <1>4, <1>5

\* OpenProcess and OpenThread.
LEMMA OpenKeeps ==
  ASSUME IInv, NEW o, OpenProcess(o) \/ OpenThread(o)
  PROVE  Kept
<1>0. Good(store) /\ Listed(store, processes) BY DEF IInv, World
<1>1. CASE OpenProcess(o)
  <2>1. IsKind(store, o, "process")
    <3>1. \E i \in DOMAIN processes : processes[i] = o BY <1>1 DEF OpenProcess, ToSet
    <3> QED BY <1>0, <3>1 DEF Listed
  <2>2. o \in store.om BY <1>0, <2>1 DEF IsKind, Good, AllHeld, Held
  <2>3. Becomes(get_object_handle(store, o)) BY <1>1, <2>2 DEF OpenProcess
  <2> QED BY <1>0, <2>2, <2>3, KnownHandle, Becoming
<1>2. CASE OpenThread(o)
  <2>1. o \in store.om /\ Becomes(get_object_handle(store, o)) BY <1>2 DEF OpenThread
  <2> QED BY <1>0, <2>1, KnownHandle, Becoming
<1> QED BY <1>1, <1>2

-----------------------------------------------------------------------------
(* Sequences. *)

\* What stays of a sequence when the element at a place goes.
LEMMA RemovedAt ==
  ASSUME NEW S, NEW seq \in Seq(S), NEW i \in 1 .. Len(seq)
  PROVE  LET t == RemoveAt(seq, i)
         IN  /\ t \in Seq(S) /\ Len(t) = Len(seq) - 1
             /\ \A j \in 1 .. (Len(seq) - 1) : t[j] = IF j < i THEN seq[j] ELSE seq[j + 1]
<1> DEFINE a == SubSeq(seq, 1, i - 1)
           b == SubSeq(seq, i + 1, Len(seq))
<1>1. Len(seq) \in Nat /\ i \in Nat /\ i <= Len(seq) /\ i >= 1 /\ \A j \in 1 .. Len(seq) : seq[j] \in S
  BY ElementOfSeq
<1>2. a \in Seq(S) /\ Len(a) = i - 1 /\ \A j \in 1 .. (i - 1) : a[j] = seq[j]
  <2>1. 1 \in Int /\ i - 1 \in Int /\ \A j \in 1 .. (i - 1) : seq[j] \in S BY <1>1
  <2> QED BY <2>1, <1>1, SubSeqProperties
<1>3. b \in Seq(S) /\ Len(b) = Len(seq) - i /\ \A j \in 1 .. (Len(seq) - i) : b[j] = seq[i + j]
  <2>1. i + 1 \in Int /\ Len(seq) \in Int /\ \A j \in (i + 1) .. Len(seq) : seq[j] \in S BY <1>1
  <2> QED BY <2>1, <1>1, SubSeqProperties
<1> HIDE DEF a, b
<1>4. /\ a \o b \in Seq(S) /\ Len(a \o b) = Len(a) + Len(b)
      /\ \A j \in 1 .. (Len(a) + Len(b)) : (a \o b)[j] = IF j <= Len(a) THEN a[j] ELSE b[j - Len(a)]
  BY <1>2, <1>3, ConcatProperties
<1>5. Len(a \o b) = Len(seq) - 1 BY <1>1, <1>2, <1>3, <1>4
<1>6. ASSUME NEW j \in 1 .. (Len(seq) - 1)
      PROVE  (a \o b)[j] = IF j < i THEN seq[j] ELSE seq[j + 1]
  <2>1. CASE j < i BY <2>1, <1>1, <1>2, <1>3, <1>4
  <2>2. CASE ~(j < i)
    <3>1. j - Len(a) \in 1 .. (Len(seq) - i) /\ i + (j - Len(a)) = j + 1 BY <2>2, <1>1, <1>2
    <3>2. (a \o b)[j] = b[j - Len(a)] BY <2>2, <1>1, <1>2, <1>3, <1>4
    <3> QED BY <2>2, <3>1, <3>2, <1>3
  <2> QED BY <2>1, <2>2
<1>7. RemoveAt(seq, i) = a \o b BY DEF RemoveAt, a, b
<1> QED BY <1>4, <1>5, <1>6, <1>7

\* Removing the only position of a key.
LEMMA RemovedFirst ==
  ASSUME NEW seq \in Seq(Nat), \A i, j \in DOMAIN seq : seq[i] = seq[j] => i = j, NEW i \in 1 .. Len(seq)
  PROVE  RemoveFirst(seq, seq[i]) = RemoveAt(seq, i)
<1>1. Len(seq) \in Nat /\ DOMAIN seq = 1 .. Len(seq) BY LenProperties
<1> DEFINE e == seq[i]
           at == {j \in 1 .. Len(seq) : seq[j] = e}
<1>2. at = {i} BY <1>1
<1>3. Min(at) = i
  <2>1. i \in at /\ (\A y \in at : y = i) /\ i <= i BY <1>2, <1>1
  <2> HIDE DEF at
  <2> QED BY <2>1 DEF Min
<1>4. SelectInSeq(seq, LAMBDA v : v = e) = Min(at)
  BY <1>2 DEF SelectInSeq
<1>5. RemoveFirst(seq, e) = RemoveAt(seq, SelectInSeq(seq, LAMBDA v : v = e))
  BY DEF RemoveFirst
<1> QED BY <1>3, <1>4, <1>5

\* What stays of a sequence without repetitions from which an element is removed.
LEMMA Removed ==
  ASSUME NEW seq \in Seq(Nat), \A i, j \in DOMAIN seq : seq[i] = seq[j] => i = j, NEW e
  PROVE  LET t == RemoveFirst(seq, e)
         IN  /\ t \in Seq(Nat)
             /\ \A j \in DOMAIN t : \E i \in DOMAIN seq : t[j] = seq[i] /\ seq[i] # e
             /\ \A i \in DOMAIN seq : seq[i] # e => \E j \in DOMAIN t : t[j] = seq[i]
             /\ \A i, j \in DOMAIN t : t[i] = t[j] => i = j
<1> DEFINE t == RemoveFirst(seq, e)
<1>1. DOMAIN seq = 1 .. Len(seq) /\ Len(seq) \in Nat BY LenProperties
<1>2. CASE \A i \in DOMAIN seq : seq[i] # e
  <2>1. t = seq BY <1>2, <1>1 DEF RemoveFirst
  <2> HIDE DEF t
  <2> QED BY <2>1, <1>2 DEF t
<1>3. CASE \E i \in DOMAIN seq : seq[i] = e
  <2>1. PICK i \in 1 .. Len(seq) : seq[i] = e BY <1>3, <1>1
  <2>2. t = RemoveAt(seq, i) BY <2>1, RemovedFirst
  <2> HIDE DEF t
  <2>3. /\ t \in Seq(Nat) /\ Len(t) = Len(seq) - 1
        /\ \A j \in 1 .. (Len(seq) - 1) : t[j] = IF j < i THEN seq[j] ELSE seq[j + 1]
    <3> DEFINE r == RemoveAt(seq, i)
    <3>1. /\ r \in Seq(Nat) /\ Len(r) = Len(seq) - 1
          /\ \A j \in 1 .. (Len(seq) - 1) : r[j] = IF j < i THEN seq[j] ELSE seq[j + 1]
      BY RemovedAt
    <3> HIDE DEF r
    <3> QED BY <2>2, <3>1 DEF r
  <2>4. DOMAIN t = 1 .. (Len(seq) - 1) BY <2>3, LenProperties
  <2>5. ASSUME NEW j \in DOMAIN t PROVE \E x \in DOMAIN seq : t[j] = seq[x] /\ seq[x] # e
    <3>1. CASE j < i
      <4>1. j \in DOMAIN seq /\ t[j] = seq[j] /\ j # i BY <3>1, <1>1, <2>3, <2>4
      <4> QED BY <4>1, <1>1, <2>1
    <3>2. CASE ~(j < i)
      <4>1. j + 1 \in DOMAIN seq /\ t[j] = seq[j + 1] /\ j + 1 # i BY <3>2, <1>1, <2>3, <2>4, SMTT(60)
      <4> QED BY <4>1, <1>1, <2>1
    <3> QED BY <3>1, <3>2
  <2>6. ASSUME NEW x \in DOMAIN seq, seq[x] # e PROVE \E j \in DOMAIN t : t[j] = seq[x]
    <3>1. x # i BY <2>6, <2>1
    <3>2. CASE x < i
      <4>1. x \in DOMAIN t /\ t[x] = seq[x] BY <3>2, <1>1, <2>3, <2>4
      <4> QED BY <4>1
    <3>3. CASE x > i
      <4>1. x - 1 \in DOMAIN t /\ t[x - 1] = seq[x] BY <3>3, <1>1, <2>3, <2>4, SMTT(60)
      <4> QED BY <4>1
    <3> QED BY <3>1, <3>2, <3>3, <1>1
  <2>7. ASSUME NEW x \in DOMAIN t, NEW y \in DOMAIN t, t[x] = t[y] PROVE x = y
    <3> DEFINE at(z) == IF z < i THEN z ELSE z + 1
    <3>1. ASSUME NEW z \in DOMAIN t PROVE at(z) \in DOMAIN seq /\ t[z] = seq[at(z)]
      <4>0. z \in 1 .. (Len(seq) - 1) BY <2>4
      <4>1. z \in Nat /\ z + 1 <= Len(seq) /\ t[z] = IF z < i THEN seq[z] ELSE seq[z + 1]
        <5>1. t[z] = IF z < i THEN seq[z] ELSE seq[z + 1] BY <4>0, <2>3
        <5> QED BY <4>0, <5>1, <1>1
      <4>2. CASE z < i BY <4>1, <4>2, <1>1, <2>4
      <4>3. CASE ~(z < i) BY <4>1, <4>3, <1>1, <2>4
      <4> QED BY <4>2, <4>3
    <3>2. at(x) = at(y) BY <2>7, <3>1
    <3> QED BY <3>2, <1>1, <2>4
  <2> QED BY <2>3, <2>5, <2>6, <2>7 DEF t
<1> QED BY <1>2, <1>3

-----------------------------------------------------------------------------
(* Runs that are queued and suspended. *)

\* A run at the end of a queue.
LEMMA RunQueued ==
  ASSUME NEW s, NEW q, Scheduled(s, q), NEW r \in Runs, RunOK(s, r)
  PROVE  LET n == Append(q, r)
         IN  /\ Scheduled(s, n) /\ Len(n) = Len(q) + 1 /\ n[Len(q) + 1] = r /\ Len(q) \in Nat
             /\ \A i \in 1 .. Len(q) : n[i] = q[i]
<1> DEFINE n == Append(q, r)
<1>1. q \in Seq(Runs) /\ Len(q) \in Nat BY LenProperties DEF Scheduled
<1>2. n \in Seq(Runs) /\ Len(n) = Len(q) + 1 /\ n[Len(q) + 1] = r /\ \A i \in 1 .. Len(q) : n[i] = q[i]
  BY <1>1, AppendProperties
<1> HIDE DEF n
<1>3. \A i \in 1 .. Len(n) : i \in 1 .. Len(q) \/ i = Len(q) + 1 BY <1>1, <1>2
<1>4. \A i \in 1 .. Len(n) : RunOK(s, n[i]) BY <1>2, <1>3 DEF Scheduled
<1> QED BY <1>1, <1>2, <1>4 DEF n, Scheduled

\* A run that is taken out of a queue.
LEMMA RunRemoved ==
  ASSUME NEW s, NEW q, Scheduled(s, q), NEW i \in 1 .. Len(q)
  PROVE  LET n == RemoveAt(q, i)
         IN  /\ Scheduled(s, n) /\ Len(q) \in Nat /\ Len(n) = Len(q) - 1
             /\ \A j \in 1 .. Len(n) : LET k == IF j < i THEN j ELSE j + 1
                                       IN  k \in 1 .. Len(q) /\ k # i /\ n[j] = q[k]
<1> DEFINE n == RemoveAt(q, i)
<1>1. q \in Seq(Runs) /\ Len(q) \in Nat BY LenProperties DEF Scheduled
<1>2. n \in Seq(Runs) /\ Len(n) = Len(q) - 1 /\ \A j \in 1 .. (Len(q) - 1) : n[j] = IF j < i THEN q[j] ELSE q[j + 1]
  BY <1>1, RemovedAt
<1> HIDE DEF n
<1>3. ASSUME NEW j \in 1 .. Len(n)
      PROVE  LET k == IF j < i THEN j ELSE j + 1
             IN  k \in 1 .. Len(q) /\ k # i /\ n[j] = q[k]
  <2>1. j \in 1 .. (Len(q) - 1) BY <1>2
  <2>2. n[j] = IF j < i THEN q[j] ELSE q[j + 1] BY <1>2, <2>1
  <2>3. CASE j < i BY <1>1, <2>1, <2>2, <2>3
  <2>4. CASE ~(j < i) BY <1>1, <2>1, <2>2, <2>4
  <2> QED BY <2>3, <2>4
<1>4. \A j \in 1 .. Len(n) : RunOK(s, n[j]) BY <1>3 DEF Scheduled
<1> QED BY <1>1, <1>2, <1>3, <1>4 DEF n, Scheduled

\* The runs of a thread, and the first of them.
LEMMA RunFound ==
  ASSUME NEW s, NEW q, Scheduled(s, q), NEW t
  PROVE  /\ RunsOf(q, t) = {i \in 1 .. Len(q) : q[i].thread = t}
         /\ RunsOf(q, t) # {} =>
              LET i == FirstRun(q, t) IN i \in 1 .. Len(q) /\ q[i].thread = t /\ q[i] \in Runs /\ RunOK(s, q[i])
<1> DEFINE S == {i \in 1 .. Len(q) : q[i].thread = t}
           c == CHOOSE i \in S : \A j \in S : i <= j
<1>1. q \in Seq(Runs) /\ Len(q) \in Nat /\ DOMAIN q = 1 .. Len(q) /\ \A i \in 1 .. Len(q) : q[i] \in Runs
  BY LenProperties, ElementOfSeq DEF Scheduled
<1>2. RunsOf(q, t) = S BY <1>1 DEF RunsOf
<1>3. ASSUME S # {} PROVE LET i == FirstRun(q, t) IN i \in S
  <2>1. FirstRun(q, t) = c BY <1>2 DEF FirstRun
  <2>2. S \subseteq Nat OBVIOUS
  <2> HIDE DEF S
  <2>3. \E x \in S : \A y \in S : x <= y BY <1>3, <2>2, LeastOf
  <2> QED BY <2>1, <2>3
<1>4. ASSUME NEW i \in S PROVE i \in 1 .. Len(q) /\ q[i].thread = t /\ q[i] \in Runs /\ RunOK(s, q[i])
  BY <1>1 DEF Scheduled
<1> QED BY <1>2, <1>3, <1>4

\* A suspended run joins the others.
LEMMA RunWaits ==
  ASSUME NEW s, NEW w, Scheduled(s, w), Waiting(s, w), NEW r \in Runs, RunOK(s, r),
         r.thread # 0, s.objects[r.thread].suspend >= 1, \A i \in 1 .. Len(w) : w[i].thread # r.thread
  PROVE  Scheduled(s, Append(w, r)) /\ Waiting(s, Append(w, r))
<1> DEFINE n == Append(w, r)
           k == Len(w) + 1
<1>1. /\ Scheduled(s, n) /\ Len(n) = k /\ n[k] = r /\ Len(w) \in Nat
      /\ \A i \in 1 .. Len(w) : n[i] = w[i]
  BY RunQueued
<1> HIDE DEF n
<1>2. \A i \in 1 .. Len(n) : i \in 1 .. Len(w) \/ i = k BY <1>1
<1>3. \A i \in 1 .. Len(n) : n[i].thread # 0 /\ s.objects[n[i].thread].suspend >= 1 BY <1>1, <1>2 DEF Waiting
<1>4. \A i, j \in 1 .. Len(n) : n[i].thread = n[j].thread => i = j
  <2>1. ASSUME NEW i \in 1 .. Len(n), NEW j \in 1 .. Len(n), n[i].thread = n[j].thread PROVE i = j
    <3>1. CASE i = k /\ j = k BY <3>1
    <3>2. CASE i \in 1 .. Len(w) /\ j \in 1 .. Len(w) BY <1>1, <2>1, <3>2 DEF Waiting
    <3>3. CASE i = k /\ j \in 1 .. Len(w) BY <1>1, <2>1, <3>3
    <3>4. CASE j = k /\ i \in 1 .. Len(w) BY <1>1, <2>1, <3>4
    <3> QED BY <1>2, <3>1, <3>2, <3>3, <3>4
  <2> QED BY <2>1
<1> QED BY <1>1, <1>3, <1>4 DEF Waiting, n

\* The suspend count of a thread is set.
LEMMA CountSet ==
  ASSUME NEW s, Good(s), NEW t \in Ids(s), NEW i \in Nat
  PROVE  LET u == [s EXCEPT !.objects[t].suspend = i]
         IN  /\ Good(u) /\ Larger(s, u) /\ Ids(u) = Ids(s) /\ Len(u.objects) = Len(s.objects)
             /\ u.objects[t].suspend = i /\ \A x \in Ids(s) : x # t => u.objects[x].suspend = s.objects[x].suspend
<1> DEFINE r == [s.objects[t] EXCEPT !.suspend = i]
           u == [s EXCEPT !.objects[t] = r]
<1>0. s.objects[t] \in Object BY StoreTypes DEF Good
<1>1. r \in Object /\ Still(s.objects[t], r) /\ r.ref = s.objects[t].ref /\ r.token = s.objects[t].token /\ r.suspend = i
  BY <1>0, CountOf
<1>2. [s EXCEPT !.objects[t].suspend = i] = u OBVIOUS
<1> HIDE DEF r
<1>3. /\ Good(u) /\ Larger(s, u) /\ Ids(u) = Ids(s) /\ Len(u.objects) = Len(s.objects)
      /\ u.objects[t] = r /\ \A x \in Ids(s) : x # t => u.objects[x] = s.objects[x]
  BY <1>1, FieldChanged
<1> HIDE DEF u
<1> QED BY <1>1, <1>2, <1>3

\* create_thread: a thread, its handle, and its run in the queue or among the suspended ones.
LEMMA ThreadCreated ==
  ASSUME NEW s, Good(s), NEW p, IsKind(s, p, "process"), NEW b \in BOOLEAN, create_thread(s, p, b),
         Scheduled(s, queue), Scheduled(s, suspended), Waiting(s, suspended)
  PROVE  /\ Good(store') /\ Larger(s, store') /\ Len(store'.objects) <= MaxObjects
         /\ Scheduled(store', queue') /\ Scheduled(store', suspended') /\ Waiting(store', suspended')
<1> DEFINE n == Len(s.objects) + 1
           t == Thread(s, p)
           v == new_handle(t, cur.process, n)
           c == IF b THEN 1 ELSE v.objects[n].suspend
           u == [v EXCEPT !.objects[n].suspend = c]
           run == [thread |-> n, process |-> p]
<1>0. /\ StoreOK(s) /\ Len(s.objects) \in Nat /\ Ids(s) = 1 .. Len(s.objects) /\ p \in Ids(s) /\ p \in Nat
      /\ n \notin Ids(s) /\ n \in Nat /\ n # 0
  BY StoreTypes DEF Good, IsKind
<1>1. /\ Good(t) /\ Grown(s, t) /\ Len(t.objects) = n /\ n \in Ids(t)
      /\ t.objects[n].type = "thread"
  <2>1. LET x == Thread(s, p)
        IN  /\ Good(x) /\ Grown(s, x) /\ Len(x.objects) = n /\ Ids(x) = Ids(s) \cup {n} /\ x.objects[n].type = "thread"
    BY <1>0, NewThread
  <2> HIDE DEF t, n
  <2> QED BY <2>1 DEF t
<1>2. /\ store' = u /\ Len(u.objects) <= MaxObjects
      /\ queue' = IF b THEN queue ELSE Append(queue, run)
      /\ suspended' = IF b THEN Append(suspended, run) ELSE suspended
  <2>1. Newest(t) = n BY <1>1 DEF Newest
  <2> HIDE DEF t, n
  <2> QED BY <2>1 DEF create_thread, Fits, t
<1> HIDE DEF t
<1>3. Good(v) /\ Grown(t, v) /\ Ids(v) = Ids(t)
  BY <1>1, NewHandle DEF Sync
<1> HIDE DEF v
<1>4. n \in Ids(v) /\ c \in Nat /\ v.objects[n].type = "thread"
  BY <1>1, <1>3, StoreTypes DEF Good, Grown, Larger, Still
<1> HIDE DEF c
<1>5. /\ Good(u) /\ Larger(v, u) /\ u.objects[n].suspend = c
      /\ \A x \in Ids(v) : x # n => u.objects[x].suspend = v.objects[x].suspend
  BY <1>3, <1>4, CountSet
<1> HIDE DEF u
<1>6. StoreOK(t) /\ StoreOK(v) /\ StoreOK(u) BY <1>1, <1>3, <1>5 DEF Good
<1>7. Grown(s, v) BY <1>0, <1>1, <1>3, <1>6, GrownOn
<1>8. Ids(s) \subseteq Ids(v) BY <1>0, <1>6, <1>7, KindsStay DEF Grown
<1>9. SameCounts(s, u)
  <2>1. \A x \in Ids(s) : x # n /\ x \in Ids(v) BY <1>0, <1>8
  <2> QED BY <1>5, <1>7, <2>1 DEF SameCounts, Grown
<1>10. Larger(s, u) BY <1>0, <1>5, <1>6, <1>7, LargerOn DEF Grown
<1>11. Scheduled(u, queue) /\ Scheduled(u, suspended) /\ Waiting(u, suspended)
  BY <1>0, <1>6, <1>9, <1>10, WorldStays
<1>12. run \in Runs /\ RunOK(u, run) /\ run.thread = n
  <2>1. IsKind(v, n, "thread") BY <1>4 DEF IsKind
  <2>2. IsKind(u, n, "thread") BY <1>5, <1>6, <2>1, KindsStay
  <2>3. IsKind(u, p, "process") BY <1>0, <1>6, <1>10, KindsStay
  <2> HIDE DEF n
  <2> QED BY <1>0, <2>2, <2>3 DEF Runs, RunOK
<1> HIDE DEF run
<1>13. CASE b
  <2>1. c = 1 BY <1>13 DEF c
  <2>2. \A i \in 1 .. Len(suspended) : suspended[i].thread # n
    <3>1. \A i \in 1 .. Len(suspended) : suspended[i].thread \in Ids(s)
      BY DEF Scheduled, RunOK, Waiting, IsKind
    <3> QED BY <1>0, <3>1
  <2>3. Scheduled(u, Append(suspended, run)) /\ Waiting(u, Append(suspended, run))
    <3>1. u.objects[run.thread].suspend >= 1 /\ run.thread # 0 BY <1>0, <1>5, <1>12, <2>1
    <3>2. \A i \in 1 .. Len(suspended) : suspended[i].thread # run.thread BY <1>12, <2>2
    <3> HIDE DEF n
    <3> QED BY <1>11, <1>12, <3>1, <3>2, RunWaits
  <2> QED BY <1>2, <1>5, <1>10, <1>11, <1>13, <2>3
<1>14. CASE ~b
  <2>1. Scheduled(u, Append(queue, run)) BY <1>11, <1>12, RunQueued
  <2> QED BY <1>2, <1>5, <1>10, <1>11, <1>14, <2>1
<1> QED BY <1>13, <1>14

-----------------------------------------------------------------------------
(* Processes and threads. *)

\* TerminateProcess: the process leaves the list.
LEMMA TerminateKeeps ==
  ASSUME IInv, NEW h, TerminateProcess(h)
  PROVE  Kept
<1> DEFINE p == Obj(h, {"process"})
           ps == RemoveFirst(processes, p)
<1>1. /\ processes' = ps /\ store' = store /\ cur' = cur /\ queue' = queue /\ suspended' = suspended
      /\ children' = children
  BY DEF TerminateProcess, kill_process
<1>2. World(store, cur, queue, suspended, processes, children) /\ Listed(store, processes) /\ Good(store)
  BY DEF IInv, World
<1> HIDE DEF p
<1>3. Listed(store, ps)
  <2>1. /\ ps \in Seq(Nat)
        /\ \A j \in DOMAIN ps : \E i \in DOMAIN processes : ps[j] = processes[i] /\ processes[i] # p
        /\ \A i, j \in DOMAIN ps : ps[i] = ps[j] => i = j
    BY <1>2, Removed DEF Listed
  <2> HIDE DEF ps
  <2> QED BY <1>2, <2>1 DEF Listed
<1> HIDE DEF ps
<1>4. Larger(store, store) BY <1>2, NothingAdded DEF Grown
<1> QED BY <1>1, <1>2, <1>3, <1>4 DEF Kept, IInv, World

\* A child that was started or injected into leaves the list of children.
LEMMA ChildRemoved ==
  ASSUME NEW s, NEW cs, Startable(s, cs), NEW p
  PROVE  Startable(s, RemoveFirst(cs, p))
<1> DEFINE ps == RemoveFirst(cs, p)
<1>1. /\ ps \in Seq(Nat)
      /\ \A j \in DOMAIN ps : \E i \in DOMAIN cs : ps[j] = cs[i] /\ cs[i] # p
      /\ \A i, j \in DOMAIN ps : ps[i] = ps[j] => i = j
  BY Removed DEF Startable, Listed
<1> HIDE DEF ps
<1>2. Startable(s, ps) BY <1>1 DEF Startable, Listed
<1> QED BY <1>2 DEF ps

\* CreateThread and CreateRemoteThread.
LEMMA CreateThreadKeeps ==
  ASSUME IInv, NEW p, IsKind(store, p, "process"), NEW b \in BOOLEAN, create_thread(store, p, b),
         UNCHANGED <<cur, processes, children, std>>
  PROVE  Kept
<1>1. World(store, cur, queue, suspended, processes, children) BY DEF IInv
<1>2. /\ Good(store') /\ Larger(store, store') /\ Len(store'.objects) <= MaxObjects
      /\ Scheduled(store', queue') /\ Scheduled(store', suspended') /\ Waiting(store', suspended')
  BY <1>1, ThreadCreated DEF World
<1>3. Current(store', cur) /\ Listed(store', processes) /\ Startable(store', children)
  BY <1>1, <1>2, WorldStays DEF World, Good
<1> QED BY <1>2, <1>3 DEF Kept, IInv, World

\* CreateProcess: a process with its thread and a handle to each.
LEMMA CreateProcessKeeps ==
  ASSUME IInv, NEW b \in BOOLEAN, CreateProcess(b)
  PROVE  Kept
<1> DEFINE p == Len(store.objects) + 1
           n == p + 1
           a == Process(store, NoName)
           s == Thread(a, p)
           t1 == get_object_handle(s, p)
           t == get_object_handle(t1, n)
           c == IF b THEN 1 ELSE 0
           u == [t EXCEPT !.objects[n].suspend = c]
<1>0. /\ World(store, cur, queue, suspended, processes, children) /\ Good(store) /\ StoreOK(store)
      /\ Len(store.objects) \in Nat /\ Ids(store) = 1 .. Len(store.objects) /\ p \in Nat /\ n \in Nat
  BY StoreTypes DEF IInv, World, Good
<1>1. /\ Good(a) /\ Grown(store, a) /\ Len(a.objects) = p /\ Ids(a) = Ids(store) \cup {p}
      /\ a.objects[p].type = "process" /\ a.om = store.om \cup {p}
  <2>1. NoName \in ObjectNames BY DEF ObjectNames
  <2> QED BY <1>0, <2>1, NewProcess
<1>2. /\ store' = u /\ Len(u.objects) <= MaxObjects /\ children' = Append(children, p)
      /\ cur' = cur /\ queue' = queue /\ suspended' = suspended /\ processes' = processes
  <2>1. create_process = Thread(Process(store, ""), Newest(Process(store, ""))) BY Zenon DEF create_process
  <2>2. create_process = Thread(a, Newest(a)) BY <2>1, Zenon DEF NoName
  <2>3. Newest(a) = p /\ Newest(store) + 1 = p BY <1>1 DEF Newest
  <2>4. create_process = s BY <2>2, <2>3
  <2>5. Newest(s) = n
    <3>1. Len(s.objects) = n
      <4> HIDE DEF a
      <4> QED BY <1>0, <1>1, NewThread
    <3> QED BY <3>1 DEF Newest
  <2> HIDE DEF s, p, n, a
  <2> QED BY <2>3, <2>4, <2>5 DEF CreateProcess, Fits
<1> HIDE DEF a
<1>3. /\ Good(s) /\ Grown(a, s) /\ Len(s.objects) = n /\ Ids(s) = Ids(a) \cup {n}
      /\ s.objects[n].type = "thread" /\ s.objects[n].process = p /\ s.om = a.om \cup {n}
  BY <1>0, <1>1, NewThread, SMTT(60)
<1> HIDE DEF s
<1>4. Good(t1) /\ Grown(s, t1) /\ Ids(t1) = Ids(s) /\ t1.om = s.om
  <2>1. p \in s.om BY <1>1, <1>3
  <2> QED BY <1>3, <2>1, KnownHandle
<1> HIDE DEF t1
<1>5. Good(t) /\ Grown(t1, t) /\ Ids(t) = Ids(t1)
  <2>1. n \in t1.om BY <1>3, <1>4
  <2> QED BY <1>4, <2>1, KnownHandle
<1> HIDE DEF t
<1>6. n \in Ids(t) /\ c \in Nat BY <1>3, <1>4, <1>5
<1> HIDE DEF c
<1>7. /\ Good(u) /\ Larger(t, u) /\ Ids(u) = Ids(t)
      /\ \A x \in Ids(t) : x # n => u.objects[x].suspend = t.objects[x].suspend
  BY <1>5, <1>6, CountSet
<1> HIDE DEF u
<1>8. StoreOK(a) /\ StoreOK(s) /\ StoreOK(t1) /\ StoreOK(t) /\ StoreOK(u) BY <1>1, <1>3, <1>4, <1>5, <1>7 DEF Good
<1>9. Grown(s, t) BY <1>4, <1>5, <1>8, GrownOn
<1>10. Grown(store, t)
  <2>1. Grown(store, s) BY <1>0, <1>1, <1>3, <1>8, GrownOn
  <2> QED BY <1>0, <1>8, <1>9, <2>1, GrownOn
<1>11. Larger(store, u) /\ Ids(store) \subseteq Ids(t) BY <1>0, <1>7, <1>8, <1>10, LargerOn DEF Grown
<1>12. SameCounts(store, u)
  <2>1. \A x \in Ids(store) : x # n BY <1>0
  <2> QED BY <1>7, <1>10, <1>11, <2>1 DEF SameCounts, Grown
<1>13. /\ Current(u, cur) /\ Scheduled(u, queue) /\ Scheduled(u, suspended) /\ Waiting(u, suspended)
       /\ Listed(u, processes) /\ Startable(u, children)
  BY <1>0, <1>8, <1>11, <1>12, WorldStays DEF World
<1>14. Startable(u, Append(children, p))
  <2> DEFINE cs == Append(children, p)
  <2>1. IsKind(a, p, "process") /\ Larger(a, s) BY <1>1, <1>3 DEF IsKind, Grown
  <2>2. IsKind(s, p, "process") BY <1>8, <2>1, KindsStay
  <2>3. IsKind(t, p, "process") BY <1>8, <1>9, <2>2, KindsStay DEF Grown
  <2>4. IsKind(u, p, "process") BY <1>7, <1>8, <2>3, KindsStay
  <2>5. ThreadOf(s, p) BY <1>3 DEF ThreadOf
  <2>6. ThreadOf(t, p) BY <1>8, <1>9, <2>5, KindsStay DEF Grown
  <2>7. ThreadOf(u, p) BY <1>7, <1>8, <2>6, KindsStay
  <2>8. /\ children \in Seq(Nat) /\ Len(children) \in Nat /\ DOMAIN children = 1 .. Len(children)
        /\ \A i \in 1 .. Len(children) : children[i] \in Ids(store)
    BY <1>0, LenProperties DEF World, Startable, Listed, IsKind
  <2>9. /\ cs \in Seq(Nat) /\ Len(cs) = Len(children) + 1 /\ cs[Len(children) + 1] = p
        /\ \A i \in 1 .. Len(children) : cs[i] = children[i]
    BY <1>0, <2>8, AppendProperties
  <2> HIDE DEF cs
  <2>10. DOMAIN cs = 1 .. (Len(children) + 1) BY <2>9, LenProperties
  <2>11. \A i \in DOMAIN cs : i \in DOMAIN children \/ i = Len(children) + 1 BY <2>8, <2>10
  <2>12. p \notin Ids(store) BY <1>0
  <2> HIDE DEF p
  <2>13. \A i \in DOMAIN cs : IsKind(u, cs[i], "process") /\ ThreadOf(u, cs[i])
    BY <1>13, <2>4, <2>7, <2>8, <2>9, <2>11 DEF Startable, Listed
  <2>14. ASSUME NEW i \in DOMAIN cs, NEW j \in DOMAIN cs, cs[i] = cs[j] PROVE i = j
    <3>1. CASE i \in DOMAIN children /\ j \in DOMAIN children
      BY <1>13, <2>8, <2>9, <2>14, <3>1 DEF Startable, Listed
    <3>2. CASE i \in DOMAIN children /\ j = Len(children) + 1 BY <2>8, <2>9, <2>12, <2>14, <3>2
    <3>3. CASE j \in DOMAIN children /\ i = Len(children) + 1 BY <2>8, <2>9, <2>12, <2>14, <3>3
    <3> QED BY <2>11, <3>1, <3>2, <3>3
  <2> QED BY <2>9, <2>13, <2>14 DEF Startable, Listed, cs
<1> QED BY <1>2, <1>7, <1>11, <1>13, <1>14 DEF Kept, IInv, World

\* WriteProcessMemory and SetThreadContext mark a child.
LEMMA ModifyKeeps ==
  ASSUME IInv, NEW h, WriteProcessMemory(h) \/ SetThreadContext(h)
  PROVE  Kept
<1>1. PICK p : Modified(p) BY DEF WriteProcessMemory, SetThreadContext
<1> DEFINE r == [store.objects[p] EXCEPT !.modified = TRUE]
           t == [store EXCEPT !.objects[p] = r]
<1>2. Good(store) /\ Startable(store, children) BY DEF IInv, World
<1>3. p \in Ids(store)
  <2>1. \E i \in DOMAIN children : children[i] = p BY <1>1 DEF Modified, ToSet
  <2> QED BY <1>2, <2>1 DEF Startable, Listed, IsKind
<1>4. [store EXCEPT !.objects[p].modified = TRUE] = t OBVIOUS
<1>5. Becomes(t) BY <1>1, <1>4 DEF Modified
<1>6. store.objects[p] \in Object BY <1>2, <1>3, StoreTypes DEF Good
<1>7. /\ r \in Object /\ Still(store.objects[p], r) /\ r.ref = store.objects[p].ref
      /\ r.suspend = store.objects[p].suspend /\ r.token = store.objects[p].token
  <2>1. TRUE \in BOOLEAN BY Zenon
  <2> QED BY <1>6, <2>1, ModifiedSet
<1> HIDE DEF r
<1>8. Good(t) /\ Grown(store, t) BY <1>2, <1>3, <1>7, FieldChanged
<1> HIDE DEF t
<1> QED BY <1>5, <1>8, Becoming

\* A service table queues a run without a thread, and exit_process ends the run in progress.
LEMMA DispatchKeeps ==
  ASSUME IInv, StartServiceCtrlDispatcher \/ exit_process
  PROVE  Kept
<1>0. World(store, cur, queue, suspended, processes, children) /\ Good(store) BY DEF IInv, World
<1>1. Larger(store, store) BY <1>0, NothingAdded DEF Grown
<1>2. CASE StartServiceCtrlDispatcher
  <2> DEFINE r == [thread |-> 0, process |-> cur.process]
  <2>1. /\ queue' = Append(queue, r) /\ store' = store /\ cur' = cur /\ suspended' = suspended
        /\ processes' = processes /\ children' = children
    BY <1>2 DEF StartServiceCtrlDispatcher
  <2>2. r \in Runs /\ RunOK(store, r)
    BY <1>0, StoreTypes DEF World, Good, Current, IsKind, Runs, RunOK
  <2> HIDE DEF r
  <2>3. Scheduled(store, Append(queue, r)) BY <1>0, <2>2, RunQueued DEF World
  <2> QED BY <1>0, <1>1, <2>1, <2>3 DEF Kept, IInv, World
<1>3. CASE exit_process
  <2>1. /\ cur' = [cur EXCEPT !.running = FALSE] /\ store' = store /\ queue' = queue /\ suspended' = suspended
        /\ processes' = processes /\ children' = children
    BY <1>3 DEF exit_process
  <2>2. cur = [process |-> cur.process, thread |-> cur.thread, running |-> cur.running] BY <1>0 DEF World, Current
  <2>3. cur' = [process |-> cur.process, thread |-> cur.thread, running |-> FALSE] BY <2>1, <2>2
  <2>4. cur'.process = cur.process /\ cur'.thread = cur.thread
        /\ cur' = [process |-> cur'.process, thread |-> cur'.thread, running |-> cur'.running]
    BY <2>3, Zenon
  <2>5. Current(store, cur') BY <1>0, <2>4 DEF World, Current
  <2> QED BY <1>0, <1>1, <2>1, <2>5 DEF Kept, IInv, World
<1> QED BY <1>2, <1>3

\* ResumeThread: the count goes down, and at 0 the suspended run of the thread, or of an injected child, starts.
LEMMA ResumeKeeps ==
  ASSUME IInv, NEW h, ResumeThread(h)
  PROVE  Kept
<1> DEFINE t == Obj(h, {"thread"})
           count == store.objects[t].suspend
           c == IF count > 0 THEN count - 1 ELSE count
           s == [store EXCEPT !.objects[t].suspend = c]
           p == store.objects[t].process
           injected == p \in ToSet(children) /\ store.objects[p].modified
<1>0. World(store, cur, queue, suspended, processes, children) /\ Good(store) /\ StoreOK(store) BY DEF IInv, World, Good
<1>1. /\ t # 0 /\ cur' = cur /\ processes' = processes
      /\ \/ /\ count # 1 \/ (RunsOf(suspended, t) = {} /\ ~injected)
            /\ store' = s
            /\ UNCHANGED <<queue, suspended, children>>
         \/ /\ count = 1 /\ RunsOf(suspended, t) # {}
            /\ store' = s /\ resume_thread(t)
            /\ UNCHANGED children
         \/ /\ count = 1 /\ RunsOf(suspended, t) = {} /\ injected
            /\ \/ create_thread(s, p, FALSE)
               \/ store' = s /\ UNCHANGED <<queue, suspended>>
            /\ children' = RemoveFirst(children, p)
  <2>1. [store EXCEPT !.objects[t].suspend = IF count > 0 THEN @ - 1 ELSE @] = s OBVIOUS
  <2> HIDE DEF s
  <2> QED BY <2>1 DEF ResumeThread
<1>2. IsKind(store, t, "thread") BY <1>1, FoundProcess
<1> HIDE DEF t
<1>3. count \in Nat /\ c \in Nat /\ t \in Ids(store) BY <1>0, <1>2, StoreTypes DEF IsKind
<1>4. /\ Good(s) /\ Larger(store, s) /\ Ids(s) = Ids(store) /\ Len(s.objects) = Len(store.objects)
      /\ s.objects[t].suspend = c /\ \A x \in Ids(store) : x # t => s.objects[x].suspend = store.objects[x].suspend
  <2> HIDE DEF c
  <2> QED BY <1>0, <1>3, CountSet
<1> HIDE DEF s, injected
<1>5. StoreOK(s) /\ Len(s.objects) <= MaxObjects BY <1>0, <1>4 DEF Good, World
<1>6. Current(s, cur) /\ Scheduled(s, queue) /\ Scheduled(s, suspended) /\ Listed(s, processes) /\ Startable(s, children)
  BY <1>0, <1>4, <1>5, WorldStays DEF World
<1>7. Scheduled(store, suspended) /\ Waiting(store, suspended) /\ \A i \in 1 .. Len(suspended) : suspended[i].thread \in Ids(store)
  BY <1>0 DEF World, Scheduled, RunOK, Waiting, IsKind
<1>8. RunsOf(suspended, t) = {i \in 1 .. Len(suspended) : suspended[i].thread = t} BY <1>7, RunFound
<1>9. CASE count # 1 \/ RunsOf(suspended, t) = {}
  <2>1. Waiting(s, suspended)
    <3>1. ASSUME NEW i \in 1 .. Len(suspended)
          PROVE  suspended[i].thread # 0 /\ s.objects[suspended[i].thread].suspend >= 1
      <4>1. suspended[i].thread # 0 /\ store.objects[suspended[i].thread].suspend >= 1 BY <1>7 DEF Waiting
      <4>2. CASE suspended[i].thread # t
        <5>1. s.objects[suspended[i].thread].suspend = store.objects[suspended[i].thread].suspend BY <1>4, <1>7, <4>2
        <5> QED BY <4>1, <5>1
      <4>3. CASE suspended[i].thread = t
        <5>1. RunsOf(suspended, t) # {} BY <1>8, <4>3
        <5>2. count >= 1 /\ count # 1 BY <1>9, <4>1, <4>3, <5>1
        <5>3. c >= 1 BY <1>3, <5>2
        <5> HIDE DEF c
        <5> QED BY <1>4, <4>1, <4>3, <5>3
      <4> QED BY <4>2, <4>3
    <3> QED BY <1>7, <3>1 DEF Waiting
  <2>2. CASE store' = s /\ UNCHANGED <<queue, suspended, children>>
    BY <1>1, <1>4, <1>5, <1>6, <2>1, <2>2 DEF Kept, IInv, World
  <2>3. CASE /\ injected
             /\ \/ create_thread(s, p, FALSE)
                \/ store' = s /\ UNCHANGED <<queue, suspended>>
             /\ children' = RemoveFirst(children, p)
    <3>1. Startable(s, RemoveFirst(children, p)) BY <1>6, ChildRemoved
    <3> DEFINE cs == RemoveFirst(children, p)
    <3>2. Startable(s, cs) /\ children' = cs BY <2>3, <3>1
    <3> HIDE DEF cs
    <3>3. CASE store' = s /\ UNCHANGED <<queue, suspended>>
      BY <1>1, <1>4, <1>5, <1>6, <2>1, <3>2, <3>3 DEF Kept, IInv, World
    <3>4. CASE create_thread(s, p, FALSE)
      <4>1. IsKind(s, p, "process")
        <5>1. \E i \in DOMAIN children : children[i] = p BY <2>3 DEF injected, ToSet
        <5> QED BY <1>6, <5>1 DEF Startable, Listed
      <4> HIDE DEF p
      <4>2. FALSE \in BOOLEAN BY Zenon
      <4>3. /\ Good(store') /\ Larger(s, store') /\ Len(store'.objects) <= MaxObjects
            /\ Scheduled(store', queue') /\ Scheduled(store', suspended') /\ Waiting(store', suspended')
        BY <1>4, <1>6, <2>1, <3>4, <4>1, <4>2, ThreadCreated
      <4>4. StoreOK(store') BY <4>3 DEF Good
      <4>5. Larger(store, store') BY <1>0, <1>4, <1>5, <4>3, <4>4, LargerOn
      <4>6. Current(store', cur) /\ Listed(store', processes) /\ Startable(store', cs)
        BY <1>5, <1>6, <3>2, <4>3, <4>4, WorldStays
      <4> QED BY <1>1, <3>2, <4>3, <4>5, <4>6 DEF Kept, IInv, World
    <3> QED BY <2>3, <3>3, <3>4
  <2> QED BY <1>1, <1>9, <2>2, <2>3
<1>10. CASE /\ count = 1 /\ RunsOf(suspended, t) # {} /\ store' = s /\ resume_thread(t) /\ UNCHANGED children
  <2> DEFINE i == FirstRun(suspended, t)
             w == RemoveAt(suspended, i)
  <2>1. queue' = Append(queue, suspended[i]) /\ suspended' = w BY <1>10 DEF resume_thread
  <2>2. i \in 1 .. Len(suspended) /\ suspended[i].thread = t /\ suspended[i] \in Runs
    BY <1>7, <1>10, RunFound
  <2> HIDE DEF i
  <2>3. RunOK(s, suspended[i]) BY <1>6, <2>2 DEF Scheduled
  <2>4. Scheduled(s, Append(queue, suspended[i])) BY <1>6, <2>2, <2>3, RunQueued
  <2>5. /\ Scheduled(s, w) /\ Len(suspended) \in Nat /\ Len(w) = Len(suspended) - 1
        /\ \A j \in 1 .. Len(w) : LET k == IF j < i THEN j ELSE j + 1
                                  IN  k \in 1 .. Len(suspended) /\ k # i /\ w[j] = suspended[k]
    BY <1>6, <2>2, RunRemoved
  <2> HIDE DEF w
  <2> DEFINE at(j) == IF j < i THEN j ELSE j + 1
  <2>6. \A j \in 1 .. Len(w) : at(j) \in 1 .. Len(suspended) /\ at(j) # i /\ w[j] = suspended[at(j)] BY <2>5
  <2>7. \A j, k \in 1 .. Len(w) : at(j) = at(k) => j = k BY <2>2, <2>5
  <2> HIDE DEF at
  <2>8. \A j \in 1 .. Len(w) : w[j].thread # 0 /\ s.objects[w[j].thread].suspend >= 1
    <3>1. ASSUME NEW j \in 1 .. Len(w) PROVE w[j].thread # 0 /\ s.objects[w[j].thread].suspend >= 1
      <4>1. w[j].thread # t BY <1>7, <2>2, <2>6 DEF Waiting
      <4>2. w[j].thread \in Ids(store) /\ w[j].thread # 0 /\ store.objects[w[j].thread].suspend >= 1
        BY <1>7, <2>6 DEF Waiting
      <4> QED BY <1>4, <4>1, <4>2
    <3> QED BY <3>1
  <2>9. \A j, k \in 1 .. Len(w) : w[j].thread = w[k].thread => j = k
    BY <1>7, <2>6, <2>7 DEF Waiting
  <2>10. Waiting(s, w) BY <2>8, <2>9 DEF Waiting
  <2> QED BY <1>1, <1>4, <1>5, <1>6, <1>10, <2>1, <2>4, <2>5, <2>10 DEF Kept, IInv, World
<1> QED BY <1>1, <1>9, <1>10

\* SuspendThread: the first suspension takes the queued run of a thread that does not run.
LEMMA SuspendKeeps ==
  ASSUME IInv, NEW h, SuspendThread(h)
  PROVE  Kept
<1> DEFINE t == Obj(h, {"thread"})
           count == store.objects[t].suspend
           c == count + 1
           s == [store EXCEPT !.objects[t].suspend = c]
           moves == count = 0 /\ t # cur.thread /\ RunsOf(queue, t) # {}
           i == FirstRun(queue, t)
<1>0. World(store, cur, queue, suspended, processes, children) /\ Good(store) /\ StoreOK(store) BY DEF IInv, World, Good
<1>1. /\ t # 0 /\ store' = s /\ cur' = cur /\ processes' = processes /\ children' = children
      /\ queue' = IF moves THEN RemoveAt(queue, i) ELSE queue
      /\ suspended' = IF moves THEN Append(suspended, queue[i]) ELSE suspended
  BY DEF SuspendThread
<1>2. IsKind(store, t, "thread") BY <1>1, FoundProcess
<1> HIDE DEF t
<1>3. count \in Nat /\ c \in Nat /\ t \in Ids(store) /\ t # 0 BY <1>0, <1>2, StoreTypes DEF IsKind
<1>4. /\ Good(s) /\ Larger(store, s) /\ Ids(s) = Ids(store) /\ Len(s.objects) = Len(store.objects)
      /\ s.objects[t].suspend = c /\ \A x \in Ids(store) : x # t => s.objects[x].suspend = store.objects[x].suspend
  <2> HIDE DEF c
  <2> QED BY <1>0, <1>3, CountSet
<1> HIDE DEF s, i
<1>5. StoreOK(s) /\ Len(s.objects) <= MaxObjects BY <1>0, <1>4 DEF Good, World
<1>6. Current(s, cur) /\ Scheduled(s, queue) /\ Scheduled(s, suspended) /\ Listed(s, processes) /\ Startable(s, children)
  BY <1>0, <1>4, <1>5, WorldStays DEF World
<1>7. Scheduled(store, suspended) /\ Waiting(store, suspended) /\ \A x \in 1 .. Len(suspended) : suspended[x].thread \in Ids(store)
  BY <1>0 DEF World, Scheduled, RunOK, Waiting, IsKind
<1>8. Waiting(s, suspended)
  <2>1. \A x \in Ids(store) : store.objects[x].suspend >= 1 => s.objects[x].suspend >= 1
    <3>1. c >= 1 BY <1>3
    <3> HIDE DEF c
    <3> QED BY <1>4, <3>1
  <2> QED BY <1>7, <2>1 DEF Waiting
<1>9. CASE moves
  <2>1. i \in 1 .. Len(queue) /\ queue[i].thread = t /\ queue[i] \in Runs /\ RunOK(s, queue[i])
    BY <1>6, <1>9, RunFound DEF i
  <2>2. Scheduled(s, RemoveAt(queue, i)) BY <1>6, <2>1, RunRemoved
  <2>3. \A x \in 1 .. Len(suspended) : suspended[x].thread # queue[i].thread BY <1>7, <1>9, <2>1 DEF Waiting
  <2>4. s.objects[queue[i].thread].suspend >= 1 /\ queue[i].thread # 0 BY <1>3, <1>4, <2>1
  <2> DEFINE r == queue[i]
  <2> HIDE DEF r
  <2>5. Scheduled(s, Append(suspended, r)) /\ Waiting(s, Append(suspended, r))
    <3>1. r \in Runs /\ RunOK(s, r) /\ r.thread # 0 /\ s.objects[r.thread].suspend >= 1
          /\ \A x \in 1 .. Len(suspended) : suspended[x].thread # r.thread
      BY <2>1, <2>3, <2>4 DEF r
    <3> QED BY <1>6, <1>8, <3>1, RunWaits
  <2>6. suspended' = Append(suspended, r) /\ queue' = RemoveAt(queue, i) BY <1>1, <1>9 DEF r
  <2> QED BY <1>1, <1>4, <1>5, <1>6, <2>2, <2>5, <2>6 DEF Kept, IInv, World
<1>10. CASE ~moves
  BY <1>1, <1>4, <1>5, <1>6, <1>8, <1>10 DEF Kept, IInv, World
<1> QED BY <1>9, <1>10

\* The next run starts, with a new thread if it has none.
LEMMA ExecKeeps ==
  ASSUME IInv, _exec_run
  PROVE  Kept
<1> DEFINE run == Head(queue)
           s == IF run.thread = 0 THEN Thread(store, run.process) ELSE store
           k == IF run.thread = 0 THEN Newest(s) ELSE run.thread
<1>0. World(store, cur, queue, suspended, processes, children) /\ Good(store) /\ StoreOK(store) BY DEF IInv, World, Good
<1>1. /\ queue # <<>> /\ Len(s.objects) <= MaxObjects /\ store' = s
      /\ cur' = [process |-> run.process, thread |-> k, running |-> TRUE] /\ queue' = Tail(queue)
      /\ suspended' = suspended /\ processes' = processes /\ children' = children
  BY Zenon DEF _exec_run, Fits
<1>2. /\ queue \in Seq(Runs) /\ Len(queue) \in Nat /\ Len(queue) # 0
      /\ run = queue[1] /\ Tail(queue) \in Seq(Runs) /\ Len(Tail(queue)) = Len(queue) - 1
      /\ \A i \in 1 .. Len(Tail(queue)) : Tail(queue)[i] = queue[i + 1]
  BY <1>0, <1>1, HeadTailProperties, LenProperties, EmptySeq DEF World, Scheduled
<1>3. RunOK(store, run) /\ run \in Runs BY <1>0, <1>2, ElementOfSeq DEF World, Scheduled
<1>4. Scheduled(store, Tail(queue))
  <2>1. \A i \in 1 .. Len(Tail(queue)) : i + 1 \in 1 .. Len(queue) BY <1>2
  <2> QED BY <1>0, <1>2, <2>1 DEF World, Scheduled
<1> HIDE DEF run
<1>5. run.process \in Nat /\ run.process \in Ids(store) BY <1>3 DEF Runs, RunOK, IsKind
<1>6. Good(s) /\ Grown(store, s) /\ IsKind(s, k, "thread")
  <2>1. CASE run.thread = 0
    <3> DEFINE t == Thread(store, run.process)
               n == Len(store.objects) + 1
    <3>1. /\ Good(t) /\ Grown(store, t) /\ Len(t.objects) = n /\ Ids(t) = Ids(store) \cup {n}
          /\ t.objects[n].type = "thread"
      BY <1>0, <1>5, NewThread
    <3>2. s = t BY <2>1
    <3> HIDE DEF t, s
    <3>3. k = n BY <2>1, <3>1, <3>2 DEF Newest
    <3> QED BY <3>1, <3>2, <3>3 DEF IsKind
  <2>2. CASE run.thread # 0
    BY <1>0, <1>3, <2>2, NothingAdded DEF RunOK
  <2> QED BY <2>1, <2>2
<1> HIDE DEF s, k
<1>7. StoreOK(s) /\ Larger(store, s) /\ SameCounts(store, s) BY <1>6 DEF Good, Grown
<1>8. /\ Scheduled(s, Tail(queue)) /\ Scheduled(s, suspended) /\ Waiting(s, suspended)
      /\ Listed(s, processes) /\ Startable(s, children)
  BY <1>0, <1>4, <1>7, WorldStays DEF World
<1>9. Current(s, cur')
  <2>1. cur'.process = run.process /\ cur'.thread = k
        /\ cur' = [process |-> cur'.process, thread |-> cur'.thread, running |-> cur'.running]
    BY <1>1, Zenon
  <2>2. IsKind(s, run.process, "process") BY <1>0, <1>3, <1>7, KindsStay DEF RunOK
  <2> QED BY <1>6, <2>1, <2>2 DEF Current
<1>10. World(s, cur', Tail(queue), suspended, processes, children) BY <1>1, <1>6, <1>8, <1>9 DEF World
<1>11. World(store', cur', queue', suspended', processes', children') /\ Larger(store, store')
  BY <1>1, <1>7, <1>10
<1> QED BY <1>11 DEF Kept, IInv

\* A child process starts in its main thread, or does not start.
LEMMA ChildKeeps ==
  ASSUME IInv, run_child
  PROVE  Kept
<1> DEFINE p == Head(children)
           cs == Tail(children)
           m == MainThread(p)
           s == add_object(store, m)
<1>0. World(store, cur, queue, suspended, processes, children) /\ Good(store) /\ StoreOK(store) /\ Startable(store, children)
  BY DEF IInv, World, Good
<1>1. /\ children # <<>> /\ children' = cs /\ queue' = queue /\ suspended' = suspended /\ processes' = processes
      /\ \/ store' = store /\ cur' = cur
         \/ store' = s /\ cur' = [process |-> p, thread |-> m, running |-> TRUE]
  BY Zenon DEF run_child
<1>2. /\ children \in Seq(Nat) /\ Len(children) \in Nat /\ Len(children) # 0 /\ DOMAIN children = 1 .. Len(children)
      /\ p = children[1] /\ cs \in Seq(Nat) /\ Len(cs) = Len(children) - 1
      /\ \A i \in 1 .. Len(cs) : cs[i] = children[i + 1]
  BY <1>0, <1>1, HeadTailProperties, LenProperties, EmptySeq DEF Startable, Listed
<1> HIDE DEF p, cs
<1>3. IsKind(store, p, "process") /\ ThreadOf(store, p)
  <2>1. 1 \in DOMAIN children BY <1>2
  <2> QED BY <1>0, <1>2, <2>1 DEF Startable, Listed
<1>4. Startable(store, cs)
  <2>1. DOMAIN cs = 1 .. Len(cs) BY <1>2, LenProperties
  <2>2. \A i \in DOMAIN cs : i + 1 \in DOMAIN children /\ cs[i] = children[i + 1] BY <1>2, <2>1, SMTT(60)
  <2>3. \A i \in DOMAIN cs : IsKind(store, cs[i], "process") /\ ThreadOf(store, cs[i])
    BY <1>0, <2>2 DEF Startable, Listed
  <2>4. ASSUME NEW i \in DOMAIN cs, NEW j \in DOMAIN cs, cs[i] = cs[j] PROVE i = j
    <3>1. i + 1 = j + 1 BY <1>0, <2>2, <2>4 DEF Startable, Listed
    <3> QED BY <2>1, <3>1
  <2> QED BY <1>2, <2>3, <2>4 DEF Startable, Listed
<1>5. IsKind(store, m, "thread")
  <2> DEFINE S == {x \in Ids(store) : store.objects[x].type = "thread" /\ store.objects[x].process = p}
             Main(t) == /\ t \in Ids(store)
                        /\ store.objects[t].type = "thread" /\ store.objects[t].process = p
                        /\ \A x \in Ids(store) :
                             store.objects[x].type = "thread" /\ store.objects[x].process = p => t <= x
  <2>1. S # {} BY <1>3 DEF ThreadOf
  <2>2. S \subseteq Nat BY <1>0, StoreTypes
  <2>3. \E t \in S : \A x \in S : t <= x
    <3> HIDE DEF S
    <3> QED BY <2>1, <2>2, LeastOf
  <2>4. \E t : Main(t) BY <2>3
  <2>5. m \in Ids(store) /\ store.objects[m].type = "thread" BY <2>4 DEF MainThread
  <2> QED BY <2>5 DEF IsKind
<1> HIDE DEF m
<1>6. CASE store' = store /\ cur' = cur
  BY <1>0, <1>1, <1>4, <1>6, NothingAdded DEF Kept, IInv, World, Grown
<1>7. CASE store' = s /\ cur' = [process |-> p, thread |-> m, running |-> TRUE]
  <2>1. Good(s) /\ Grown(store, s) /\ Len(s.objects) = Len(store.objects)
    BY <1>0, <1>5, RefAdded DEF IsKind
  <2> HIDE DEF s
  <2>2. StoreOK(s) /\ Larger(store, s) /\ SameCounts(store, s) BY <2>1 DEF Good, Grown
  <2>3. /\ Scheduled(s, queue) /\ Scheduled(s, suspended) /\ Waiting(s, suspended)
        /\ Listed(s, processes) /\ Startable(s, cs)
    BY <1>0, <1>4, <2>2, WorldStays DEF World
  <2>4. Current(s, cur')
    <3>1. cur'.process = p /\ cur'.thread = m
          /\ cur' = [process |-> cur'.process, thread |-> cur'.thread, running |-> cur'.running]
      BY <1>7, Zenon
    <3>2. IsKind(s, p, "process") /\ IsKind(s, m, "thread") BY <1>0, <1>3, <1>5, <2>2, KindsStay
    <3> QED BY <3>1, <3>2 DEF Current
  <2>5. World(s, cur', queue, suspended, processes, cs) BY <1>0, <2>1, <2>3, <2>4 DEF World
  <2>6. World(store', cur', queue', suspended', processes', children') /\ Larger(store, store')
    BY <1>1, <1>7, <2>2, <2>5
  <2> QED BY <2>6 DEF Kept, IInv
<1> QED BY <1>1, <1>6, <1>7

-----------------------------------------------------------------------------
(* The specification. *)

\* The first process, and the process of the configuration with its thread.
LEMMA InitWorld ==
  ASSUME Init
  PROVE  IInv
<1> DEFINE a == Process(NoObjects, ProcessName)
           b == Process(a, NoName)
           c == Thread(b, 2)
<1>1. Good(NoObjects) /\ Len(NoObjects.objects) = 0 /\ Ids(NoObjects) = {}
  <2> DEFINE tb == [h \in {} |-> h]
             n == NoObjects
  <2>1. n = [objects |-> <<>>, om |-> {}, table |-> tb, next |-> 1, closed |-> <<>>] BY DEF NoObjects
  <2>2. DOMAIN tb = {} /\ tb = [h \in DOMAIN tb |-> tb[h]] OBVIOUS
  <2> HIDE DEF tb, n
  <2>3. n.objects = <<>> /\ n.om = {} /\ n.table = tb /\ n.next = 1 /\ n.closed = <<>> BY <2>1
  <2>4. Len(n.objects) = 0 /\ n.objects \in Seq(Object) BY <2>3
  <2>5. Ids(n) = {} BY <2>4 DEF Ids
  <2>6. StoreOK(n)
    <3>1. n = [objects |-> n.objects, om |-> n.om, table |-> n.table, next |-> n.next, closed |-> <<>>] BY <2>1, <2>3
    <3>2. n.next \in Nat \ {0} BY <2>3
    <3> QED BY <2>2, <2>3, <2>4, <2>5, <3>1, <3>2 DEF StoreOK
  <2>7. AllHeld(n) /\ NamesOK(n) BY <2>3, <2>5 DEF AllHeld, NamesOK
  <2> QED BY <2>4, <2>5, <2>6, <2>7 DEF n, Good
<1>2. Good(a) /\ Len(a.objects) = 1 /\ Ids(a) = {1} /\ a.objects[1].type = "process"
  <2>1. ProcessName \in ObjectNames BY DEF ObjectNames
  <2>2. LET t == Process(NoObjects, ProcessName)
            p == Len(NoObjects.objects) + 1
        IN  /\ Good(t) /\ Len(t.objects) = p /\ Ids(t) = Ids(NoObjects) \cup {p} /\ t.objects[p].type = "process"
    BY <1>1, <2>1, NewProcess
  <2> QED BY <1>1, <2>2
<1> HIDE DEF a
<1>3. /\ Good(b) /\ Grown(a, b) /\ Len(b.objects) = 2 /\ Ids(b) = {1, 2} /\ b.objects[2].type = "process"
  <2>1. NoName \in ObjectNames BY DEF ObjectNames
  <2>2. LET t == Process(a, NoName)
            p == Len(a.objects) + 1
        IN  /\ Good(t) /\ Grown(a, t) /\ Len(t.objects) = p /\ Ids(t) = Ids(a) \cup {p} /\ t.objects[p].type = "process"
    BY <1>2, <2>1, NewProcess
  <2> QED BY <1>2, <2>2
<1> HIDE DEF b
<1>4. Good(c) /\ Grown(b, c) /\ Len(c.objects) = 3 /\ Ids(c) = {1, 2, 3} /\ c.objects[3].type = "thread"
  <2>1. LET t == Thread(b, 2)
            n == Len(b.objects) + 1
        IN  /\ Good(t) /\ Grown(b, t) /\ Len(t.objects) = n /\ Ids(t) = Ids(b) \cup {n} /\ t.objects[n].type = "thread"
    BY <1>3, NewThread
  <2> QED BY <1>3, <2>1
<1> HIDE DEF c
<1>5. c.objects[1].type = "process" /\ c.objects[2].type = "process"
  BY <1>2, <1>3, <1>4 DEF Grown, Larger, Still
<1>6. store = c
  <2>1. run_module = Thread(Process(Process(NoObjects, ProcessName), NoName), 2)
    BY Zenon DEF run_module, init_processes, NoName
  <2> QED BY <2>1 DEF Init, a, b, c
<1>7. IsKind(c, 1, "process") /\ IsKind(c, 2, "process") /\ IsKind(c, 3, "thread")
  BY <1>4, <1>5 DEF IsKind
<1>8. Current(c, cur)
  <2>1. cur.process = 2 /\ cur.thread = 3
        /\ cur = [process |-> cur.process, thread |-> cur.thread, running |-> cur.running]
    BY Zenon DEF Init
  <2> QED BY <1>7, <2>1 DEF Current
<1>9. Scheduled(c, queue) /\ Scheduled(c, suspended) /\ Waiting(c, suspended) /\ Startable(c, children)
  <2>1. queue = <<>> /\ suspended = <<>> /\ children = <<>> BY DEF Init
  <2> QED BY <2>1 DEF Scheduled, Waiting, Startable, Listed
<1>10. Listed(c, processes)
  <2>1. processes = <<1, 2>> BY DEF Init
  <2> QED BY <1>7, <2>1 DEF Listed
<1>11. Len(c.objects) <= MaxObjects BY <1>4, StartAssumption
<1> QED BY <1>4, <1>6, <1>8, <1>9, <1>10, <1>11 DEF IInv, World

\* Every call keeps the invariant, the objects and the meaning of the handles.
LEMMA NextKeeps ==
  ASSUME IInv, [Next]_vars
  PROVE  Kept
<1>1. CASE UNCHANGED vars
  BY <1>1, NothingAdded DEF vars, Kept, IInv, World, Grown
<1>2. CASE NextObjects
  <2>1. \A n \in Names \cup {""} : n \in ObjectNames BY Zenon DEF ObjectNames, NoName
  <2>2. CASE \E n \in Names \cup {""} :
               \/ CreateMutex(n) \/ CreateMutexEx(n) \/ OpenMutex(n) \/ OpenEvent(n) \/ OpenSemaphore(n)
               \/ CreateWaitableTimer(n) \/ CreateWaitableTimerEx(n) \/ OpenWaitableTimer(n) \/ CreateSemaphore(n)
               \/ \E m, i \in BOOLEAN : CreateEvent(n, m, i) \/ CreateEventEx(n, m, i)
    <3>1. PICK n \in ObjectNames :
            \/ CreateMutex(n) \/ CreateMutexEx(n) \/ OpenMutex(n) \/ OpenEvent(n) \/ OpenSemaphore(n)
            \/ CreateWaitableTimer(n) \/ CreateWaitableTimerEx(n) \/ OpenWaitableTimer(n) \/ CreateSemaphore(n)
            \/ \E m, i \in BOOLEAN : CreateEvent(n, m, i) \/ CreateEventEx(n, m, i)
      BY <2>1, <2>2, Zenon
    <3>2. CASE \E m, i \in BOOLEAN : CreateEvent(n, m, i) \/ CreateEventEx(n, m, i) BY <3>2, NamedKeeps
    <3>3. CASE ~(\E m, i \in BOOLEAN : CreateEvent(n, m, i) \/ CreateEventEx(n, m, i)) BY <3>1, <3>3, NamedKeeps
    <3> QED BY <3>2, <3>3
  <2>3. CASE \E h \in EventHandles : SetEvent(h) \/ ResetEvent(h) \/ PulseEvent(h) \/ WaitForSingleObject(h)
    <3>1. PICK h : SetEvent(h) \/ ResetEvent(h) \/ PulseEvent(h) \/ WaitForSingleObject(h) BY <2>3
    <3>2. TRUE \in BOOLEAN /\ FALSE \in BOOLEAN BY Zenon
    <3>3. CASE SetEvent(h) BY <3>2, <3>3, SignalKeeps DEF SetEvent
    <3>4. CASE ResetEvent(h) BY <3>2, <3>4, SignalKeeps DEF ResetEvent
    <3>5. CASE PulseEvent(h) BY <3>2, <3>5, SignalKeeps DEF PulseEvent
    <3>6. CASE WaitForSingleObject(h) BY <3>6, WaitKeeps DEF WaitForSingleObject
    <3> QED BY <3>1, <3>3, <3>4, <3>5, <3>6
  <2>4. CASE \E h1, h2 \in EventHandles, all \in BOOLEAN : WaitForMultipleObjects(<<h1, h2>>, all)
    <3>1. PICK hs, all : WaitForMultipleObjects(hs, all) BY <2>4
    <3> QED BY <3>1, WaitKeeps DEF WaitForMultipleObjects
  <2>5. CASE \E h \in Args :
               \/ OpenProcessToken(h) \/ OpenThreadToken(h) \/ DuplicateTokenEx(h)
               \/ Process32First(h) \/ Process32Next(h) \/ Thread32First(h) \/ Thread32Next(h)
    <3>1. PICK h : \/ OpenProcessToken(h) \/ OpenThreadToken(h) \/ DuplicateTokenEx(h)
                   \/ Process32First(h) \/ Process32Next(h) \/ Thread32First(h) \/ Thread32Next(h)
      BY <2>5
    <3>2. CASE OpenProcessToken(h) BY <3>2, FoundProcess, OpenTokenKeeps DEF OpenProcessToken, IsKind
    <3>3. CASE OpenThreadToken(h) BY <3>3, FoundProcess, OpenTokenKeeps DEF OpenThreadToken, IsKind
    <3>4. CASE DuplicateTokenEx(h) BY <3>4, DuplicateTokenKeeps
    <3>5. CASE Process32First(h) \/ Process32Next(h) \/ Thread32First(h) \/ Thread32Next(h)
      BY <3>5, WalkKeeps DEF Process32First, Process32Next, Thread32First, Thread32Next
    <3> QED BY <3>1, <3>2, <3>3, <3>4, <3>5
  <2>6. CASE \E h \in Args : CloseHandle(h) \/ SetStdHandle(h) BY <2>6, CloseKeeps, StdKeeps
  <2>7. CASE \E hp, ht \in ProcessHandles, h \in Args, c \in BOOLEAN : DuplicateHandle(hp, h, ht, c)
    BY <2>7, DuplicateKeeps
  <2>8. CASE \E o \in Ids(store) : OpenProcess(o) \/ OpenThread(o) BY <2>8, OpenKeeps
  <2> QED BY <1>2, <2>2, <2>3, <2>4, <2>5, <2>6, <2>7, <2>8, PortKeeps, Zenon DEF NextObjects
<1>3. CASE NextThreads
  <2>1. CASE \E h \in Args :
               \/ TerminateProcess(h) \/ CreateRemoteThread(h) \/ WriteProcessMemory(h) \/ SetThreadContext(h)
               \/ ResumeThread(h) \/ SuspendThread(h) \/ CloseHandle(h)
    <3>1. PICK h : \/ TerminateProcess(h) \/ CreateRemoteThread(h) \/ WriteProcessMemory(h) \/ SetThreadContext(h)
                   \/ ResumeThread(h) \/ SuspendThread(h) \/ CloseHandle(h)
      BY <2>1
    <3>2. CASE CreateRemoteThread(h)
      <4> DEFINE p == Obj(h, {"process"})
      <4>1. p # 0 /\ create_thread(store, p, FALSE) /\ UNCHANGED <<cur, processes, children, std>>
        BY <3>2 DEF CreateRemoteThread
      <4>2. IsKind(store, p, "process") BY <4>1, FoundProcess
      <4>3. FALSE \in BOOLEAN BY Zenon
      <4> HIDE DEF p
      <4> QED BY <4>1, <4>2, <4>3, CreateThreadKeeps
    <3> QED BY <3>1, <3>2, TerminateKeeps, ModifyKeeps, ResumeKeeps, SuspendKeeps, CloseKeeps
  <2>2. CASE \E b \in BOOLEAN : CreateProcess(b) \/ CreateThread(b)
    <3>1. PICK b \in BOOLEAN : CreateProcess(b) \/ CreateThread(b) BY <2>2
    <3>2. CASE CreateProcess(b) BY <3>2, CreateProcessKeeps
    <3>3. CASE CreateThread(b)
      <4>1. IsKind(store, cur.process, "process") BY DEF IInv, World, Current
      <4>2. create_thread(store, cur.process, b) /\ UNCHANGED <<cur, processes, children, std>>
        BY <3>3 DEF CreateThread
      <4> QED BY <4>1, <4>2, CreateThreadKeeps
    <3> QED BY <3>1, <3>2, <3>3
  <2> QED BY <1>3, <2>1, <2>2, DispatchKeeps, ExecKeeps, ChildKeeps DEF NextThreads
<1> QED BY <1>1, <1>2, <1>3 DEF Next

\* What the invariant says about types, handles, names and suspended runs.
LEMMA IInvMeans ==
  ASSUME IInv
  PROVE  TypeOK /\ HandlesHoldObjects /\ OneObjectPerName /\ SuspendedRunsCanResume
<1>0. World(store, cur, queue, suspended, processes, children) /\ Good(store) /\ StoreOK(store) BY DEF IInv, World, Good
<1>1. TypeOK
  <2>1. store.om \subseteq Ids(store) BY <1>0 DEF StoreOK
  <2>2. \A h \in DOMAIN store.table : h < store.next /\ store.table[h].object \in Ids(store)
    <3>1. \A h \in DOMAIN store.table : h \in 1 .. (store.next - 1) BY <1>0 DEF StoreOK
    <3> QED BY <1>0, <3>1, StoreTypes DEF StoreOK
  <2>3. /\ cur.process \in Ids(store) /\ store.objects[cur.process].type = "process"
        /\ cur.thread \in Ids(store) /\ store.objects[cur.thread].type = "thread"
    BY <1>0 DEF World, Current, IsKind
  <2>4. Ids(store) \subseteq 1 .. MaxObjects /\ Ids(store) \subseteq 0 .. MaxObjects
    BY <1>0, StoreTypes, StartAssumption DEF World
  <2>5. ASSUME NEW q, Scheduled(store, q), NEW r \in ToSet(q)
        PROVE  r \in Run /\ store.objects[r.process].type = "process"
    <3>1. q \in Seq(Runs) /\ DOMAIN q = 1 .. Len(q) BY <2>5, LenProperties DEF Scheduled
    <3>2. PICK i \in 1 .. Len(q) : q[i] = r BY <2>5, <3>1 DEF ToSet
    <3>3. r \in Runs /\ RunOK(store, r) BY <2>5, <3>1, <3>2, ElementOfSeq DEF Scheduled
    <3>4. r.process \in 1 .. MaxObjects /\ r.thread \in 0 .. MaxObjects
      <4>1. 0 \in 0 .. MaxObjects BY StartAssumption
      <4> QED BY <2>4, <3>3, <4>1 DEF RunOK, IsKind
    <3> QED BY <3>3, <3>4 DEF Run, Runs, RunOK, IsKind
  <2>6. ASSUME NEW ps, Listed(store, ps), NEW p \in ToSet(ps) PROVE store.objects[p].type = "process"
    BY <2>6 DEF ToSet, Listed, IsKind
  <2>7. \A r \in ToSet(queue) \cup ToSet(suspended) : r \in Run /\ store.objects[r.process].type = "process"
    BY <1>0, <2>5 DEF World
  <2>8. \A p \in ToSet(processes) \cup ToSet(children) : store.objects[p].type = "process"
    BY <1>0, <2>6 DEF World, Startable
  <2> QED BY <2>1, <2>2, <2>3, <2>7, <2>8 DEF TypeOK
<1>2. HandlesHoldObjects
  <2> SUFFICES ASSUME NEW o \in Ids(store)
               PROVE  LET obj == store.objects[o]
                      IN  /\ obj.type \in Counted => obj.ref >= Cardinality(HandlesOf(o))
                          /\ obj.type \in Sync => /\ obj.ref = Cardinality(HandlesOf(o))
                                                  /\ o \in store.om <=> HandlesOf(o) # {}
                          /\ obj.type \in {"process", "thread"} => o \in store.om
    BY DEF HandlesHoldObjects
  <2>1. HandlesOf(o) = HandlesIn(store.table, o) BY DEF HandlesOf, HandlesIn
  <2>2. Held(store.objects[o], Cardinality(HandlesOf(o)), o \in store.om) BY <1>0, <2>1 DEF Good, AllHeld
  <2>3. IsFiniteSet(HandlesOf(o)) /\ Cardinality(HandlesOf(o)) \in Nat /\ store.objects[o].ref \in Int
    BY <1>0, <2>1, StoreTypes
  <2>4. HandlesOf(o) = {} <=> Cardinality(HandlesOf(o)) = 0 BY <2>3, FS_EmptySet
  <2> DEFINE n == Cardinality(HandlesOf(o))
  <2>5. n \in Nat /\ (HandlesOf(o) = {} <=> n = 0) /\ Held(store.objects[o], n, o \in store.om) BY <2>2, <2>3, <2>4
  <2> HIDE DEF n
  <2>6. store.objects[o].type \in Counted => store.objects[o].ref >= n
    BY <2>3, <2>5 DEF Held, Counted, Sync
  <2>7. store.objects[o].type \in Sync => store.objects[o].ref = n /\ (o \in store.om <=> HandlesOf(o) # {})
    BY <2>5 DEF Held
  <2>8. store.objects[o].type \in {"process", "thread"} => o \in store.om BY <2>5 DEF Held
  <2> QED BY <2>6, <2>7, <2>8 DEF n
<1>3. OneObjectPerName
  BY <1>0, Zenon DEF Good, NamesOK, OneObjectPerName, NoName
<1>4. SuspendedRunsCanResume
  <2>1. DOMAIN suspended = 1 .. Len(suspended) BY <1>0, LenProperties DEF World, Scheduled
  <2> QED BY <1>0, <2>1 DEF World, Waiting, ToSet, SuspendedRunsCanResume
<1> QED BY <1>1, <1>2, <1>3, <1>4

\* A step of a part keeps the invariant: it is a step of Objects, or it leaves the objects alone.
LEMMA GuestObjectsKeep == IInv /\ [GuestNext]_<<vars, file_vars, part>> => Kept
<1> SUFFICES ASSUME IInv, [GuestNext]_<<vars, file_vars, part>> PROVE Kept OBVIOUS
<1>1. [Next]_vars
  <2>1. CASE ObjectStep BY <2>1 DEF ObjectStep, Next
  <2>2. CASE FileStep BY <2>2 DEF FileStep
  <2>3. CASE UNCHANGED <<vars, file_vars, part>> BY <2>3
  <2> QED BY <2>1, <2>2, <2>3 DEF GuestNext
<1> QED BY <1>1, NextKeeps

\* An object stays while handles and references need it, a name that a lookup can find (no backslash at its
\* end) has one object, and a thread that waits suspended can be resumed (ObjectManager, handles.py,
\* ResumeThread), for any names, links, objects and handles.
THEOREM ObjectsAlwaysStay == GuestSpec => [](TypeOK /\ ObjectsStay)
<1>1. GuestInit => IInv BY InitWorld DEF GuestInit
<1>2. IInv /\ [GuestNext]_<<vars, file_vars, part>> => IInv' BY GuestObjectsKeep DEF Kept
<1>3. IInv => TypeOK /\ ObjectsStay BY IInvMeans DEF ObjectsStay
<1> QED BY <1>1, <1>2, <1>3, PTL DEF GuestSpec

\* A handle value never comes to mean another object, over any closes and duplicates (HandleAllocator).
THEOREM HandlesMeanOneObject == GuestSpec => HandlesKeepTheirMeaning
<1>1. GuestInit => IInv BY InitWorld DEF GuestInit
<1>2. IInv /\ [GuestNext]_<<vars, file_vars, part>> => IInv' BY GuestObjectsKeep DEF Kept
<1>3. IInv /\ [GuestNext]_<<vars, file_vars, part>> =>
        [/\ store'.next >= store.next
         /\ \A h \in DOMAIN store'.table :
              IF h < store.next THEN h \in DOMAIN store.table /\ store'.table[h] = store.table[h] ELSE TRUE]_vars
  <2> SUFFICES ASSUME IInv, [GuestNext]_<<vars, file_vars, part>>
               PROVE  /\ store'.next >= store.next
                      /\ \A h \in DOMAIN store'.table :
                           IF h < store.next THEN h \in DOMAIN store.table /\ store'.table[h] = store.table[h] ELSE TRUE
    OBVIOUS
  <2>1. Kept /\ StoreOK(store) BY GuestObjectsKeep DEF IInv, World, Good
  <2>2. StoreOK(store') BY <2>1 DEF Kept, IInv, World, Good
  <2>3. store.next \in Nat /\ store'.next \in Nat BY <2>1, <2>2, StoreTypes
  <2> QED BY <2>1, <2>3 DEF Kept, Larger
<1> QED BY <1>1, <1>2, <1>3, PTL DEF GuestSpec, HandlesKeepTheirMeaning
-----------------------------------------------------------------------------
(* Files. *)

Kinds == {"file", F!NUL, "pipe", "map"}
AnyPath == Paths \cup {ImagePath, F!NUL, "pipe", NoName}

\* The content of a file, and how many of its bytes the guest wrote.
Content == Seq({0, 1})
OnesIn(d) == {i \in 1 .. Len(d) : d[i] = 1}
Ones(d) == Cardinality(OnesIn(d))

\* A File, a Pipe or a FileMap.
FileRecord ==
  [kind : Kinds, path : AnyPath, data : Content, pos : Nat, origin : Nat, written : Nat,
   append : BOOLEAN, views : Seq(F!Blocks)]

\* The lists name objects, and a duplicate or a mapping has an older object as its origin.
FilesOK(s) ==
  /\ s = [objs |-> s.objs, files |-> s.files, deleted |-> s.deleted, dirs |-> s.dirs, handles |-> s.handles]
  /\ s.objs \in Seq(FileRecord)
  /\ s.files \in Seq(Nat) /\ (\A i \in DOMAIN s.files : s.files[i] \in 1 .. Len(s.objs))
  /\ s.handles \in Seq(Nat) /\ (\A h \in DOMAIN s.handles : s.handles[h] \in 0 .. Len(s.objs))
  /\ \A f \in 1 .. Len(s.objs) : s.objs[f].origin < f

\* A registered file has its own bytes.  No path has two files, and no deleted path has one.
PathsOK(s) ==
  /\ \A i \in DOMAIN s.files : s.objs[s.files[i]].origin = 0 /\ s.objs[s.files[i]].path \notin s.deleted
  /\ \A i, j \in DOMAIN s.files : s.objs[s.files[i]].path = s.objs[s.files[j]].path => i = j

\* The bytes that the guest wrote to a file were counted when they were written.
CountsOK(s) == \A f \in 1 .. Len(s.objs) : s.objs[f].origin = 0 => Ones(s.objs[f].data) <= s.objs[f].written

GoodFiles(s) == FilesOK(s) /\ PathsOK(s) /\ CountsOK(s)

\* From s to t handles were given out and closed.
HandlesGrow(s, t) ==
  /\ Len(s.handles) <= Len(t.handles)
  /\ \A h \in DOMAIN s.handles : s.handles[h] = 0 => t.handles[h] = 0

\* What an operation on the content of files keeps.
SameFiles(s, t) ==
  /\ Len(t.objs) = Len(s.objs) /\ t.files = s.files /\ t.deleted = s.deleted /\ t.handles = s.handles
  /\ \A f \in 1 .. Len(s.objs) : /\ t.objs[f].kind = s.objs[f].kind /\ t.objs[f].path = s.objs[f].path
                                 /\ t.objs[f].origin = s.objs[f].origin

\* The parts of the file manager.
LEMMA FileTypes ==
  ASSUME NEW s, FilesOK(s)
  PROVE  /\ Len(s.objs) \in Nat /\ DOMAIN s.objs = 1 .. Len(s.objs)
         /\ Len(s.files) \in Nat /\ DOMAIN s.files = 1 .. Len(s.files)
         /\ Len(s.handles) \in Nat /\ DOMAIN s.handles = 1 .. Len(s.handles)
         /\ \A f \in 1 .. Len(s.objs) :
              /\ f \in Nat /\ f # 0 /\ s.objs[f] \in FileRecord /\ s.objs[f].kind \in Kinds /\ s.objs[f].path \in AnyPath
              /\ s.objs[f].data \in Content /\ Len(s.objs[f].data) \in Nat /\ s.objs[f].pos \in Nat
              /\ s.objs[f].origin \in Nat /\ s.objs[f].written \in Nat
<1>1. /\ Len(s.objs) \in Nat /\ DOMAIN s.objs = 1 .. Len(s.objs)
      /\ Len(s.files) \in Nat /\ DOMAIN s.files = 1 .. Len(s.files)
      /\ Len(s.handles) \in Nat /\ DOMAIN s.handles = 1 .. Len(s.handles)
  BY LenProperties DEF FilesOK
<1>2. \A f \in 1 .. Len(s.objs) : s.objs[f] \in FileRecord BY <1>1, ElementOfSeq DEF FilesOK
<1>3. \A r \in FileRecord : /\ r.kind \in Kinds /\ r.path \in AnyPath /\ r.data \in Content /\ r.pos \in Nat
                            /\ r.origin \in Nat /\ r.written \in Nat
  BY DEF FileRecord
<1>4. \A d \in Content : Len(d) \in Nat BY LenProperties DEF Content
<1>5. \A f \in 1 .. Len(s.objs) : f \in Nat /\ f # 0 BY <1>1
<1> QED BY <1>1, <1>2, <1>3, <1>4, <1>5

-----------------------------------------------------------------------------
(* The bytes of the guest. *)

\* The size of the set of the first n numbers.
LEMMA FirstNumbers ==
  ASSUME NEW n \in Nat
  PROVE  IsFiniteSet(1 .. n) /\ Cardinality(1 .. n) = n
<1>1. IsFiniteSet(1 .. n) /\ Cardinality(1 .. n) = IF 1 > n THEN 0 ELSE n - 1 + 1 BY FS_Interval
<1>2. CASE n = 0 BY <1>1, <1>2
<1>3. CASE n >= 1 BY <1>1, <1>3
<1> QED BY <1>2, <1>3

\* A content has at most its length of them.
LEMMA OnesAreFinite ==
  ASSUME NEW d \in Content
  PROVE  /\ Len(d) \in Nat /\ IsFiniteSet(OnesIn(d)) /\ Ones(d) \in Nat /\ Ones(d) <= Len(d)
<1>1. Len(d) \in Nat BY LenProperties DEF Content
<1>2. IsFiniteSet(1 .. Len(d)) /\ Cardinality(1 .. Len(d)) = Len(d) BY <1>1, FirstNumbers, Zenon
<1>3. OnesIn(d) \subseteq 1 .. Len(d) BY DEF OnesIn
<1>4. IsFiniteSet(OnesIn(d)) /\ Cardinality(OnesIn(d)) <= Cardinality(1 .. Len(d)) BY <1>2, <1>3, FS_Subset
<1> QED BY <1>1, <1>2, <1>4, FS_CardinalityType DEF Ones

\* When all bytes are of the guest they are as many as the content is long.
LEMMA AllOnes ==
  ASSUME NEW d \in Content, ToSet(d) = {1}
  PROVE  Ones(d) = Len(d)
<1>1. Len(d) \in Nat /\ DOMAIN d = 1 .. Len(d) BY LenProperties DEF Content
<1>2. \A i \in 1 .. Len(d) : d[i] = 1 BY <1>1 DEF ToSet
<1>3. OnesIn(d) = 1 .. Len(d) BY <1>2 DEF OnesIn
<1>4. Cardinality(1 .. Len(d)) = Len(d) BY <1>1, FirstNumbers, Zenon
<1> QED BY <1>3, <1>4 DEF Ones

\* No byte of a configured file is of the guest.
LEMMA NoOnes ==
  /\ <<>> \in Content /\ Ones(<<>>) = 0 /\ Len(<<>>) = 0
  /\ <<0>> \in Content /\ Ones(<<0>>) = 0 /\ Len(<<0>>) = 1
<1>1. <<>> \in Content /\ <<0>> \in Content BY DEF Content
<1>2. OnesIn(<<>>) = {} /\ OnesIn(<<0>>) = {} BY DEF OnesIn
<1>3. Cardinality({}) = 0 BY FS_EmptySet
<1> QED BY <1>1, <1>2, <1>3 DEF Ones

\* A write of n bytes adds at most n of them.
LEMMA PutCounts ==
  ASSUME NEW d \in Content, NEW pos \in Nat, NEW n \in Nat
  PROVE  /\ F!Put(d, pos, n) \in Content
         /\ Ones(F!Put(d, pos, n)) \in Nat /\ Ones(F!Put(d, pos, n)) <= Ones(d) + n
<1>1. Len(d) \in Nat /\ IsFiniteSet(OnesIn(d)) /\ Ones(d) \in Nat BY OnesAreFinite
<1>2. CASE n = 0
  <2>1. F!Put(d, pos, n) = d BY <1>2 DEF F!Put
  <2> QED BY <2>1, <1>1, <1>2
<1>3. CASE n # 0
  <2> DEFINE m == IF pos + n > Len(d) THEN pos + n ELSE Len(d)
             e == [i \in 1 .. m |-> IF i \in pos + 1 .. pos + n THEN 1 ELSE IF i <= Len(d) THEN d[i] ELSE 0]
             new == pos + 1 .. pos + n
  <2>1. F!Put(d, pos, n) = e BY <1>3 DEF F!Put
  <2>2. m \in Nat BY <1>1
  <2> HIDE DEF m
  <2>3. \A i \in 1 .. Len(d) : d[i] \in {0, 1} BY ElementOfSeq DEF Content
  <2>4. \A i \in 1 .. m : (IF i \in pos + 1 .. pos + n THEN 1 ELSE IF i <= Len(d) THEN d[i] ELSE 0) \in {0, 1}
    BY <2>2, <2>3, <1>1
  <2>5. e \in Content /\ Len(e) = m BY <2>2, <2>4, IsASeq DEF Content
  <2>6. OnesIn(e) \subseteq OnesIn(d) \cup new
    <3> SUFFICES ASSUME NEW i \in OnesIn(e), i \notin new PROVE i \in OnesIn(d) OBVIOUS
    <3>1. i \in 1 .. m /\ e[i] = 1 BY <2>5 DEF OnesIn
    <3>2. e[i] = IF i <= Len(d) THEN d[i] ELSE 0 BY <3>1
    <3> HIDE DEF e, new
    <3> QED BY <3>1, <3>2, <1>1, <2>2 DEF OnesIn
  <2>7. IsFiniteSet(new) /\ Cardinality(new) = n
    <3>1. IsFiniteSet(new) /\ Cardinality(new) = IF pos + 1 > pos + n THEN 0 ELSE (pos + n) - (pos + 1) + 1
      BY FS_Interval
    <3> HIDE DEF new
    <3> QED BY <3>1, <1>3
  <2> HIDE DEF e, new
  <2>8. /\ IsFiniteSet(OnesIn(d) \cup new)
        /\ Cardinality(OnesIn(d) \cup new) = Cardinality(OnesIn(d)) + Cardinality(new) - Cardinality(OnesIn(d) \cap new)
    BY <1>1, <2>7, FS_Union
  <2>9. IsFiniteSet(OnesIn(d) \cap new) /\ Cardinality(OnesIn(d) \cap new) \in Nat
    BY <1>1, FS_Intersection, FS_CardinalityType
  <2>10. Cardinality(OnesIn(e)) <= Cardinality(OnesIn(d) \cup new) BY <2>6, <2>8, FS_Subset
  <2>11. Ones(e) \in Nat BY <2>5, OnesAreFinite
  <2> QED BY <2>1, <2>5, <2>7, <2>8, <2>9, <2>10, <2>11, <1>1 DEF Ones
<1> QED BY <1>2, <1>3

-----------------------------------------------------------------------------
(* Changes of a file, of the list of files and of the handles. *)

\* Objects that change without their kinds, paths and origins.
LEMMA ObjectsSet ==
  ASSUME NEW s, GoodFiles(s), NEW os \in Seq(FileRecord), Len(os) = Len(s.objs),
         \A f \in 1 .. Len(s.objs) :
           /\ os[f].kind = s.objs[f].kind /\ os[f].path = s.objs[f].path /\ os[f].origin = s.objs[f].origin
           /\ os[f].origin = 0 => Ones(os[f].data) <= os[f].written
  PROVE  LET t == [s EXCEPT !.objs = os] IN GoodFiles(t) /\ t.objs = os /\ SameFiles(s, t)
<1> DEFINE t == [s EXCEPT !.objs = os]
<1>1. FilesOK(s) /\ PathsOK(s) /\ CountsOK(s) BY DEF GoodFiles
<1>2. t = [objs |-> os, files |-> s.files, deleted |-> s.deleted, dirs |-> s.dirs, handles |-> s.handles]
  <2>1. s = [objs |-> s.objs, files |-> s.files, deleted |-> s.deleted, dirs |-> s.dirs, handles |-> s.handles]
    BY <1>1 DEF FilesOK
  <2> QED BY <2>1
<1>3. /\ t.objs = os /\ t.files = s.files /\ t.deleted = s.deleted /\ t.dirs = s.dirs /\ t.handles = s.handles
      /\ t = [objs |-> t.objs, files |-> t.files, deleted |-> t.deleted, dirs |-> t.dirs, handles |-> t.handles]
  BY <1>2
<1> HIDE DEF t
<1>4. FilesOK(t) BY <1>1, <1>3 DEF FilesOK
<1>5. PathsOK(t)
  <2>1. \A i \in DOMAIN s.files : /\ s.files[i] \in 1 .. Len(s.objs)
                                 /\ t.objs[s.files[i]].path = s.objs[s.files[i]].path
                                 /\ t.objs[s.files[i]].origin = s.objs[s.files[i]].origin
    BY <1>1, <1>3 DEF FilesOK
  <2> QED BY <1>1, <1>3, <2>1 DEF PathsOK
<1>6. CountsOK(t) BY <1>1, <1>3 DEF CountsOK
<1> QED BY <1>3, <1>4, <1>5, <1>6 DEF t, GoodFiles, SameFiles

\* An object that is replaced by one of its kind.
LEMMA ObjectSet ==
  ASSUME NEW s, GoodFiles(s), NEW f \in 1 .. Len(s.objs), NEW r \in FileRecord,
         r.kind = s.objs[f].kind, r.path = s.objs[f].path, r.origin = s.objs[f].origin,
         r.origin = 0 => Ones(r.data) <= r.written
  PROVE  LET t == [s EXCEPT !.objs[f] = r]
         IN  /\ GoodFiles(t) /\ SameFiles(s, t) /\ t.objs[f] = r
             /\ \A g \in 1 .. Len(s.objs) : g # f => t.objs[g] = s.objs[g]
<1> DEFINE os == [s.objs EXCEPT ![f] = r]
           t == [s EXCEPT !.objs[f] = r]
           u == [s EXCEPT !.objs = os]
<1>1. FilesOK(s) /\ CountsOK(s) BY DEF GoodFiles
<1>2. t = u
  <2>1. s = [objs |-> s.objs, files |-> s.files, deleted |-> s.deleted, dirs |-> s.dirs, handles |-> s.handles]
    BY <1>1 DEF FilesOK
  <2> QED BY <2>1
<1>3. s.objs \in Seq(FileRecord) BY <1>1 DEF FilesOK
<1>4. /\ os \in Seq(FileRecord) /\ Len(os) = Len(s.objs)
      /\ \A x \in 1 .. Len(s.objs) : os[x] = IF x = f THEN r ELSE s.objs[x]
  BY <1>3, ExceptSeq
<1> HIDE DEF os
<1>5. \A g \in 1 .. Len(s.objs) :
        /\ os[g].kind = s.objs[g].kind /\ os[g].path = s.objs[g].path /\ os[g].origin = s.objs[g].origin
        /\ os[g].origin = 0 => Ones(os[g].data) <= os[g].written
  BY <1>1, <1>4 DEF CountsOK
<1>6. GoodFiles(u) /\ u.objs = os /\ SameFiles(s, u) BY <1>4, <1>5, ObjectsSet
<1> HIDE DEF t, u
<1>7. t.objs[f] = r /\ \A g \in 1 .. Len(s.objs) : g # f => t.objs[g] = s.objs[g] BY <1>2, <1>4, <1>6
<1> QED BY <1>2, <1>6, <1>7 DEF t

\* A position that is set.
LEMMA PosSet ==
  ASSUME NEW s, GoodFiles(s), NEW f \in 1 .. Len(s.objs), NEW pos \in Nat
  PROVE  LET t == [s EXCEPT !.objs[f].pos = pos]
         IN  GoodFiles(t) /\ SameFiles(s, t) /\ t.objs[f].pos = pos /\ t.objs[f].data = s.objs[f].data
<1> DEFINE r == [s.objs[f] EXCEPT !.pos = pos]
           t == [s EXCEPT !.objs[f].pos = pos]
           u == [s EXCEPT !.objs[f] = r]
<1>1. FilesOK(s) /\ CountsOK(s) BY DEF GoodFiles
<1>2. s.objs[f] \in FileRecord BY <1>1, FileTypes
<1>3. /\ r \in FileRecord /\ r.kind = s.objs[f].kind /\ r.path = s.objs[f].path /\ r.origin = s.objs[f].origin
      /\ r.data = s.objs[f].data /\ r.written = s.objs[f].written /\ r.pos = pos
  BY <1>2 DEF FileRecord
<1>4. t = u OBVIOUS
<1> HIDE DEF r
<1>5. GoodFiles(u) /\ SameFiles(s, u) /\ u.objs[f] = r BY <1>1, <1>3, ObjectSet DEF CountsOK
<1> HIDE DEF t, u
<1> QED BY <1>3, <1>4, <1>5 DEF t

\* An append flag that is set.
LEMMA AppendSet ==
  ASSUME NEW s, GoodFiles(s), NEW f \in 1 .. Len(s.objs), NEW b \in BOOLEAN
  PROVE  LET t == [s EXCEPT !.objs[f].append = b] IN GoodFiles(t) /\ SameFiles(s, t)
<1> DEFINE r == [s.objs[f] EXCEPT !.append = b]
           t == [s EXCEPT !.objs[f].append = b]
           u == [s EXCEPT !.objs[f] = r]
<1>1. FilesOK(s) /\ CountsOK(s) BY DEF GoodFiles
<1>2. s.objs[f] \in FileRecord BY <1>1, FileTypes
<1>3. /\ r \in FileRecord /\ r.kind = s.objs[f].kind /\ r.path = s.objs[f].path /\ r.origin = s.objs[f].origin
      /\ r.data = s.objs[f].data /\ r.written = s.objs[f].written
  BY <1>2 DEF FileRecord
<1>4. t = u OBVIOUS
<1> HIDE DEF r
<1>5. GoodFiles(u) /\ SameFiles(s, u) BY <1>1, <1>3, ObjectSet DEF CountsOK
<1> HIDE DEF t, u
<1> QED BY <1>4, <1>5 DEF t

\* The views of a mapping.
LEMMA ViewsSet ==
  ASSUME NEW s, GoodFiles(s), NEW f \in 1 .. Len(s.objs), NEW views \in Seq(F!Blocks)
  PROVE  LET t == [s EXCEPT !.objs[f].views = views]
         IN  /\ GoodFiles(t) /\ SameFiles(s, t)
             /\ \A g \in 1 .. Len(s.objs) : t.objs[g].pos = s.objs[g].pos
<1> DEFINE r == [s.objs[f] EXCEPT !.views = views]
           t == [s EXCEPT !.objs[f].views = views]
           u == [s EXCEPT !.objs[f] = r]
<1>1. FilesOK(s) /\ CountsOK(s) BY DEF GoodFiles
<1>2. s.objs[f] \in FileRecord BY <1>1, FileTypes
<1>3. /\ r \in FileRecord /\ r.kind = s.objs[f].kind /\ r.path = s.objs[f].path /\ r.origin = s.objs[f].origin
      /\ r.data = s.objs[f].data /\ r.written = s.objs[f].written /\ r.pos = s.objs[f].pos
  BY <1>2 DEF FileRecord
<1>4. t = u OBVIOUS
<1> HIDE DEF r
<1>5. /\ GoodFiles(u) /\ SameFiles(s, u) /\ u.objs[f] = r
      /\ \A g \in 1 .. Len(s.objs) : g # f => u.objs[g] = s.objs[g]
  BY <1>1, <1>3, ObjectSet DEF CountsOK
<1> HIDE DEF t, u
<1>6. \A g \in 1 .. Len(s.objs) : t.objs[g].pos = s.objs[g].pos BY <1>3, <1>4, <1>5
<1> QED BY <1>4, <1>5, <1>6 DEF t

\* A content that is set, with its count.
LEMMA DataSet ==
  ASSUME NEW s, GoodFiles(s), NEW f \in 1 .. Len(s.objs), NEW d \in Content,
         s.objs[f].origin = 0 => Ones(d) <= s.objs[f].written
  PROVE  LET t == [s EXCEPT !.objs[f].data = d]
         IN  GoodFiles(t) /\ SameFiles(s, t) /\ t.objs[f].data = d /\ t.objs[f].written = s.objs[f].written
<1> DEFINE r == [s.objs[f] EXCEPT !.data = d]
           t == [s EXCEPT !.objs[f].data = d]
           u == [s EXCEPT !.objs[f] = r]
<1>1. FilesOK(s) BY DEF GoodFiles
<1>2. s.objs[f] \in FileRecord BY <1>1, FileTypes
<1>3. /\ r \in FileRecord /\ r.kind = s.objs[f].kind /\ r.path = s.objs[f].path /\ r.origin = s.objs[f].origin
      /\ r.data = d /\ r.written = s.objs[f].written
  BY <1>2 DEF FileRecord
<1>4. t = u OBVIOUS
<1> HIDE DEF r
<1>5. GoodFiles(u) /\ SameFiles(s, u) /\ u.objs[f] = r BY <1>3, ObjectSet
<1> HIDE DEF t, u
<1> QED BY <1>3, <1>4, <1>5 DEF t

\* A count that is set.
LEMMA WrittenSet ==
  ASSUME NEW s, GoodFiles(s), NEW f \in 1 .. Len(s.objs), NEW n \in Nat,
         s.objs[f].origin = 0 => Ones(s.objs[f].data) <= n
  PROVE  LET t == [s EXCEPT !.objs[f].written = n]
         IN  GoodFiles(t) /\ SameFiles(s, t) /\ t.objs[f].written = n /\ t.objs[f].data = s.objs[f].data
<1> DEFINE r == [s.objs[f] EXCEPT !.written = n]
           t == [s EXCEPT !.objs[f].written = n]
           u == [s EXCEPT !.objs[f] = r]
<1>1. FilesOK(s) BY DEF GoodFiles
<1>2. s.objs[f] \in FileRecord BY <1>1, FileTypes
<1>3. /\ r \in FileRecord /\ r.kind = s.objs[f].kind /\ r.path = s.objs[f].path /\ r.origin = s.objs[f].origin
      /\ r.data = s.objs[f].data /\ r.written = n
  BY <1>2 DEF FileRecord
<1>4. t = u OBVIOUS
<1> HIDE DEF r
<1>5. GoodFiles(u) /\ SameFiles(s, u) /\ u.objs[f] = r BY <1>3, ObjectSet
<1> HIDE DEF t, u
<1> QED BY <1>3, <1>4, <1>5 DEF t

\* A new file, pipe or mapping.
LEMMA NewFile ==
  ASSUME NEW kind \in Kinds, NEW p \in AnyPath, NEW d \in Content
  PROVE  LET r == F!File(kind, p, d)
         IN  /\ r \in FileRecord /\ r.kind = kind /\ r.path = p /\ r.data = d /\ r.pos = 0 /\ r.origin = 0
             /\ r.written = 0
<1> DEFINE r == F!File(kind, p, d)
<1>1. r = [kind |-> kind, path |-> p, data |-> d, pos |-> 0, origin |-> 0,
           written |-> 0, append |-> FALSE, views |-> <<>>]
  BY DEF F!File
<1> HIDE DEF r
<1>2. r \in FileRecord
  <2>1. 0 \in Nat /\ <<>> \in Seq(F!Blocks) OBVIOUS
  <2>2. FALSE \in BOOLEAN BY Zenon
  <2> QED BY <1>1, <2>1, <2>2, Zenon DEF FileRecord
<1>3. /\ r.kind = kind /\ r.path = p /\ r.data = d /\ r.pos = 0 /\ r.origin = 0 /\ r.written = 0 BY <1>1, Zenon
<1> QED BY <1>2, <1>3 DEF r

\* An object that is added to the others.
LEMMA FileAdded ==
  ASSUME NEW s, GoodFiles(s), NEW r \in FileRecord, r.origin <= Len(s.objs),
         r.origin = 0 => Ones(r.data) <= r.written
  PROVE  LET t == F!Add(s, r)
         IN  /\ GoodFiles(t) /\ Len(t.objs) = Len(s.objs) + 1 /\ t.objs[Len(s.objs) + 1] = r
             /\ F!Newest(t) = Len(s.objs) + 1
             /\ t.files = s.files /\ t.deleted = s.deleted /\ t.handles = s.handles
             /\ \A f \in 1 .. Len(s.objs) : t.objs[f] = s.objs[f]
<1> DEFINE os == Append(s.objs, r)
           t == F!Add(s, r)
<1>1. FilesOK(s) /\ PathsOK(s) /\ CountsOK(s) BY DEF GoodFiles
<1>2. t = [objs |-> os, files |-> s.files, deleted |-> s.deleted, dirs |-> s.dirs, handles |-> s.handles]
  <2>1. s = [objs |-> s.objs, files |-> s.files, deleted |-> s.deleted, dirs |-> s.dirs, handles |-> s.handles]
    BY <1>1 DEF FilesOK
  <2> QED BY <2>1 DEF F!Add
<1>3. s.objs \in Seq(FileRecord) /\ Len(s.objs) \in Nat BY <1>1, FileTypes DEF FilesOK
<1>4. /\ os \in Seq(FileRecord) /\ Len(os) = Len(s.objs) + 1 /\ os[Len(s.objs) + 1] = r
      /\ \A x \in 1 .. Len(s.objs) : os[x] = s.objs[x]
  BY <1>3, AppendProperties
<1> HIDE DEF os, t
<1>5. /\ t.objs = os /\ t.files = s.files /\ t.deleted = s.deleted /\ t.dirs = s.dirs /\ t.handles = s.handles
      /\ t = [objs |-> t.objs, files |-> t.files, deleted |-> t.deleted, dirs |-> t.dirs, handles |-> t.handles]
  BY <1>2
<1>6. \A x \in 1 .. Len(os) : x \in 1 .. Len(s.objs) \/ x = Len(s.objs) + 1 BY <1>3, <1>4
<1>7. \A x \in 1 .. Len(s.objs) : x \in 1 .. Len(os) BY <1>3, <1>4
<1>8. FilesOK(t)
  <2>1. \A i \in DOMAIN s.files : s.files[i] \in 1 .. Len(os) BY <1>1, <1>7 DEF FilesOK
  <2>2. \A h \in DOMAIN s.handles : s.handles[h] \in 0 .. Len(os)
    <3>1. \A x \in 0 .. Len(s.objs) : x \in 0 .. Len(os) BY <1>3, <1>4
    <3> QED BY <1>1, <3>1 DEF FilesOK
  <2>3. \A f \in 1 .. Len(os) : os[f].origin < f
    <3>1. r.origin \in Nat BY DEF FileRecord
    <3>2. r.origin < Len(s.objs) + 1 BY <3>1, <1>3
    <3> QED BY <1>1, <1>4, <1>6, <3>2 DEF FilesOK
  <2> QED BY <1>1, <1>4, <1>5, <2>1, <2>2, <2>3 DEF FilesOK
<1>9. PathsOK(t)
  <2>1. \A i \in DOMAIN s.files : t.objs[s.files[i]] = s.objs[s.files[i]] BY <1>1, <1>4, <1>5 DEF FilesOK
  <2> QED BY <1>1, <1>5, <2>1 DEF PathsOK
<1>10. CountsOK(t) BY <1>1, <1>4, <1>5, <1>6 DEF CountsOK
<1>11. F!Newest(t) = Len(s.objs) + 1 BY <1>4, <1>5 DEF F!Newest
<1> QED BY <1>4, <1>5, <1>8, <1>9, <1>10, <1>11 DEF t, GoodFiles

\* What a list of registered files and a set of deleted paths keep.
Listing(os, fl, dl) ==
  /\ fl \in Seq(Nat)
  /\ \A i \in DOMAIN fl : fl[i] \in 1 .. Len(os) /\ os[fl[i]].origin = 0 /\ os[fl[i]].path \notin dl
  /\ \A i, j \in DOMAIN fl : os[fl[i]].path = os[fl[j]].path => i = j

\* A list of files that are registered, and a set of deleted paths that has none of theirs.
LEMMA FilesSet ==
  ASSUME NEW s, FilesOK(s), CountsOK(s), NEW fl, NEW dl, Listing(s.objs, fl, dl),
         NEW t, t = [objs |-> s.objs, files |-> fl, deleted |-> dl, dirs |-> s.dirs, handles |-> s.handles]
  PROVE  GoodFiles(t) /\ t.objs = s.objs /\ t.files = fl /\ t.deleted = dl /\ t.handles = s.handles
<1>2. /\ t.objs = s.objs /\ t.files = fl /\ t.deleted = dl /\ t.dirs = s.dirs /\ t.handles = s.handles
      /\ t = [objs |-> t.objs, files |-> t.files, deleted |-> t.deleted, dirs |-> t.dirs, handles |-> t.handles]
  OBVIOUS
<1>3. FilesOK(t) BY <1>2 DEF FilesOK, Listing
<1>4. PathsOK(t) BY <1>2 DEF PathsOK, Listing
<1>5. CountsOK(t) BY <1>2 DEF CountsOK
<1> QED BY <1>2, <1>3, <1>4, <1>5 DEF GoodFiles

\* Directories say nothing about files.
LEMMA DirsSet ==
  ASSUME NEW s, GoodFiles(s), NEW ds
  PROVE  LET t == [s EXCEPT !.dirs = ds]
         IN  GoodFiles(t) /\ t.objs = s.objs /\ t.files = s.files /\ t.deleted = s.deleted /\ t.handles = s.handles
<1> DEFINE t == [s EXCEPT !.dirs = ds]
<1>1. FilesOK(s) /\ PathsOK(s) /\ CountsOK(s) BY DEF GoodFiles
<1>2. t = [objs |-> s.objs, files |-> s.files, deleted |-> s.deleted, dirs |-> ds, handles |-> s.handles]
  <2>1. s = [objs |-> s.objs, files |-> s.files, deleted |-> s.deleted, dirs |-> s.dirs, handles |-> s.handles]
    BY <1>1 DEF FilesOK
  <2> QED BY <2>1
<1> HIDE DEF t
<1>3. /\ t.objs = s.objs /\ t.files = s.files /\ t.deleted = s.deleted /\ t.dirs = ds /\ t.handles = s.handles
      /\ t = [objs |-> t.objs, files |-> t.files, deleted |-> t.deleted, dirs |-> t.dirs, handles |-> t.handles]
  BY <1>2
<1>4. FilesOK(t) BY <1>1, <1>3 DEF FilesOK
<1>5. PathsOK(t) BY <1>1, <1>3 DEF PathsOK
<1>6. CountsOK(t) BY <1>1, <1>3 DEF CountsOK
<1> QED BY <1>3, <1>4, <1>5, <1>6 DEF t, GoodFiles

\* Handles of objects that exist.
LEMMA HandlesSet ==
  ASSUME NEW s, GoodFiles(s), NEW hs \in Seq(Nat), \A h \in DOMAIN hs : hs[h] \in 0 .. Len(s.objs)
  PROVE  LET t == [s EXCEPT !.handles = hs]
         IN  GoodFiles(t) /\ t.objs = s.objs /\ t.files = s.files /\ t.deleted = s.deleted /\ t.handles = hs
<1> DEFINE t == [s EXCEPT !.handles = hs]
<1>1. FilesOK(s) /\ PathsOK(s) /\ CountsOK(s) BY DEF GoodFiles
<1>2. t = [objs |-> s.objs, files |-> s.files, deleted |-> s.deleted, dirs |-> s.dirs, handles |-> hs]
  <2>1. s = [objs |-> s.objs, files |-> s.files, deleted |-> s.deleted, dirs |-> s.dirs, handles |-> s.handles]
    BY <1>1 DEF FilesOK
  <2> QED BY <2>1
<1> HIDE DEF t
<1>3. /\ t.objs = s.objs /\ t.files = s.files /\ t.deleted = s.deleted /\ t.dirs = s.dirs /\ t.handles = hs
      /\ t = [objs |-> t.objs, files |-> t.files, deleted |-> t.deleted, dirs |-> t.dirs, handles |-> t.handles]
  BY <1>2
<1>4. FilesOK(t) BY <1>1, <1>3 DEF FilesOK
<1>5. PathsOK(t) BY <1>1, <1>3 DEF PathsOK
<1>6. CountsOK(t) BY <1>1, <1>3 DEF CountsOK
<1> QED BY <1>3, <1>4, <1>5, <1>6 DEF t, GoodFiles

\* A handle that is given out.
LEMMA FileHandleAdded ==
  ASSUME NEW s, GoodFiles(s), NEW f \in 0 .. Len(s.objs)
  PROVE  LET t == F!new_handle(s, f)
         IN  /\ GoodFiles(t) /\ HandlesGrow(s, t) /\ Len(t.handles) = Len(s.handles) + 1
             /\ t.handles[Len(s.handles) + 1] = f /\ t.objs = s.objs /\ t.files = s.files /\ t.deleted = s.deleted
             /\ \A h \in DOMAIN s.handles : t.handles[h] = s.handles[h]
<1> DEFINE hs == Append(s.handles, f)
           t == F!new_handle(s, f)
<1>1. FilesOK(s) BY DEF GoodFiles
<1>2. s.handles \in Seq(Nat) /\ Len(s.handles) \in Nat /\ DOMAIN s.handles = 1 .. Len(s.handles)
      /\ Len(s.objs) \in Nat
  BY <1>1, FileTypes DEF FilesOK
<1>3. f \in Nat BY <1>2
<1>4. /\ hs \in Seq(Nat) /\ Len(hs) = Len(s.handles) + 1 /\ hs[Len(s.handles) + 1] = f
      /\ \A h \in 1 .. Len(s.handles) : hs[h] = s.handles[h]
  BY <1>2, <1>3, AppendProperties
<1> DEFINE u == [s EXCEPT !.handles = hs]
<1>5. t = u BY DEF F!new_handle
<1> HIDE DEF hs
<1>6. \A h \in DOMAIN hs : hs[h] \in 0 .. Len(s.objs)
  <2>1. DOMAIN hs = 1 .. Len(hs) BY <1>4, LenProperties
  <2>2. \A h \in 1 .. Len(hs) : h \in 1 .. Len(s.handles) \/ h = Len(s.handles) + 1 BY <1>2, <1>4
  <2> QED BY <1>1, <1>2, <1>4, <2>1, <2>2 DEF FilesOK
<1>7. /\ GoodFiles(u) /\ u.objs = s.objs /\ u.files = s.files /\ u.deleted = s.deleted /\ u.handles = hs
  BY <1>4, <1>6, HandlesSet
<1> HIDE DEF t, u
<1>8. HandlesGrow(s, t) BY <1>2, <1>4, <1>5, <1>7, SMTT(60) DEF HandlesGrow
<1> QED BY <1>2, <1>4, <1>5, <1>7, <1>8 DEF t

\* A handle that is closed.
LEMMA FileHandleClosed ==
  ASSUME NEW s, GoodFiles(s), NEW h \in DOMAIN s.handles
  PROVE  LET t == [s EXCEPT !.handles[h] = 0]
         IN  /\ GoodFiles(t) /\ HandlesGrow(s, t) /\ Len(t.handles) = Len(s.handles) /\ t.objs = s.objs
<1> DEFINE hs == [s.handles EXCEPT ![h] = 0]
           t == [s EXCEPT !.handles[h] = 0]
           u == [s EXCEPT !.handles = hs]
<1>1. FilesOK(s) BY DEF GoodFiles
<1>2. s.handles \in Seq(Nat) /\ Len(s.handles) \in Nat /\ DOMAIN s.handles = 1 .. Len(s.handles)
      /\ Len(s.objs) \in Nat
  BY <1>1, FileTypes DEF FilesOK
<1>3. /\ hs \in Seq(Nat) /\ Len(hs) = Len(s.handles)
      /\ \A x \in 1 .. Len(s.handles) : hs[x] = IF x = h THEN 0 ELSE s.handles[x]
  BY <1>2, ExceptSeq
<1>4. t = u
  <2>1. s = [objs |-> s.objs, files |-> s.files, deleted |-> s.deleted, dirs |-> s.dirs, handles |-> s.handles]
    BY <1>1 DEF FilesOK
  <2> QED BY <2>1
<1> HIDE DEF hs
<1>5. \A x \in DOMAIN hs : hs[x] \in 0 .. Len(s.objs)
  <2>1. DOMAIN hs = 1 .. Len(hs) BY <1>3, LenProperties
  <2>2. 0 \in 0 .. Len(s.objs) BY <1>2
  <2> QED BY <1>1, <1>2, <1>3, <2>1, <2>2 DEF FilesOK
<1>6. /\ GoodFiles(u) /\ u.objs = s.objs /\ u.files = s.files /\ u.deleted = s.deleted /\ u.handles = hs
  BY <1>3, <1>5, HandlesSet
<1> HIDE DEF t, u
<1>7. HandlesGrow(s, t) BY <1>2, <1>3, <1>4, <1>6 DEF HandlesGrow
<1> QED BY <1>3, <1>4, <1>6, <1>7 DEF t

-----------------------------------------------------------------------------
(* Paths. *)

\* The module Files has the same operator.
LEMMA SameRemoveFirst == ASSUME NEW seq, NEW e PROVE F!RemoveFirst(seq, e) = RemoveFirst(seq, e)
BY DEF F!RemoveFirst, RemoveFirst, F!RemoveAt, RemoveAt, F!SelectInSeq, SelectInSeq, F!Min, Min

\* A registered file is registered once.
LEMMA ListedOnce ==
  ASSUME NEW s, GoodFiles(s)
  PROVE  \A i, j \in DOMAIN s.files : s.files[i] = s.files[j] => i = j
BY DEF GoodFiles, PathsOK

\* The file of a path is registered; without one no registered file has the path, and the one that has it is it.
LEMMA FromPath ==
  ASSUME NEW s, GoodFiles(s), NEW p
  PROVE  LET f == F!get_file_from_path(s, p)
         IN  /\ f \in Nat
             /\ f # 0 => /\ f \in 1 .. Len(s.objs) /\ s.objs[f].origin = 0
                         /\ \E i \in DOMAIN s.files : s.files[i] = f
             /\ \A i \in DOMAIN s.files : s.objs[s.files[i]].path = p => s.files[i] = f
<1> DEFINE f == F!get_file_from_path(s, p)
           own == {i \in DOMAIN s.files : s.objs[s.files[i]].path = p}
           first == CHOOSE i \in own : \A j \in own : i <= j
<1>1. FilesOK(s) /\ PathsOK(s) BY DEF GoodFiles
<1>2. DOMAIN s.files = 1 .. Len(s.files) /\ Len(s.files) \in Nat /\ Len(s.objs) \in Nat BY <1>1, FileTypes
<1>3. \A i \in DOMAIN s.files : s.files[i] \in 1 .. Len(s.objs) /\ s.objs[s.files[i]].origin = 0
  BY <1>1 DEF FilesOK, PathsOK
<1>4. f = IF own # {} THEN s.files[first] ELSE IF F!is_image_alias(s, p) THEN s.files[1] ELSE 0
  BY DEF F!get_file_from_path
<1>5. CASE own # {}
  <2>1. own \subseteq 1 .. Len(s.files) BY <1>2
  <2>2. own \subseteq Nat BY <2>1, <1>2
  <2>3. first \in own
    <3> HIDE DEF own
    <3> QED BY <1>5, <2>2, LeastOf
  <2>4. f = s.files[first] BY <1>4, <1>5
  <2>5. \A i \in own : i = first BY <2>3, <1>1 DEF PathsOK
  <2> HIDE DEF f, first
  <2>6. first \in DOMAIN s.files BY <2>3
  <2>7. \A i \in DOMAIN s.files : s.objs[s.files[i]].path = p => s.files[i] = f BY <2>4, <2>5
  <2>8. \A x \in 1 .. Len(s.objs) : x \in Nat BY <1>2
  <2> HIDE DEF own
  <2> QED BY <1>3, <2>4, <2>6, <2>7, <2>8 DEF f
<1>6. CASE own = {} /\ F!is_image_alias(s, p)
  <2>1. f = s.files[1] BY <1>4, <1>6
  <2>2. s.files # <<>> BY <1>6 DEF F!is_image_alias
  <2>3. s.files \in Seq(Nat) BY <1>1 DEF FilesOK
  <2>4. 1 \in DOMAIN s.files BY <1>2, <2>2, <2>3, EmptySeq
  <2>5. \A i \in DOMAIN s.files : s.objs[s.files[i]].path # p BY <1>6
  <2>6. \A x \in 1 .. Len(s.objs) : x \in Nat BY <1>2
  <2> HIDE DEF f, own
  <2> QED BY <1>3, <2>1, <2>4, <2>5, <2>6 DEF f
<1>7. CASE own = {} /\ ~F!is_image_alias(s, p)
  <2>1. f = 0 BY <1>4, <1>7
  <2>2. \A i \in DOMAIN s.files : s.objs[s.files[i]].path # p BY <1>7
  <2> HIDE DEF f, own
  <2> QED BY <2>1, <2>2 DEF f
<1> QED BY <1>5, <1>6, <1>7

\* A file that is not registered any more, and the paths that are deleted then.
LEMMA Unlisted ==
  ASSUME NEW s, GoodFiles(s), NEW f, NEW dl,
         \A i \in DOMAIN s.files : s.files[i] # f => s.objs[s.files[i]].path \notin dl,
         NEW t, t = [objs |-> s.objs, files |-> RemoveFirst(s.files, f), deleted |-> dl, dirs |-> s.dirs,
                     handles |-> s.handles]
  PROVE  /\ GoodFiles(t) /\ t.objs = s.objs /\ t.handles = s.handles /\ t.deleted = dl
         /\ \A j \in DOMAIN t.files : \E i \in DOMAIN s.files : t.files[j] = s.files[i] /\ s.files[i] # f
<1> DEFINE fl == RemoveFirst(s.files, f)
<1>1. FilesOK(s) /\ PathsOK(s) /\ CountsOK(s) BY DEF GoodFiles
<1>2. s.files \in Seq(Nat) BY <1>1 DEF FilesOK
<1>3. \A i, j \in DOMAIN s.files : s.files[i] = s.files[j] => i = j BY ListedOnce
<1>4. /\ fl \in Seq(Nat)
      /\ \A j \in DOMAIN fl : \E i \in DOMAIN s.files : fl[j] = s.files[i] /\ s.files[i] # f
      /\ \A i, j \in DOMAIN fl : fl[i] = fl[j] => i = j
  BY <1>2, <1>3, Removed
<1> HIDE DEF fl
<1>5. \A i \in DOMAIN fl : /\ fl[i] \in 1 .. Len(s.objs) /\ s.objs[fl[i]].origin = 0
                           /\ s.objs[fl[i]].path \notin dl
  BY <1>1, <1>4 DEF FilesOK, PathsOK
<1>6. \A i, j \in DOMAIN fl : s.objs[fl[i]].path = s.objs[fl[j]].path => i = j
  <2> SUFFICES ASSUME NEW i \in DOMAIN fl, NEW j \in DOMAIN fl, s.objs[fl[i]].path = s.objs[fl[j]].path
               PROVE  i = j
    OBVIOUS
  <2>1. PICK a \in DOMAIN s.files : fl[i] = s.files[a] BY <1>4
  <2>2. PICK b \in DOMAIN s.files : fl[j] = s.files[b] BY <1>4
  <2>3. a = b BY <2>1, <2>2, <1>1 DEF PathsOK
  <2> QED BY <2>1, <2>2, <2>3, <1>4
<1>7. GoodFiles(t) /\ t.objs = s.objs /\ t.files = fl /\ t.deleted = dl /\ t.handles = s.handles
  <2>1. Listing(s.objs, fl, dl) BY <1>4, <1>5, <1>6 DEF Listing
  <2>2. t = [objs |-> s.objs, files |-> fl, deleted |-> dl, dirs |-> s.dirs, handles |-> s.handles] BY DEF fl
  <2> QED BY <1>1, <2>1, <2>2, FilesSet
<1> QED BY <1>4, <1>7

\* A file that is registered under a path that is not deleted and that no other file has.
LEMMA NewlyListed ==
  ASSUME NEW s, GoodFiles(s), NEW r \in FileRecord, r.origin = 0, Ones(r.data) <= r.written,
         r.path \notin s.deleted, \A i \in DOMAIN s.files : s.objs[s.files[i]].path # r.path
  PROVE  LET t == F!Register(s, r)
         IN  /\ GoodFiles(t) /\ Len(t.objs) = Len(s.objs) + 1 /\ t.objs[Len(s.objs) + 1] = r
             /\ F!Newest(t) = Len(s.objs) + 1
             /\ t.deleted = s.deleted /\ t.handles = s.handles
             /\ \A f \in 1 .. Len(s.objs) : t.objs[f] = s.objs[f]
             /\ \E i \in DOMAIN t.files : t.files[i] = Len(s.objs) + 1
<1> DEFINE u == F!Add(s, r)
           n == Len(s.objs) + 1
           fl == Append(s.files, n)
           t == F!Register(s, r)
<1>1. FilesOK(s) /\ PathsOK(s) /\ CountsOK(s) BY DEF GoodFiles
<1>2. s.files \in Seq(Nat) /\ DOMAIN s.files = 1 .. Len(s.files) /\ Len(s.files) \in Nat /\ Len(s.objs) \in Nat
  BY <1>1, FileTypes DEF FilesOK
<1>3. r.origin <= Len(s.objs) BY <1>2
<1>4. /\ GoodFiles(u) /\ Len(u.objs) = n /\ u.objs[n] = r /\ F!Newest(u) = n
      /\ u.files = s.files /\ u.deleted = s.deleted /\ u.handles = s.handles
      /\ \A f \in 1 .. Len(s.objs) : u.objs[f] = s.objs[f]
  BY <1>3, FileAdded
<1>5. t = [u EXCEPT !.files = Append(@, F!Newest(u))] BY DEF F!Register
<1> HIDE DEF u, t
<1>6. t = [u EXCEPT !.files = fl] BY <1>4, <1>5
<1>7. /\ fl \in Seq(Nat) /\ Len(fl) = Len(s.files) + 1 /\ fl[Len(s.files) + 1] = n
      /\ \A i \in 1 .. Len(s.files) : fl[i] = s.files[i]
  BY <1>2, AppendProperties
<1> HIDE DEF fl
<1>8. DOMAIN fl = 1 .. Len(fl) BY <1>7, LenProperties
<1>9. \A i \in DOMAIN fl : i \in DOMAIN s.files \/ i = Len(s.files) + 1 BY <1>2, <1>7, <1>8
<1>10. n \in 1 .. n /\ (\A x \in 1 .. Len(s.objs) : x \in 1 .. n) BY <1>2
<1> HIDE DEF n
<1>11. \A i \in DOMAIN s.files : s.files[i] \in 1 .. Len(s.objs) /\ u.objs[s.files[i]] = s.objs[s.files[i]]
  BY <1>1, <1>4 DEF FilesOK
<1>12. \A i \in DOMAIN fl : /\ fl[i] \in 1 .. Len(u.objs) /\ u.objs[fl[i]].origin = 0
                            /\ u.objs[fl[i]].path \notin s.deleted
  <2>1. ASSUME NEW i \in DOMAIN s.files
        PROVE  fl[i] \in 1 .. n /\ u.objs[fl[i]].origin = 0 /\ u.objs[fl[i]].path \notin s.deleted
    <3>1. fl[i] = s.files[i] BY <1>2, <1>7
    <3>2. s.objs[s.files[i]].origin = 0 /\ s.objs[s.files[i]].path \notin s.deleted BY <1>1 DEF PathsOK
    <3> QED BY <3>1, <3>2, <1>10, <1>11
  <2>2. /\ fl[Len(s.files) + 1] \in 1 .. n /\ u.objs[fl[Len(s.files) + 1]].origin = 0
        /\ u.objs[fl[Len(s.files) + 1]].path \notin s.deleted
    BY <1>4, <1>7, <1>10
  <2> QED BY <2>1, <2>2, <1>4, <1>9
<1>13. \A i, j \in DOMAIN fl : u.objs[fl[i]].path = u.objs[fl[j]].path => i = j
  <2>1. \A i \in DOMAIN s.files : fl[i] = s.files[i] /\ u.objs[fl[i]].path = s.objs[s.files[i]].path
    BY <1>2, <1>7, <1>11
  <2>2. u.objs[fl[Len(s.files) + 1]].path = r.path BY <1>4, <1>7
  <2> QED BY <1>1, <1>9, <2>1, <2>2 DEF PathsOK
<1>14. FilesOK(u) /\ CountsOK(u) BY <1>4 DEF GoodFiles
<1>15. GoodFiles(t) /\ t.objs = u.objs /\ t.files = fl /\ t.deleted = s.deleted /\ t.handles = u.handles
  <2>1. Listing(u.objs, fl, s.deleted) BY <1>7, <1>12, <1>13 DEF Listing
  <2>2. u = [objs |-> u.objs, files |-> u.files, deleted |-> u.deleted, dirs |-> u.dirs, handles |-> u.handles]
    BY <1>14 DEF FilesOK
  <2>3. t = [objs |-> u.objs, files |-> fl, deleted |-> u.deleted, dirs |-> u.dirs, handles |-> u.handles]
    BY <2>2, <1>6
  <2>4. t = [objs |-> u.objs, files |-> fl, deleted |-> s.deleted, dirs |-> u.dirs, handles |-> u.handles]
    BY <2>3, <1>4
  <2> QED BY <2>1, <2>4, <1>14, FilesSet
<1>17. F!Newest(t) = n BY <1>4, <1>15 DEF F!Newest
<1>18. Len(s.files) + 1 \in DOMAIN fl BY <1>2, <1>7, <1>8
<1> QED BY <1>4, <1>7, <1>15, <1>17, <1>18 DEF t, n

\* What a new file of the list keeps of the others.
OneMore(s, t) ==
  /\ Len(t.objs) = Len(s.objs) + 1 /\ F!Newest(t) = Len(s.objs) + 1 /\ t.handles = s.handles
  /\ \A f \in 1 .. Len(s.objs) : t.objs[f] = s.objs[f]

\* A new file has its path alone, and the path is not deleted any more.
LEMMA CreateFileKeeps ==
  ASSUME NEW s, GoodFiles(s), NEW p \in AnyPath
  PROVE  LET t == F!create_file(s, p)
         IN  /\ GoodFiles(t) /\ OneMore(s, t) /\ t.objs[Len(s.objs) + 1] = F!File("file", p, <<>>)
<1> DEFINE f == F!get_file_from_path(s, p)
           fl == RemoveFirst(s.files, f)
           dl == s.deleted \ {p}
           v == F!Unregister(s, f)
           w == [v EXCEPT !.deleted = @ \ {p}]
           u == [objs |-> s.objs, files |-> fl, deleted |-> dl, dirs |-> s.dirs, handles |-> s.handles]
           r == F!File("file", p, <<>>)
           t == F!create_file(s, p)
<1>1. FilesOK(s) /\ PathsOK(s) BY DEF GoodFiles
<1>2. t = F!Register(w, r) BY DEF F!create_file
<1>3. w = u
  <2>1. s = [objs |-> s.objs, files |-> s.files, deleted |-> s.deleted, dirs |-> s.dirs, handles |-> s.handles]
    BY <1>1 DEF FilesOK
  <2>2. v = [s EXCEPT !.files = fl] BY SameRemoveFirst DEF F!Unregister
  <2> HIDE DEF v, fl
  <2>3. v = [objs |-> s.objs, files |-> fl, deleted |-> s.deleted, dirs |-> s.dirs, handles |-> s.handles]
    BY <2>1, <2>2
  <2>4. w = [objs |-> s.objs, files |-> fl, deleted |-> dl, dirs |-> s.dirs, handles |-> s.handles] BY <2>3
  <2> QED BY <2>4
<1>4. \A i \in DOMAIN s.files : s.objs[s.files[i]].path \notin dl BY <1>1 DEF PathsOK
<1>5. \A i \in DOMAIN s.files : s.objs[s.files[i]].path = p => s.files[i] = f BY FromPath
<1> HIDE DEF f
<1>6. /\ GoodFiles(u) /\ u.objs = s.objs /\ u.handles = s.handles /\ u.deleted = dl
      /\ \A j \in DOMAIN u.files : \E i \in DOMAIN s.files : u.files[j] = s.files[i] /\ s.files[i] # f
  BY <1>4, Unlisted
<1> HIDE DEF u, w, v, fl
<1>7. r \in FileRecord /\ r.path = p /\ r.origin = 0 /\ Ones(r.data) <= r.written
  <2>1. "file" \in Kinds BY DEF Kinds
  <2>2. <<>> \in Content /\ Ones(<<>>) = 0 BY NoOnes
  <2>3. r \in FileRecord /\ r.path = p /\ r.data = <<>> /\ r.origin = 0 /\ r.written = 0 BY <2>1, <2>2, NewFile
  <2> HIDE DEF r
  <2>4. Ones(r.data) <= r.written BY <2>2, <2>3
  <2> QED BY <2>3, <2>4
<1> HIDE DEF r
<1>8. r.path \notin u.deleted BY <1>6, <1>7
<1>9. \A j \in DOMAIN u.files : u.objs[u.files[j]].path # r.path BY <1>5, <1>6, <1>7
<1> HIDE DEF t, dl
<1> DEFINE z == F!Register(u, r)
<1>10. /\ GoodFiles(z) /\ Len(z.objs) = Len(u.objs) + 1 /\ z.objs[Len(u.objs) + 1] = r
       /\ F!Newest(z) = Len(u.objs) + 1 /\ z.handles = u.handles
       /\ \A g \in 1 .. Len(u.objs) : z.objs[g] = u.objs[g]
  BY <1>6, <1>7, <1>8, <1>9, NewlyListed
<1> HIDE DEF z
<1>11. t = z BY <1>2, <1>3 DEF z
<1> QED BY <1>6, <1>10, <1>11 DEF t, r, OneMore

\* A path that is deleted has no file.
LEMMA RemoveFileKeeps ==
  ASSUME NEW s, GoodFiles(s), NEW p
  PROVE  LET t == F!remove_file(s, p) IN GoodFiles(t) /\ t.objs = s.objs /\ t.handles = s.handles
<1> DEFINE f == F!get_file_from_path(s, p)
           w == [s EXCEPT !.deleted = @ \cup {p}]
           f2 == F!get_file_from_path(w, p)
           fl == RemoveFirst(s.files, f)
           dl == s.deleted \cup {p}
           u == [objs |-> s.objs, files |-> fl, deleted |-> dl, dirs |-> s.dirs, handles |-> s.handles]
           t == F!remove_file(s, p)
<1>1. FilesOK(s) /\ PathsOK(s) BY DEF GoodFiles
<1>2. t = F!Unregister(w, f) BY DEF F!remove_file
<1>3. t = u
  <2>1. s = [objs |-> s.objs, files |-> s.files, deleted |-> s.deleted, dirs |-> s.dirs, handles |-> s.handles]
    BY <1>1 DEF FilesOK
  <2>2. w = [objs |-> s.objs, files |-> s.files, deleted |-> dl, dirs |-> s.dirs, handles |-> s.handles] BY <2>1
  <2>3. t = [w EXCEPT !.files = RemoveFirst(w.files, f)] BY <1>2, SameRemoveFirst DEF F!Unregister
  <2> HIDE DEF w, t, f
  <2>4. w.files = s.files BY <2>2
  <2>5. t = [w EXCEPT !.files = fl] BY <2>3, <2>4
  <2> HIDE DEF fl
  <2>6. t = [objs |-> s.objs, files |-> fl, deleted |-> dl, dirs |-> s.dirs, handles |-> s.handles] BY <2>2, <2>5
  <2> QED BY <2>6
<1>4. \A i \in DOMAIN s.files : s.objs[s.files[i]].path = p => s.files[i] = f BY FromPath
<1> HIDE DEF f, t
<1>5. \A i \in DOMAIN s.files : s.files[i] # f => s.objs[s.files[i]].path \notin dl BY <1>1, <1>4 DEF PathsOK
<1>6. GoodFiles(u) /\ u.objs = s.objs /\ u.handles = s.handles BY <1>5, Unlisted
<1> HIDE DEF u
<1> QED BY <1>3, <1>6 DEF t

\* A path that is not deleted can be served; then it has a registered file.
Served(s, p) == F!get_file_from_path(s, p) # 0 \/ p \notin s.deleted

LEMMA HasIsServed ==
  ASSUME NEW s, NEW p, F!Has(s, p) \/ p \notin s.deleted \/ F!get_emu_file(s, p) # "none"
  PROVE  Served(s, p)
BY DEF F!Has, F!get_emu_file, Served

\* The content that the configuration gives a file.
LEMMA FileData ==
  ASSUME NEW p
  PROVE  F!handle_file_data(p) \in Content /\ Ones(F!handle_file_data(p)) = 0
<1>1. F!handle_file_data(p) = <<0>> \/ F!handle_file_data(p) = <<>> BY DEF F!handle_file_data
<1> QED BY <1>1, NoOnes

LEMMA ByPathKeeps ==
  ASSUME NEW s, GoodFiles(s), NEW p \in AnyPath, Served(s, p)
  PROVE  LET t == F!get_file_by_path(s, p)
         IN  /\ GoodFiles(t) /\ t.handles = s.handles
             /\ F!get_file_from_path(t, p) \in 1 .. Len(t.objs)
             /\ F!get_file_from_path(s, p) = 0 => OneMore(s, t)
<1> DEFINE f == F!get_file_from_path(s, p)
           t == F!get_file_by_path(s, p)
<1>1. CASE f # 0
  <2>1. t = s BY <1>1 DEF F!get_file_by_path
  <2>2. f \in 1 .. Len(s.objs) BY <1>1, FromPath
  <2> HIDE DEF t
  <2> QED BY <1>1, <2>1, <2>2 DEF t
<1>2. CASE f = 0
  <2> DEFINE r == F!File("file", p, F!handle_file_data(p))
             z == F!Register(s, r)
  <2>1. t = z BY <1>2 DEF F!get_file_by_path
  <2>2. r \in FileRecord /\ r.path = p /\ r.origin = 0 /\ Ones(r.data) <= r.written
    <3>1. "file" \in Kinds BY DEF Kinds
    <3>2. F!handle_file_data(p) \in Content /\ Ones(F!handle_file_data(p)) = 0 BY FileData
    <3>3. r \in FileRecord /\ r.path = p /\ r.data = F!handle_file_data(p) /\ r.origin = 0 /\ r.written = 0
      BY <3>1, <3>2, NewFile
    <3> HIDE DEF r
    <3>4. Ones(r.data) <= r.written BY <3>2, <3>3
    <3> QED BY <3>3, <3>4
  <2> HIDE DEF r
  <2>3. p \notin s.deleted BY <1>2 DEF Served
  <2>4. \A i \in DOMAIN s.files : s.files[i] # 0
    <3>1. FilesOK(s) BY DEF GoodFiles
    <3> QED BY <3>1, FileTypes DEF FilesOK
  <2>5. \A i \in DOMAIN s.files : s.objs[s.files[i]].path = p => s.files[i] = f BY FromPath
  <2>6. \A i \in DOMAIN s.files : s.objs[s.files[i]].path # p BY <1>2, <2>4, <2>5
  <2>7. r.path \notin s.deleted /\ \A i \in DOMAIN s.files : s.objs[s.files[i]].path # r.path BY <2>2, <2>3, <2>6
  <2>8. /\ GoodFiles(z) /\ Len(z.objs) = Len(s.objs) + 1 /\ z.objs[Len(s.objs) + 1] = r
        /\ F!Newest(z) = Len(s.objs) + 1 /\ z.handles = s.handles
        /\ (\A g \in 1 .. Len(s.objs) : z.objs[g] = s.objs[g])
        /\ \E i \in DOMAIN z.files : z.files[i] = Len(s.objs) + 1
    BY <2>2, <2>7, NewlyListed
  <2> HIDE DEF z
  <2>9. F!get_file_from_path(z, p) \in 1 .. Len(z.objs)
    <3> DEFINE g == F!get_file_from_path(z, p)
    <3>1. PICK i \in DOMAIN z.files : z.files[i] = Len(s.objs) + 1 BY <2>8
    <3>2. z.objs[z.files[i]].path = p BY <2>2, <2>8, <3>1
    <3>3. z.files[i] = g BY <2>8, <3>2, FromPath
    <3>4. Len(s.objs) \in Nat
      <4>1. FilesOK(s) BY DEF GoodFiles
      <4> QED BY <4>1, FileTypes
    <3> HIDE DEF g
    <3> QED BY <2>8, <3>1, <3>3, <3>4 DEF g
  <2> HIDE DEF t, f
  <2> QED BY <2>1, <2>8, <2>9 DEF t, OneMore
<1> QED BY <1>1, <1>2

\* The bytes of a file are those of itself or of its origin.
LEMMA Contents ==
  ASSUME NEW s, GoodFiles(s), NEW f \in 1 .. Len(s.objs)
  PROVE  /\ F!Buffer(s, f) \in 1 .. Len(s.objs)
         /\ F!get_contents(s, f) = s.objs[F!Buffer(s, f)].data
         /\ F!get_contents(s, f) \in Content
         /\ F!get_size(s, f) = Len(F!get_contents(s, f)) /\ F!get_size(s, f) \in Nat
<1>1. FilesOK(s) BY DEF GoodFiles
<1>2. Len(s.objs) \in Nat /\ s.objs[f].origin \in Nat /\ s.objs[f].origin < f BY <1>1, FileTypes DEF FilesOK
<1>3. F!Buffer(s, f) \in 1 .. Len(s.objs)
  <2>1. F!Buffer(s, f) = IF s.objs[f].origin # 0 THEN s.objs[f].origin ELSE f BY DEF F!Buffer
  <2> QED BY <1>2, <2>1
<1>4. s.objs[F!Buffer(s, f)].data \in Content /\ Len(s.objs[F!Buffer(s, f)].data) \in Nat BY <1>1, <1>3, FileTypes
<1>5. F!get_contents(s, f) = s.objs[F!Buffer(s, f)].data BY DEF F!get_contents
<1>6. F!get_size(s, f) = Len(F!get_contents(s, f)) BY DEF F!get_size
<1> QED BY <1>3, <1>4, <1>5, <1>6

-----------------------------------------------------------------------------
(* Copies, duplicates and opens. *)

\* The copy has the content of the source, and counts as written by the guest.
LEMMA CopyKeeps ==
  ASSUME NEW s, GoodFiles(s), NEW src \in AnyPath, NEW dst \in AnyPath, Served(s, src)
  PROVE  LET t == F!copy_file(s, src, dst) IN GoodFiles(t) /\ t.handles = s.handles
<1> DEFINE t == F!get_file_by_path(s, src)
           g == F!get_file_from_path(t, src)
           d == F!get_contents(t, g)
           n == F!get_size(t, g)
           u == F!create_file(t, dst)
           new == F!Newest(u)
           v == [u EXCEPT !.objs[new].written = n]
           w == [v EXCEPT !.objs[new].data = d]
           c == F!copy_file(s, src, dst)
<1>1. GoodFiles(t) /\ t.handles = s.handles /\ g \in 1 .. Len(t.objs) BY ByPathKeeps
<1>2. c = [u EXCEPT !.objs[new].written = n, !.objs[new].data = d] BY DEF F!copy_file
<1>3. c = w BY <1>2
<1> HIDE DEF c, t, g
<1>4. d \in Content /\ n = Len(d) /\ n \in Nat BY <1>1, Contents
<1>5. GoodFiles(u) /\ OneMore(t, u) /\ u.objs[Len(t.objs) + 1] = F!File("file", dst, <<>>) BY <1>1, CreateFileKeeps
<1>6. Ones(d) <= n BY <1>4, OnesAreFinite
<1> HIDE DEF d, n
<1>7. new = Len(t.objs) + 1 /\ new \in 1 .. Len(u.objs)
  <2>1. FilesOK(t) BY <1>1 DEF GoodFiles
  <2>2. Len(t.objs) \in Nat BY <2>1, FileTypes
  <2> HIDE DEF u
  <2> QED BY <1>5, <2>2 DEF OneMore
<1>8. u.objs[new].data = <<>>
  <2>1. "file" \in Kinds BY DEF Kinds
  <2>2. F!File("file", dst, <<>>).data = <<>> BY <2>1, NoOnes, NewFile
  <2> QED BY <1>5, <1>7, <2>2
<1> HIDE DEF new, u
<1>9. Ones(u.objs[new].data) <= n BY <1>4, <1>8, NoOnes
<1>10. GoodFiles(v) /\ SameFiles(u, v) /\ v.objs[new].written = n BY <1>4, <1>5, <1>7, <1>9, WrittenSet
<1> HIDE DEF v
<1>11. new \in 1 .. Len(v.objs) /\ v.handles = u.handles BY <1>7, <1>10 DEF SameFiles
<1>12. GoodFiles(w) /\ SameFiles(v, w) BY <1>4, <1>6, <1>10, <1>11, DataSet
<1> HIDE DEF w
<1>13. w.handles = s.handles BY <1>1, <1>5, <1>11, <1>12 DEF SameFiles, OneMore
<1> QED BY <1>3, <1>12, <1>13 DEF c

\* A move is a copy and a removal of the source.
LEMMA MoveKeeps ==
  ASSUME NEW s, GoodFiles(s), NEW src \in AnyPath, NEW dst \in AnyPath, Served(s, src)
  PROVE  LET t == F!move_file(s, src, dst) IN GoodFiles(t) /\ t.handles = s.handles
<1> DEFINE c == F!copy_file(s, src, dst)
           t == F!remove_file(c, src)
<1>1. GoodFiles(c) /\ c.handles = s.handles BY CopyKeeps
<1>2. F!move_file(s, src, dst) = t BY DEF F!move_file
<1> HIDE DEF c
<1>3. GoodFiles(t) /\ t.handles = c.handles BY <1>1, RemoveFileKeeps
<1> HIDE DEF t
<1> QED BY <1>1, <1>2, <1>3

\* An object of its own, with an origin or without.
LEMMA NewOrigin ==
  ASSUME NEW kind \in Kinds, NEW p \in AnyPath, NEW o \in Nat
  PROVE  LET r == [F!File(kind, p, <<>>) EXCEPT !.origin = o]
         IN  r \in FileRecord /\ r.origin = o /\ Ones(r.data) <= r.written
<1> DEFINE q == F!File(kind, p, <<>>)
           r == [q EXCEPT !.origin = o]
<1>1. q \in FileRecord /\ q.data = <<>> /\ q.written = 0 BY NoOnes, NewFile
<1> HIDE DEF q
<1>2. r \in FileRecord /\ r.origin = o /\ r.data = <<>> /\ r.written = 0 BY <1>1 DEF FileRecord
<1> HIDE DEF r
<1>3. Ones(r.data) <= r.written BY <1>2, NoOnes
<1> QED BY <1>2, <1>3 DEF r, q

\* A duplicate is one object more.
LEMMA DuplicateKeepsFiles ==
  ASSUME NEW s, GoodFiles(s), NEW f \in 1 .. Len(s.objs)
  PROVE  LET t == F!duplicate(s, f) IN GoodFiles(t) /\ OneMore(s, t)
<1> DEFINE t == F!duplicate(s, f)
           b == F!Buffer(s, f)
<1>1. FilesOK(s) BY DEF GoodFiles
<1>2. Len(s.objs) \in Nat /\ s.objs[f].path \in AnyPath BY <1>1, FileTypes
<1>3. b \in 1 .. Len(s.objs) BY Contents
<1>4. b \in Nat /\ b <= Len(s.objs) BY <1>2, <1>3
<1> HIDE DEF b
<1>5. CASE s.objs[f].kind = F!NUL
  <2> DEFINE r == F!File(F!NUL, F!NUL, <<>>)
             z == F!Add(s, r)
  <2>1. t = z BY <1>5 DEF F!duplicate
  <2>2. F!NUL \in Kinds /\ F!NUL \in AnyPath BY DEF Kinds, AnyPath
  <2>3. r \in FileRecord /\ r.data = <<>> /\ r.origin = 0 /\ r.written = 0 BY <2>2, NoOnes, NewFile
  <2> HIDE DEF r
  <2>4. r.origin <= Len(s.objs) /\ Ones(r.data) <= r.written BY <1>2, <2>3, NoOnes
  <2>5. /\ GoodFiles(z) /\ Len(z.objs) = Len(s.objs) + 1 /\ F!Newest(z) = Len(s.objs) + 1
        /\ z.handles = s.handles /\ \A g \in 1 .. Len(s.objs) : z.objs[g] = s.objs[g]
    BY <2>3, <2>4, FileAdded
  <2> HIDE DEF t, z
  <2> QED BY <2>1, <2>5 DEF t, OneMore
<1>6. CASE s.objs[f].kind # F!NUL
  <2> DEFINE r == [F!File("file", s.objs[f].path, <<>>) EXCEPT !.origin = b]
             z == F!Add(s, r)
  <2>1. t = z BY <1>6 DEF F!duplicate, b
  <2>2. "file" \in Kinds BY DEF Kinds
  <2>3. r \in FileRecord /\ r.origin = b /\ Ones(r.data) <= r.written BY <1>2, <1>4, <2>2, NewOrigin
  <2> HIDE DEF r
  <2>4. r.origin <= Len(s.objs) BY <1>4, <2>3
  <2>5. /\ GoodFiles(z) /\ Len(z.objs) = Len(s.objs) + 1 /\ F!Newest(z) = Len(s.objs) + 1
        /\ z.handles = s.handles /\ \A g \in 1 .. Len(s.objs) : z.objs[g] = s.objs[g]
    BY <2>3, <2>4, FileAdded
  <2> HIDE DEF t, z
  <2> QED BY <2>1, <2>5 DEF t, OneMore
<1> QED BY <1>5, <1>6

\* One object and one handle more.
OpenedOne(s, t) ==
  /\ GoodFiles(t) /\ HandlesGrow(s, t) /\ Len(t.handles) = Len(s.handles) + 1
  /\ Len(t.objs) = Len(s.objs) + 1 /\ F!Newest(t) = Len(t.objs)

\* The handle of the newest object.
LEMMA OpenNewest ==
  ASSUME NEW s, GoodFiles(s), NEW t, GoodFiles(t), OneMore(s, t)
  PROVE  OpenedOne(s, F!new_handle(t, F!Newest(t)))
<1> DEFINE n == F!Newest(t)
           z == F!new_handle(t, n)
<1>1. FilesOK(s) BY DEF GoodFiles
<1>2. Len(s.objs) \in Nat BY <1>1, FileTypes
<1>3. n \in 0 .. Len(t.objs) /\ n = Len(t.objs) BY <1>2 DEF OneMore
<1> HIDE DEF n
<1>4. GoodFiles(z) /\ HandlesGrow(t, z) /\ Len(z.handles) = Len(t.handles) + 1 /\ z.objs = t.objs
  BY <1>3, FileHandleAdded
<1>5. OpenedOne(s, z)
  <2> HIDE DEF z
  <2>1. HandlesGrow(s, z) BY <1>4 DEF HandlesGrow, OneMore
  <2>2. F!Newest(z) = Len(z.objs) BY DEF F!Newest
  <2> QED BY <1>4, <2>1, <2>2 DEF OpenedOne, OneMore
<1> QED BY <1>5 DEF z, n

\* An object without a path, a pipe or a mapping is one object more.
LEMMA AddKeeps ==
  ASSUME NEW s, GoodFiles(s), NEW r \in FileRecord, r.origin <= Len(s.objs), Ones(r.data) <= r.written
  PROVE  GoodFiles(F!Add(s, r)) /\ OneMore(s, F!Add(s, r))
<1> DEFINE z == F!Add(s, r)
<1>1. /\ GoodFiles(z) /\ Len(z.objs) = Len(s.objs) + 1 /\ F!Newest(z) = Len(s.objs) + 1
      /\ z.handles = s.handles /\ \A g \in 1 .. Len(s.objs) : z.objs[g] = s.objs[g]
  BY FileAdded
<1> HIDE DEF z
<1> QED BY <1>1 DEF z, OneMore

\* An open of a path that is created, served, or of the null device.
LEMMA OpenKeepsFiles ==
  ASSUME NEW s, GoodFiles(s), NEW p \in AnyPath, NEW create \in BOOLEAN, p = F!NUL \/ create \/ Served(s, p)
  PROVE  OpenedOne(s, F!file_open(s, p, create))
<1> DEFINE t == F!file_open(s, p, create)
           f == F!get_file_from_path(s, p)
<1>0. FilesOK(s) /\ Len(s.objs) \in Nat
  <2>1. FilesOK(s) BY DEF GoodFiles
  <2> QED BY <2>1, FileTypes
<1>1. CASE p = F!NUL
  <2> DEFINE r == F!File(F!NUL, F!NUL, <<>>)
             z == F!Add(s, r)
  <2>1. t = F!new_handle(z, F!Newest(z)) BY <1>1 DEF F!file_open
  <2>2. F!NUL \in Kinds /\ F!NUL \in AnyPath BY DEF Kinds, AnyPath
  <2>3. r \in FileRecord /\ r.data = <<>> /\ r.origin = 0 /\ r.written = 0 BY <2>2, NoOnes, NewFile
  <2> HIDE DEF r
  <2>4. r.origin <= Len(s.objs) /\ Ones(r.data) <= r.written BY <1>0, <2>3, NoOnes
  <2>5. GoodFiles(z) /\ OneMore(s, z) BY <2>3, <2>4, AddKeeps
  <2> HIDE DEF z, t
  <2>6. OpenedOne(s, F!new_handle(z, F!Newest(z))) BY <2>5, OpenNewest
  <2> QED BY <2>1, <2>6 DEF t
<1>2. CASE p # F!NUL /\ create
  <2> DEFINE z == F!create_file(s, p)
  <2>1. t = F!new_handle(z, F!Newest(z)) BY <1>2 DEF F!file_open
  <2>2. GoodFiles(z) /\ OneMore(s, z) BY CreateFileKeeps
  <2> HIDE DEF z, t
  <2>3. OpenedOne(s, F!new_handle(z, F!Newest(z))) BY <2>2, OpenNewest
  <2> QED BY <2>1, <2>3 DEF t
<1>3. CASE p # F!NUL /\ ~create /\ f # 0
  <2> DEFINE z == F!duplicate(s, f)
  <2>1. t = F!new_handle(z, F!Newest(z)) BY <1>3 DEF F!file_open
  <2>2. f \in 1 .. Len(s.objs) BY <1>3, FromPath
  <2> HIDE DEF f
  <2>3. GoodFiles(z) /\ OneMore(s, z) BY <2>2, DuplicateKeepsFiles
  <2> HIDE DEF z, t
  <2>4. OpenedOne(s, F!new_handle(z, F!Newest(z))) BY <2>3, OpenNewest
  <2> QED BY <2>1, <2>4 DEF t
<1>4. CASE p # F!NUL /\ ~create /\ f = 0
  <2> DEFINE z == F!get_file_by_path(s, p)
  <2>1. t = F!new_handle(z, F!Newest(z)) BY <1>4 DEF F!file_open
  <2>2. GoodFiles(z) /\ OneMore(s, z) BY <1>4, ByPathKeeps
  <2> HIDE DEF z, t
  <2>3. OpenedOne(s, F!new_handle(z, F!Newest(z))) BY <2>2, OpenNewest
  <2> QED BY <2>1, <2>3 DEF t
<1> QED BY <1>1, <1>2, <1>3, <1>4

\* A pipe, and a mapping of a file or of the paging file.
LEMMA PipeKeeps ==
  ASSUME NEW s, GoodFiles(s), NEW p \in AnyPath
  PROVE  OpenedOne(s, F!pipe_open(s, p))
<1> DEFINE r == F!File("pipe", p, <<>>)
           z == F!Add(s, r)
<1>0. FilesOK(s) BY DEF GoodFiles
<1>1. Len(s.objs) \in Nat BY <1>0, FileTypes
<1>2. F!pipe_open(s, p) = F!new_handle(z, F!Newest(z)) BY DEF F!pipe_open
<1>3. "pipe" \in Kinds BY DEF Kinds
<1>4. r \in FileRecord /\ r.data = <<>> /\ r.origin = 0 /\ r.written = 0 BY <1>3, NoOnes, NewFile
<1> HIDE DEF r
<1>5. r.origin <= Len(s.objs) /\ Ones(r.data) <= r.written BY <1>1, <1>4, NoOnes
<1>6. GoodFiles(z) /\ OneMore(s, z) BY <1>4, <1>5, AddKeeps
<1> HIDE DEF z
<1> QED BY <1>2, <1>6, OpenNewest

LEMMA MappingKeeps ==
  ASSUME NEW s, GoodFiles(s), NEW f \in 0 .. Len(s.objs)
  PROVE  OpenedOne(s, F!file_create_mapping(s, f))
<1> DEFINE r == [F!File("map", NoName, <<>>) EXCEPT !.origin = f]
           z == F!Add(s, r)
<1>0. FilesOK(s) BY DEF GoodFiles
<1>1. Len(s.objs) \in Nat BY <1>0, FileTypes
<1>2. F!file_create_mapping(s, f) = F!new_handle(z, F!Newest(z)) BY Zenon DEF F!file_create_mapping, NoName
<1>3. "map" \in Kinds BY DEF Kinds
<1>4. NoName \in AnyPath BY Zenon DEF AnyPath
<1>5. f \in Nat /\ f <= Len(s.objs) BY <1>1
<1>6. r \in FileRecord /\ r.origin = f /\ Ones(r.data) <= r.written BY <1>3, <1>4, <1>5, NewOrigin
<1> HIDE DEF r
<1>7. r.origin <= Len(s.objs) BY <1>5, <1>6
<1>8. GoodFiles(z) /\ OneMore(s, z) BY <1>6, <1>7, AddKeeps
<1> HIDE DEF z
<1> QED BY <1>2, <1>8, OpenNewest

-----------------------------------------------------------------------------
(* Reads and writes. *)

\* The object of a handle exists.
LEMMA HandleObject ==
  ASSUME NEW s, GoodFiles(s), NEW h, NEW kinds
  PROVE  LET f == F!get_handle_object(s, h, kinds)
         IN  f \in Nat /\ f \in 0 .. Len(s.objs) /\ (f # 0 => f \in 1 .. Len(s.objs))
<1> DEFINE f == F!get_handle_object(s, h, kinds)
<1>1. FilesOK(s) BY DEF GoodFiles
<1>2. Len(s.objs) \in Nat BY <1>1, FileTypes
<1>3. f = 0 \/ (h \in DOMAIN s.handles /\ f = s.handles[h]) BY DEF F!get_handle_object
<1>4. f \in 0 .. Len(s.objs) BY <1>1, <1>2, <1>3 DEF FilesOK
<1> HIDE DEF f
<1> QED BY <1>2, <1>4 DEF f

\* Changes of contents and of positions, one after the other.
LEMMA SameTwice ==
  ASSUME NEW s, NEW t, NEW u, SameFiles(s, t), SameFiles(t, u)
  PROVE  SameFiles(s, u)
BY DEF SameFiles

LEMMA SeekKeeps ==
  ASSUME NEW s, GoodFiles(s), NEW f \in 1 .. Len(s.objs), NEW pos \in Nat
  PROVE  GoodFiles(F!seek(s, f, pos)) /\ SameFiles(s, F!seek(s, f, pos))
<1> DEFINE t == [s EXCEPT !.objs[f].pos = pos]
<1>1. F!seek(s, f, pos) = t BY DEF F!seek
<1>2. GoodFiles(t) /\ SameFiles(s, t) BY PosSet
<1> HIDE DEF t
<1> QED BY <1>1, <1>2

\* A read moves the position.
LEMMA ReadKeeps ==
  ASSUME NEW s, GoodFiles(s), NEW f \in 1 .. Len(s.objs), NEW n \in Nat
  PROVE  GoodFiles(F!get_data(s, f, n)) /\ SameFiles(s, F!get_data(s, f, n))
<1> DEFINE size == F!get_size(s, f)
           pos == s.objs[f].pos
           new == IF pos + n > size THEN size ELSE pos + n
           u == [s EXCEPT !.objs[f].pos = new]
           t == F!get_data(s, f, n)
<1>1. FilesOK(s) BY DEF GoodFiles
<1>2. pos \in Nat /\ size \in Nat BY <1>1, FileTypes, Contents
<1>3. SameFiles(s, s) BY DEF SameFiles
<1>4. t = s \/ t = u BY DEF F!get_data
<1>5. new \in Nat
  <2> HIDE DEF pos, size
  <2> QED BY <1>2
<1> HIDE DEF t, new
<1>6. GoodFiles(u) /\ SameFiles(s, u) BY <1>5, PosSet
<1> HIDE DEF u
<1> QED BY <1>3, <1>4, <1>6 DEF t

\* A write counts for the bytes that it goes to.
LEMMA CountKeeps ==
  ASSUME NEW s, GoodFiles(s), NEW f \in 1 .. Len(s.objs), NEW n \in Nat
  PROVE  LET t == F!Count(s, f, n)
             b == F!Buffer(s, f)
         IN  /\ GoodFiles(t) /\ SameFiles(s, t)
             /\ t.objs[b].data = s.objs[b].data /\ t.objs[b].written = s.objs[b].written + n
<1> DEFINE t == F!Count(s, f, n)
           b == F!Buffer(s, f)
           more(g) == [s.objs[g] EXCEPT !.written = s.objs[g].written + n]
           os == [g \in DOMAIN s.objs |-> IF g \in {f, b} THEN more(g) ELSE s.objs[g]]
           u == [s EXCEPT !.objs = os]
<1>1. FilesOK(s) /\ CountsOK(s) BY DEF GoodFiles
<1>2. /\ Len(s.objs) \in Nat /\ DOMAIN s.objs = 1 .. Len(s.objs)
      /\ \A g \in 1 .. Len(s.objs) : s.objs[g] \in FileRecord /\ s.objs[g].data \in Content /\ s.objs[g].written \in Nat
  BY <1>1, FileTypes
<1>3. b \in 1 .. Len(s.objs) BY Contents
<1>4. t = u BY DEF F!Count
<1>5. \A g \in 1 .. Len(s.objs) :
        /\ more(g) \in FileRecord /\ more(g).kind = s.objs[g].kind /\ more(g).path = s.objs[g].path
        /\ more(g).origin = s.objs[g].origin /\ more(g).data = s.objs[g].data
        /\ more(g).written = s.objs[g].written + n
  <2> SUFFICES ASSUME NEW g \in 1 .. Len(s.objs)
               PROVE  /\ more(g) \in FileRecord /\ more(g).kind = s.objs[g].kind /\ more(g).path = s.objs[g].path
                      /\ more(g).origin = s.objs[g].origin /\ more(g).data = s.objs[g].data
                      /\ more(g).written = s.objs[g].written + n
    OBVIOUS
  <2> DEFINE r == s.objs[g]
             m == r.written + n
  <2>1. r \in FileRecord /\ m \in Nat BY <1>2
  <2>2. more(g) = [r EXCEPT !.written = m] OBVIOUS
  <2> HIDE DEF r, m, more
  <2> DEFINE q == [r EXCEPT !.written = m]
  <2>3. /\ q \in FileRecord /\ q.kind = r.kind /\ q.path = r.path /\ q.origin = r.origin /\ q.data = r.data
        /\ q.written = m
    BY <2>1 DEF FileRecord
  <2> HIDE DEF q
  <2> QED BY <2>2, <2>3 DEF r, m, q
<1> HIDE DEF more, b, t
<1>6. \A g \in DOMAIN s.objs : (IF g \in {f, b} THEN more(g) ELSE s.objs[g]) \in FileRecord BY <1>2, <1>5
<1>7. os \in Seq(FileRecord) /\ Len(os) = Len(s.objs) BY <1>2, <1>6, IsASeq
<1>8. \A g \in 1 .. Len(s.objs) : os[g] = IF g \in {f, b} THEN more(g) ELSE s.objs[g] BY <1>2
<1> HIDE DEF os
<1>9. \A g \in 1 .. Len(s.objs) : /\ os[g].kind = s.objs[g].kind /\ os[g].path = s.objs[g].path
                                  /\ os[g].origin = s.objs[g].origin /\ os[g].data = s.objs[g].data
                                  /\ os[g].written \in Nat /\ os[g].written >= s.objs[g].written
  <2> SUFFICES ASSUME NEW g \in 1 .. Len(s.objs)
               PROVE  /\ os[g].kind = s.objs[g].kind /\ os[g].path = s.objs[g].path
                      /\ os[g].origin = s.objs[g].origin /\ os[g].data = s.objs[g].data
                      /\ os[g].written \in Nat /\ os[g].written >= s.objs[g].written
    OBVIOUS
  <2>1. CASE g \in {f, b}
    <3>1. os[g] = more(g) BY <2>1, <1>8
    <3> QED BY <3>1, <1>2, <1>5
  <2>2. CASE g \notin {f, b}
    <3>1. os[g] = s.objs[g] BY <2>2, <1>8
    <3> QED BY <3>1, <1>2
  <2> QED BY <2>1, <2>2
<1>10. \A g \in 1 .. Len(s.objs) :
         /\ os[g].kind = s.objs[g].kind /\ os[g].path = s.objs[g].path /\ os[g].origin = s.objs[g].origin
         /\ os[g].origin = 0 => Ones(os[g].data) <= os[g].written
  <2> SUFFICES ASSUME NEW g \in 1 .. Len(s.objs), s.objs[g].origin = 0 PROVE Ones(os[g].data) <= os[g].written
    BY <1>9
  <2>1. Ones(s.objs[g].data) <= s.objs[g].written BY <1>1 DEF CountsOK
  <2>2. Ones(s.objs[g].data) \in Nat BY <1>2, OnesAreFinite
  <2> QED BY <2>1, <2>2, <1>2, <1>9
<1>11. GoodFiles(u) /\ u.objs = os /\ SameFiles(s, u) BY <1>7, <1>10, ObjectsSet
<1> HIDE DEF u
<1>12. u.objs[b].data = s.objs[b].data /\ u.objs[b].written = s.objs[b].written + n
  <2>1. os[b] = more(b) BY <1>3, <1>8
  <2> QED BY <2>1, <1>3, <1>5, <1>11
<1> QED BY <1>4, <1>11, <1>12 DEF t, b

\* A write of n bytes at a position of the file, counted.
LEMMA BytesWritten ==
  ASSUME NEW s, GoodFiles(s), NEW f \in 1 .. Len(s.objs), NEW n \in Nat, NEW pos \in Nat
  PROVE  LET c == F!Count(s, f, n)
             b == F!Buffer(s, f)
             t == [c EXCEPT !.objs[b].data = F!Put(c.objs[b].data, pos, n)]
         IN  GoodFiles(t) /\ SameFiles(s, t)
<1> DEFINE c == F!Count(s, f, n)
           b == F!Buffer(s, f)
           d == F!Put(c.objs[b].data, pos, n)
           t == [c EXCEPT !.objs[b].data = d]
<1>1. FilesOK(s) /\ CountsOK(s) BY DEF GoodFiles
<1>2. b \in 1 .. Len(s.objs) BY Contents
<1>3. /\ GoodFiles(c) /\ SameFiles(s, c)
      /\ c.objs[b].data = s.objs[b].data /\ c.objs[b].written = s.objs[b].written + n
  BY CountKeeps
<1> HIDE DEF b, c
<1>4. s.objs[b].data \in Content /\ s.objs[b].written \in Nat BY <1>1, <1>2, FileTypes
<1>5. d \in Content /\ Ones(d) \in Nat /\ Ones(d) <= Ones(s.objs[b].data) + n BY <1>3, <1>4, PutCounts
<1> HIDE DEF d
<1>6. c.objs[b].origin = s.objs[b].origin /\ b \in 1 .. Len(c.objs) BY <1>2, <1>3 DEF SameFiles
<1>7. c.objs[b].origin = 0 => Ones(d) <= c.objs[b].written
  <2> SUFFICES ASSUME c.objs[b].origin = 0 PROVE Ones(d) <= c.objs[b].written OBVIOUS
  <2>1. Ones(s.objs[b].data) <= s.objs[b].written BY <1>1, <1>2, <1>6 DEF CountsOK
  <2>2. Ones(s.objs[b].data) \in Nat BY <1>4, OnesAreFinite
  <2> QED BY <2>1, <2>2, <1>3, <1>4, <1>5
<1>8. GoodFiles(t) /\ SameFiles(c, t) BY <1>3, <1>5, <1>6, <1>7, DataSet
<1> HIDE DEF t
<1>9. SameFiles(s, t) BY <1>3, <1>8, SameTwice
<1> QED BY <1>8, <1>9 DEF t, d, c, b

\* The two writes: at the end of a pipe or a stream, and at the position of a handle.
LEMMA AddDataKeeps ==
  ASSUME NEW s, GoodFiles(s), NEW f \in 1 .. Len(s.objs), NEW n \in Nat
  PROVE  GoodFiles(F!add_data(s, f, n)) /\ SameFiles(s, F!add_data(s, f, n))
<1> DEFINE c == F!Count(s, f, n)
           b == F!Buffer(s, f)
           pos == Len(c.objs[b].data)
           t == [c EXCEPT !.objs[b].data = F!Put(c.objs[b].data, pos, n)]
<1>1. SameFiles(s, s) BY DEF SameFiles
<1>2. F!add_data(s, f, n) = s \/ F!add_data(s, f, n) = t BY DEF F!add_data
<1>3. pos \in Nat
  <2>1. b \in 1 .. Len(s.objs) BY Contents
  <2>2. GoodFiles(c) /\ SameFiles(s, c) BY CountKeeps
  <2> HIDE DEF c, b
  <2>3. FilesOK(c) /\ b \in 1 .. Len(c.objs) BY <2>1, <2>2 DEF GoodFiles, SameFiles
  <2> QED BY <2>3, FileTypes
<1> HIDE DEF pos
<1>4. GoodFiles(t) /\ SameFiles(s, t) BY <1>3, BytesWritten
<1> HIDE DEF t
<1> QED BY <1>1, <1>2, <1>4

LEMMA WriteDataKeeps ==
  ASSUME NEW s, GoodFiles(s), NEW f \in 1 .. Len(s.objs), NEW n \in Nat
  PROVE  GoodFiles(F!write_data(s, f, n)) /\ SameFiles(s, F!write_data(s, f, n))
<1> DEFINE c == F!Count(s, f, n)
           b == F!Buffer(s, f)
           pos == IF s.objs[f].append THEN F!get_size(s, f) ELSE s.objs[f].pos
           end == pos + n
           t == [c EXCEPT !.objs[b].data = F!Put(c.objs[b].data, pos, n)]
           u == [t EXCEPT !.objs[f].pos = end]
           w == F!write_data(s, f, n)
<1>1. SameFiles(s, s) BY DEF SameFiles
<1>2. w = s \/ w = u BY DEF F!write_data
<1>3. pos \in Nat
  <2>1. FilesOK(s) BY DEF GoodFiles
  <2> QED BY <2>1, FileTypes, Contents
<1> HIDE DEF pos, w
<1>4. end \in Nat BY <1>3
<1> HIDE DEF end
<1>5. GoodFiles(t) /\ SameFiles(s, t) BY <1>3, BytesWritten
<1> HIDE DEF t
<1>6. f \in 1 .. Len(t.objs) BY <1>5 DEF SameFiles
<1>7. GoodFiles(u) /\ SameFiles(t, u) BY <1>4, <1>5, <1>6, PosSet
<1> HIDE DEF u
<1>8. SameFiles(s, u) BY <1>5, <1>7, SameTwice
<1> QED BY <1>1, <1>2, <1>7, <1>8 DEF w

\* A file that is emptied.
LEMMA RemoveDataKeeps ==
  ASSUME NEW s, GoodFiles(s), NEW f \in 1 .. Len(s.objs)
  PROVE  GoodFiles(F!remove_data(s, f)) /\ SameFiles(s, F!remove_data(s, f))
<1> DEFINE b == F!Buffer(s, f)
           t == [s EXCEPT !.objs[b].data = <<>>]
           u == [t EXCEPT !.objs[f].pos = 0]
<1>1. F!remove_data(s, f) = u BY DEF F!remove_data
<1>2. b \in 1 .. Len(s.objs) BY Contents
<1> HIDE DEF b
<1>3. FilesOK(s) BY DEF GoodFiles
<1>4. Ones(<<>>) <= s.objs[b].written /\ <<>> \in Content BY <1>2, <1>3, NoOnes, FileTypes
<1>5. GoodFiles(t) /\ SameFiles(s, t) BY <1>2, <1>4, DataSet
<1> HIDE DEF t
<1>6. f \in 1 .. Len(t.objs) /\ 0 \in Nat BY <1>5 DEF SameFiles
<1>7. GoodFiles(u) /\ SameFiles(t, u) BY <1>5, <1>6, PosSet
<1> HIDE DEF u
<1>8. SameFiles(s, u) BY <1>5, <1>7, SameTwice
<1> QED BY <1>1, <1>7, <1>8


-----------------------------------------------------------------------------
(* The invariant. *)

\* The bounds that the guards keep.
Fitting(s) ==
  /\ Len(s.objs) <= MaxFiles /\ Len(s.handles) <= MaxFileHandles
  /\ \A f \in 1 .. Len(s.objs) : s.objs[f].pos <= MaxSize

\* A search has a handle that no file has.
WalksOK(s, w) == \A h \in DOMAIN w : h \in DOMAIN s.handles /\ s.handles[h] = 0

FdsOK(ds) == ds \in [DOMAIN ds -> 0 .. MaxFileHandles] /\ DOMAIN ds \subseteq F!Fds

StreamRecord == [fd : F!Fds, hfile : 0 .. MaxFileHandles]
StreamsOK(xs) == xs \in [DOMAIN xs -> StreamRecord] /\ DOMAIN xs \subseteq F!Streams

Told == Nat \cup {-1}
ResOK(r) == r.n \in Told /\ r.err \in F!Errors

FilesInv == /\ GoodFiles(fs) /\ Fitting(fs) /\ WalksOK(fs, walks) /\ FdsOK(fds) /\ StreamsOK(streams) /\ ResOK(res)

\* Searches keep their handles when handles are given out and closed.
LEMMA WalksStay ==
  ASSUME NEW s, GoodFiles(s), NEW t, GoodFiles(t), HandlesGrow(s, t), NEW w, WalksOK(s, w)
  PROVE  WalksOK(t, w)
<1>1. FilesOK(s) /\ FilesOK(t) BY DEF GoodFiles
<1>2. /\ Len(s.handles) \in Nat /\ DOMAIN s.handles = 1 .. Len(s.handles)
      /\ Len(t.handles) \in Nat /\ DOMAIN t.handles = 1 .. Len(t.handles)
  BY <1>1, FileTypes
<1> QED BY <1>2 DEF WalksOK, HandlesGrow

\* Handles that stay.
LEMMA HandlesStay ==
  ASSUME NEW s, GoodFiles(s), NEW t, t.handles = s.handles
  PROVE  HandlesGrow(s, t)
<1>1. FilesOK(s) BY DEF GoodFiles
<1>2. Len(s.handles) \in Nat BY <1>1, FileTypes
<1> QED BY <1>2 DEF HandlesGrow

\* The guards are the bounds.
LEMMA FitsIs ==
  ASSUME NEW s, GoodFiles(s), F!Fits(s)
  PROVE  Fitting(s)
<1>1. FilesOK(s) BY DEF GoodFiles
<1>2. DOMAIN s.objs = 1 .. Len(s.objs) BY <1>1, FileTypes
<1> QED BY <1>2 DEF Fitting, F!Fits

LEMMA Numbers ==
  /\ \A n \in Nat : n \in Told
  /\ -1 \in Told /\ 0 \in Told /\ 1 \in Told /\ 2 \in Told
BY DEF Told

-----------------------------------------------------------------------------
(* What a call does and tells. *)

\* The call failed.
LEMMA FailsKeeps ==
  ASSUME FilesInv, NEW e \in F!Errors, F!Fails(e)
  PROVE  FilesInv'
<1>1. /\ fs' = fs /\ fds' = fds /\ streams' = streams /\ walks' = walks /\ res' = [n |-> -1, err |-> e]
  BY DEF F!Fails, F!Tell
<1>2. ResOK(res') BY <1>1 DEF ResOK, Told
<1> QED BY <1>1, <1>2 DEF FilesInv

LEMMA SaysKeeps ==
  ASSUME FilesInv, NEW n \in Told, F!Says(n)
  PROVE  FilesInv'
<1>1. /\ fs' = fs /\ fds' = fds /\ streams' = streams /\ walks' = walks /\ res' = [n |-> n, err |-> "none"]
  BY DEF F!Says, F!Tell
<1>2. ResOK(res') BY <1>1 DEF ResOK, F!Errors
<1> QED BY <1>1, <1>2 DEF FilesInv

\* The call did something to the files.
LEMMA DoesKeeps ==
  ASSUME FilesInv, NEW s, GoodFiles(s), HandlesGrow(fs, s), NEW n \in Told, F!Does(s, n)
  PROVE  FilesInv'
<1>1. /\ fs' = s /\ fds' = fds /\ streams' = streams /\ walks' = walks /\ res' = [n |-> n, err |-> "none"]
      /\ F!Fits(s)
  BY DEF F!Does, F!Tell
<1>2. ResOK(res') BY <1>1 DEF ResOK, F!Errors
<1>3. Fitting(s) BY <1>1, FitsIs
<1>4. WalksOK(s, walks) BY WalksStay DEF FilesInv
<1> QED BY <1>1, <1>2, <1>3, <1>4 DEF FilesInv

LEMMA OpensKeeps ==
  ASSUME FilesInv, NEW s, OpenedOne(fs, s), F!Opens(s)
  PROVE  FilesInv'
<1>1. GoodFiles(s) /\ HandlesGrow(fs, s) BY DEF OpenedOne
<1>2. Len(s.handles) \in Told
  <2>1. FilesOK(s) BY <1>1 DEF GoodFiles
  <2> QED BY <2>1, FileTypes, Numbers
<1> QED BY <1>1, <1>2, DoesKeeps DEF F!Opens

\* The call changed contents.
LEMMA ContentsKeep ==
  ASSUME FilesInv, NEW s, GoodFiles(s), SameFiles(fs, s), NEW n \in Told, F!Does(s, n)
  PROVE  FilesInv'
<1>1. GoodFiles(fs) BY DEF FilesInv
<1>2. HandlesGrow(fs, s) BY <1>1, HandlesStay DEF SameFiles
<1> QED BY <1>2, DoesKeeps

\* A change of contents of what was opened.
LEMMA OpenedSame ==
  ASSUME NEW s, NEW t, NEW u, OpenedOne(s, t), SameFiles(t, u), GoodFiles(u)
  PROVE  OpenedOne(s, u)
BY DEF OpenedOne, SameFiles, HandlesGrow, F!Newest

-----------------------------------------------------------------------------
(* Handles and paths of kernel32. *)

LEMMA FilesAre ==
  ASSUME FilesInv
  PROVE  /\ GoodFiles(fs) /\ FilesOK(fs) /\ Len(fs.objs) \in Nat /\ Len(fs.handles) \in Nat
         /\ Len(fs.handles) \in Told /\ SameFiles(fs, fs) /\ HandlesGrow(fs, fs)
<1>1. GoodFiles(fs) /\ FilesOK(fs) BY DEF FilesInv, GoodFiles
<1>2. Len(fs.objs) \in Nat /\ Len(fs.handles) \in Nat BY <1>1, FileTypes
<1>3. SameFiles(fs, fs) BY DEF SameFiles
<1> QED BY <1>1, <1>2, <1>3, HandlesStay, Numbers

\* A path that exists is the null device or can be served.
LEMMA ExistsIsServed ==
  ASSUME NEW s, NEW p, F!does_file_exist(s, p)
  PROVE  p = F!NUL \/ Served(s, p)
BY HasIsServed DEF F!does_file_exist, Served

\* The path and the flag of an open.
LEMMA CreateFileKeepsInv ==
  ASSUME FilesInv, NEW p \in AnyPath, NEW d, NEW append \in BOOLEAN, F!CreateFile(p, d, append)
  PROVE  FilesInv'
<1> DEFINE exists == IF d = "create_new" THEN F!does_file_exist_by_path(fs, p) ELSE F!does_file_exist(fs, p)
           create == ~exists \/ d = "create_always"
           s == F!file_open(fs, p, create)
           n == F!Newest(s)
           t == [s EXCEPT !.objs[n].append = append]
<1>0. "exists" \in F!Errors /\ "notfound" \in F!Errors BY DEF F!Errors
<1>1. \/ F!Fails("exists") \/ F!Fails("notfound")
      \/ ~(exists /\ d = "create_new") /\ F!Opens(t)
  BY DEF F!CreateFile
<1>2. CASE ~(exists /\ d = "create_new") /\ F!Opens(t)
  <2>1. create \in BOOLEAN OBVIOUS
  <2>2. p = F!NUL \/ create \/ Served(fs, p) BY <1>2, ExistsIsServed
  <2> HIDE DEF create
  <2>3. OpenedOne(fs, s) BY <2>1, <2>2, OpenKeepsFiles, FilesAre
  <2> HIDE DEF s
  <2>4. GoodFiles(s) /\ n \in 1 .. Len(s.objs) BY <2>3, FilesAre DEF OpenedOne
  <2> HIDE DEF n
  <2>5. GoodFiles(t) /\ SameFiles(s, t) BY <2>4, AppendSet
  <2> HIDE DEF t
  <2>6. OpenedOne(fs, t) BY <2>3, <2>5, OpenedSame
  <2> QED BY <1>2, <2>6, OpensKeeps
<1> HIDE DEF t
<1> QED BY <1>0, <1>1, <1>2, FailsKeeps

LEMMA DeleteKeeps ==
  ASSUME FilesInv, NEW p, NEW n \in Told,
         (F!does_file_exist(fs, p) /\ F!Does(F!delete_file(fs, p), n)) \/ F!Fails("notfound")
  PROVE  FilesInv'
<1> DEFINE t == F!remove_file(fs, p)
<1>1. GoodFiles(t) /\ t.handles = fs.handles BY FilesAre, RemoveFileKeeps
<1>2. HandlesGrow(fs, t) BY <1>1, FilesAre, HandlesStay
<1>3. "notfound" \in F!Errors BY DEF F!Errors
<1>4. F!delete_file(fs, p) = t BY DEF F!delete_file
<1> HIDE DEF t
<1> QED BY <1>1, <1>2, <1>3, <1>4, DoesKeeps, FailsKeeps

LEMMA CopyFileKeeps ==
  ASSUME FilesInv, NEW src \in AnyPath, NEW dst \in AnyPath, NEW b, F!CopyFile(src, dst, b)
  PROVE  FilesInv'
<1> DEFINE t == F!copy_file(fs, src, dst)
<1>0. "exists" \in F!Errors /\ "notfound" \in F!Errors BY DEF F!Errors
<1>1. F!Fails("exists") \/ F!Fails("notfound") \/ (F!Has(fs, src) /\ F!Does(t, 1)) BY DEF F!CopyFile
<1>2. CASE F!Has(fs, src) /\ F!Does(t, 1)
  <2>1. Served(fs, src) BY <1>2, HasIsServed
  <2>2. GoodFiles(t) /\ t.handles = fs.handles BY <2>1, FilesAre, CopyKeeps
  <2> HIDE DEF t
  <2>3. HandlesGrow(fs, t) BY <2>2, FilesAre, HandlesStay
  <2> QED BY <1>2, <2>2, <2>3, DoesKeeps, Numbers
<1> HIDE DEF t
<1> QED BY <1>0, <1>1, <1>2, FailsKeeps

LEMMA MovedKeeps ==
  ASSUME FilesInv, NEW src \in AnyPath, NEW dst \in AnyPath, NEW n \in Told,
         (F!Has(fs, src) /\ F!Does(F!move_file(fs, src, dst), n)) \/ F!Fails("notfound")
  PROVE  FilesInv'
<1> DEFINE t == F!move_file(fs, src, dst)
<1>0. "notfound" \in F!Errors BY DEF F!Errors
<1>1. CASE F!Has(fs, src) /\ F!Does(t, n)
  <2>1. Served(fs, src) BY <1>1, HasIsServed
  <2>2. GoodFiles(t) /\ t.handles = fs.handles BY <2>1, FilesAre, MoveKeeps
  <2> HIDE DEF t
  <2>3. HandlesGrow(fs, t) BY <2>2, FilesAre, HandlesStay
  <2> QED BY <1>1, <2>2, <2>3, DoesKeeps
<1> HIDE DEF t
<1> QED BY <1>0, <1>1, FailsKeeps DEF t

LEMMA MoveFileKeeps ==
  ASSUME FilesInv, NEW src \in AnyPath, NEW dst \in AnyPath, F!MoveFile(src, dst)
  PROVE  FilesInv'
<1>1. (F!Has(fs, src) /\ F!Does(F!move_file(fs, src, dst), 1)) \/ F!Fails("notfound") BY DEF F!MoveFile
<1> QED BY <1>1, MovedKeeps, Numbers

LEMMA MoveFileExKeeps ==
  ASSUME FilesInv, NEW src \in AnyPath, NEW dst \in AnyPath, NEW b, NEW c, F!MoveFileEx(src, dst, b, c)
  PROVE  FilesInv'
<1>0. "exists" \in F!Errors BY DEF F!Errors
<1>1. F!Says(1) \/ F!Fails("exists") \/ F!MoveFile(src, dst) BY DEF F!MoveFileEx
<1> QED BY <1>0, <1>1, SaysKeeps, FailsKeeps, MoveFileKeeps, Numbers

\* Reads and writes of a file, by a handle, a descriptor or a stream.
LEMMA ReadsKeep ==
  ASSUME FilesInv, NEW f \in 1 .. Len(fs.objs), NEW n \in Nat, NEW m \in Told, F!Does(F!get_data(fs, f, n), m)
  PROVE  FilesInv'
<1> DEFINE t == F!get_data(fs, f, n)
<1>1. GoodFiles(t) /\ SameFiles(fs, t) BY FilesAre, ReadKeeps
<1> HIDE DEF t
<1> QED BY <1>1, ContentsKeep DEF t

LEMMA WritesKeep ==
  ASSUME FilesInv, NEW f \in 1 .. Len(fs.objs), NEW n \in Nat, NEW m \in Told,
         F!Does(F!write_data(fs, f, n), m) \/ F!Does(F!add_data(fs, f, n), m)
  PROVE  FilesInv'
<1> DEFINE t == F!write_data(fs, f, n)
           u == F!add_data(fs, f, n)
<1>1. GoodFiles(t) /\ SameFiles(fs, t) BY FilesAre, WriteDataKeeps
<1>2. GoodFiles(u) /\ SameFiles(fs, u) BY FilesAre, AddDataKeeps
<1> HIDE DEF t, u
<1> QED BY <1>1, <1>2, ContentsKeep DEF t, u

LEMMA SeeksKeep ==
  ASSUME FilesInv, NEW f \in 1 .. Len(fs.objs), NEW pos \in Nat, NEW m \in Told, F!Does(F!seek(fs, f, pos), m)
  PROVE  FilesInv'
<1> DEFINE t == F!seek(fs, f, pos)
<1>1. GoodFiles(t) /\ SameFiles(fs, t) BY FilesAre, SeekKeeps
<1> HIDE DEF t
<1> QED BY <1>1, ContentsKeep DEF t

LEMMA ErrorsAre ==
  /\ "handle" \in F!Errors /\ "notfound" \in F!Errors /\ "exists" \in F!Errors /\ "negative" \in F!Errors
  /\ "nomore" \in F!Errors /\ "inval" \in F!Errors /\ "badf" \in F!Errors /\ "raised" \in F!Errors
  /\ "none" \in F!Errors
BY DEF F!Errors

\* A file of a handle, and its size and position.
LEMMA FileOf ==
  ASSUME FilesInv, NEW h
  PROVE  /\ F!get_file(fs, h) \in 0 .. Len(fs.objs) /\ F!get_mapping(fs, h) \in 0 .. Len(fs.objs)
         /\ F!get_file(fs, h) # 0 => F!get_file(fs, h) \in 1 .. Len(fs.objs)
         /\ F!get_mapping(fs, h) # 0 => F!get_mapping(fs, h) \in 1 .. Len(fs.objs)
BY FilesAre, HandleObject DEF F!get_file, F!get_mapping

LEMMA SizeOf ==
  ASSUME FilesInv, NEW f \in 1 .. Len(fs.objs)
  PROVE  /\ F!get_size(fs, f) \in Nat /\ F!get_size(fs, f) \in Told
         /\ fs.objs[f].pos \in Nat /\ fs.objs[f].pos \in Told
BY FilesAre, Contents, FileTypes, Numbers

\* Where a move ends.
LEMMA TargetIs ==
  ASSUME FilesInv, NEW f \in 1 .. Len(fs.objs), NEW o \in Int, NEW m \in F!Methods
  PROVE  F!Target(f, o, m) \in Int
<1>1. F!get_size(fs, f) \in Nat /\ fs.objs[f].pos \in Nat BY SizeOf
<1> DEFINE from == CASE m = "begin" -> 0 [] m = "current" -> fs.objs[f].pos [] m = "end" -> F!get_size(fs, f)
<1>2. from \in Nat
  <2>1. CASE m = "begin" BY <2>1
  <2>2. CASE m = "current" BY <2>2, <1>1
  <2>3. CASE m = "end" BY <2>3, <1>1
  <2> QED BY <2>1, <2>2, <2>3 DEF F!Methods
<1>3. F!Target(f, o, m) = o + from BY DEF F!Target
<1> HIDE DEF from
<1> QED BY <1>2, <1>3

LEMMA ReadFileKeeps ==
  ASSUME FilesInv, NEW h, NEW n \in Nat, NEW b, F!ReadFile(h, n, b)
  PROVE  FilesInv'
<1> DEFINE f == F!get_handle_object(fs, h, {"file", F!NUL, "pipe"})
           m == IF b THEN 1 ELSE 0
<1>1. F!Fails("handle") \/ (f # 0 /\ F!Does(F!get_data(fs, f, n), m)) BY DEF F!ReadFile
<1>2. f # 0 => f \in 1 .. Len(fs.objs) BY FilesAre, HandleObject
<1>3. m \in Told BY Numbers
<1> HIDE DEF f, m
<1> QED BY <1>1, <1>2, <1>3, ErrorsAre, FailsKeeps, ReadsKeep

LEMMA WriteFileKeeps ==
  ASSUME FilesInv, NEW h, NEW n \in Nat, F!WriteFile(h, n)
  PROVE  FilesInv'
<1> DEFINE f == F!get_handle_object(fs, h, {"file", F!NUL, "pipe"})
<1>1. \/ F!Fails("handle")
      \/ f # 0 /\ (F!Does(fs, 1) \/ F!Does(F!write_data(fs, f, n), 1) \/ F!Does(F!add_data(fs, f, n), 1))
  BY DEF F!WriteFile
<1>2. f # 0 => f \in 1 .. Len(fs.objs) BY FilesAre, HandleObject
<1> HIDE DEF f
<1>3. CASE F!Does(fs, 1) BY <1>3, FilesAre, Numbers, ContentsKeep
<1> QED BY <1>1, <1>2, <1>3, ErrorsAre, Numbers, FailsKeeps, WritesKeep

LEMMA SetFilePointerKeeps ==
  ASSUME FilesInv, NEW h, NEW o \in Int, NEW m \in F!Methods, F!SetFilePointer(h, o, m)
  PROVE  FilesInv'
<1> DEFINE f == F!get_file(fs, h)
           pos == F!Target(f, o, m)
<1>1. F!Fails("handle") \/ F!Fails("negative") \/ (f # 0 /\ ~(pos < 0) /\ F!Does(F!seek(fs, f, pos), pos))
  BY DEF F!SetFilePointer
<1>2. f # 0 => f \in 1 .. Len(fs.objs) BY FileOf
<1> HIDE DEF f
<1>3. f # 0 => pos \in Int BY <1>2, TargetIs
<1> HIDE DEF pos
<1>4. f # 0 /\ ~(pos < 0) => pos \in Nat /\ pos \in Told BY <1>3, Numbers
<1> QED BY <1>1, <1>2, <1>4, ErrorsAre, FailsKeeps, SeeksKeep

\* The answers about a file change nothing.
LEMMA AnswersKeep ==
  ASSUME FilesInv, NEW h,
         \/ F!GetFileSize(h) \/ F!GetFileInformationByHandle(h)
         \/ F!PeekNamedPipe(h) \/ F!ConnectNamedPipe(h) \/ F!DisconnectNamedPipe(h)
         \/ \E room \in BOOLEAN : F!ZwQueryInformationFile(h, room)
  PROVE  FilesInv'
<1> DEFINE f == F!get_file(fs, h)
<1>1. \/ F!Fails("handle") \/ F!Fails("inval") \/ F!Says(0) \/ F!Says(1)
      \/ f # 0 /\ F!Says(F!get_size(fs, f))
  BY DEF F!GetFileSize, F!GetFileInformationByHandle, F!PeekNamedPipe, F!ConnectNamedPipe,
         F!DisconnectNamedPipe, F!ZwQueryInformationFile
<1>2. f # 0 => F!get_size(fs, f) \in Told BY FileOf, SizeOf
<1> HIDE DEF f
<1> QED BY <1>1, <1>2, ErrorsAre, Numbers, FailsKeeps, SaysKeeps

LEMMA AttributesKeep ==
  ASSUME FilesInv, NEW p, F!GetFileAttributes(p) \/ F!access_path(p)
  PROVE  FilesInv'
<1>1. F!Says(2) \/ F!Says(1) \/ F!Says(0) \/ F!Fails("notfound")
  BY DEF F!GetFileAttributes, F!access_path, F!set_errno
<1> QED BY <1>1, ErrorsAre, Numbers, FailsKeeps, SaysKeeps

\* The size of a path, of a file that is registered then.
LEMMA SizeKeeps ==
  ASSUME FilesInv, NEW p \in AnyPath, F!GetFileAttributesEx(p) \/ F!stat_file(p)
  PROVE  FilesInv'
<1> DEFINE s == F!get_file_by_path(fs, p)
           f == F!get_file_from_path(s, p)
           n == F!get_size(s, f)
<1>1. F!Says(0) \/ F!Fails("notfound") \/ (F!Has(fs, p) /\ F!Does(s, n))
  BY DEF F!GetFileAttributesEx, F!stat_file, F!set_errno
<1>2. CASE F!Has(fs, p) /\ F!Does(s, n)
  <2>1. Served(fs, p) BY <1>2, HasIsServed
  <2>2. GoodFiles(s) /\ s.handles = fs.handles /\ f \in 1 .. Len(s.objs) BY <2>1, FilesAre, ByPathKeeps
  <2> HIDE DEF s, f
  <2>3. n \in Told BY <2>2, Contents, Numbers
  <2>4. HandlesGrow(fs, s) BY <2>2, FilesAre, HandlesStay
  <2> HIDE DEF n
  <2> QED BY <1>2, <2>2, <2>3, <2>4, DoesKeeps
<1> HIDE DEF s, n
<1> QED BY <1>1, <1>2, ErrorsAre, Numbers, FailsKeeps, SaysKeeps

LEMMA DirectoriesKeep ==
  ASSUME FilesInv, NEW p, NEW n \in Told,
         F!Does(F!create_directory(fs, p), n) \/ F!Does(F!remove_directory(fs, p), n)
  PROVE  FilesInv'
<1> DEFINE c == (fs.dirs \ {<<"removed", p>>}) \cup {<<"created", p>>}
           r == (fs.dirs \ {<<"created", p>>}) \cup {<<"removed", p>>}
           s == [fs EXCEPT !.dirs = c]
           t == [fs EXCEPT !.dirs = r]
<1>1. F!create_directory(fs, p) = s /\ F!remove_directory(fs, p) = t
  BY DEF F!create_directory, F!remove_directory
<1> HIDE DEF c, r
<1>2. GoodFiles(s) /\ s.handles = fs.handles BY FilesAre, DirsSet
<1>3. GoodFiles(t) /\ t.handles = fs.handles BY FilesAre, DirsSet
<1> HIDE DEF s, t
<1>4. HandlesGrow(fs, s) /\ HandlesGrow(fs, t) BY <1>2, <1>3, FilesAre, HandlesStay
<1> QED BY <1>1, <1>2, <1>3, <1>4, DoesKeeps

LEMMA CloseFileKeeps ==
  ASSUME FilesInv, NEW h, F!CloseHandle(h)
  PROVE  FilesInv'
<1> DEFINE t == [fs EXCEPT !.handles[h] = 0]
<1>1. F!Fails("handle") \/ (h \in DOMAIN fs.handles /\ F!Does(t, 1)) BY DEF F!CloseHandle
<1>2. CASE h \in DOMAIN fs.handles /\ F!Does(t, 1)
  <2>1. GoodFiles(t) /\ HandlesGrow(fs, t) BY <1>2, FilesAre, FileHandleClosed
  <2> HIDE DEF t
  <2> QED BY <1>2, <2>1, Numbers, DoesKeeps
<1> HIDE DEF t
<1> QED BY <1>1, <1>2, ErrorsAre, FailsKeeps

\* An open of what is there.
LEMMA OpenExistingKeeps ==
  ASSUME FilesInv, NEW p \in AnyPath, F!_lopen(p) \/ F!ZwOpenFile(p)
  PROVE  FilesInv'
<1> DEFINE s == F!file_open(fs, p, FALSE)
<1>1. F!Fails("none") \/ F!Fails("notfound") \/ ((p = F!NUL \/ F!Has(fs, p)) /\ F!Opens(s))
  BY DEF F!_lopen, F!ZwOpenFile
<1>2. CASE (p = F!NUL \/ F!Has(fs, p)) /\ F!Opens(s)
  <2>1. p = F!NUL \/ Served(fs, p) BY <1>2, HasIsServed
  <2>2. FALSE \in BOOLEAN BY Zenon
  <2>3. OpenedOne(fs, s) BY <2>1, <2>2, FilesAre, OpenKeepsFiles
  <2> HIDE DEF s
  <2> QED BY <1>2, <2>3, OpensKeeps
<1> HIDE DEF s
<1> QED BY <1>1, <1>2, ErrorsAre, FailsKeeps

LEMMA TempFileKeeps ==
  ASSUME FilesInv, NEW p \in AnyPath, NEW b, F!GetTempFileName(p, b)
  PROVE  FilesInv'
<1> DEFINE s == F!file_open(fs, p, TRUE)
<1>1. F!Says(1) \/ F!Does(s, 1) BY DEF F!GetTempFileName
<1>2. TRUE \in BOOLEAN BY Zenon
<1>3. OpenedOne(fs, s) BY <1>2, FilesAre, OpenKeepsFiles
<1> HIDE DEF s
<1> QED BY <1>1, <1>3, Numbers, SaysKeeps, DoesKeeps DEF OpenedOne

LEMMA PipesKeep ==
  ASSUME FilesInv, F!CreateNamedPipe \/ F!CreatePipe
  PROVE  FilesInv'
<1> DEFINE s == F!pipe_open(fs, "pipe")
           t == F!pipe_open(fs, NoName)
<1>1. F!Opens(s) \/ F!Opens(t) BY Zenon DEF F!CreateNamedPipe, F!CreatePipe, NoName
<1>2. "pipe" \in AnyPath /\ NoName \in AnyPath BY DEF AnyPath
<1>3. OpenedOne(fs, s) /\ OpenedOne(fs, t) BY <1>2, FilesAre, PipeKeeps
<1> HIDE DEF s, t
<1> QED BY <1>1, <1>3, OpensKeeps

-----------------------------------------------------------------------------
(* Views and the file handlers of the kernel. *)

LEMMA FileMappingKeeps ==
  ASSUME FilesInv, NEW h, F!CreateFileMapping(h)
  PROVE  FilesInv'
<1> DEFINE f == F!get_file(fs, h)
           s == F!file_create_mapping(fs, f)
<1>1. F!Fails("handle") \/ F!Opens(s) BY DEF F!CreateFileMapping
<1>2. f \in 0 .. Len(fs.objs) BY FileOf
<1> HIDE DEF f
<1>3. OpenedOne(fs, s) BY <1>2, FilesAre, MappingKeeps
<1> HIDE DEF s
<1> QED BY <1>1, <1>3, ErrorsAre, FailsKeeps, OpensKeeps

\* The least free block.
LEMMA FreeBlock ==
  ASSUME F!Free # {}
  PROVE  F!get_view_range \in F!Blocks
<1>1. F!Free \subseteq Nat /\ F!Free \subseteq F!Blocks BY FilesAssumption DEF F!Free, F!Blocks
<1>2. \E b \in F!Free : \A c \in F!Free : b <= c BY <1>1, LeastOf
<1>3. F!get_view_range \in F!Free BY <1>2 DEF F!get_view_range
<1> QED BY <1>1, <1>3

LEMMA BlocksAreTold == ASSUME NEW b \in F!Blocks PROVE b \in Told
BY FilesAssumption DEF F!Blocks, Told

\* A block that is a view of the mapping, once.
LEMMA MapViewKeeps ==
  ASSUME FilesInv, NEW m \in 1 .. Len(fs.objs), NEW b \in F!Blocks, F!map_view(m, b)
  PROVE  FilesInv'
<1> DEFINE views == IF b \in F!ToSet(fs.objs[m].views) THEN fs.objs[m].views ELSE Append(fs.objs[m].views, b)
           s == [fs EXCEPT !.objs[m].views = views]
<1>1. /\ fs' = s /\ fds' = fds /\ streams' = streams /\ walks' = walks
      /\ res' = [n |-> b, err |-> "none"] \/ res' = [n |-> -1, err |-> "raised"]
  BY DEF F!map_view, F!Tell
<1>2. views \in Seq(F!Blocks)
  <2>1. fs.objs[m] \in FileRecord BY FilesAre, FileTypes
  <2>2. fs.objs[m].views \in Seq(F!Blocks) BY <2>1 DEF FileRecord
  <2>3. Append(fs.objs[m].views, b) \in Seq(F!Blocks) BY <2>2, AppendProperties
  <2> QED BY <2>2, <2>3
<1> HIDE DEF views
<1>3. GoodFiles(s) /\ SameFiles(fs, s) /\ \A g \in 1 .. Len(fs.objs) : s.objs[g].pos = fs.objs[g].pos
  BY <1>2, FilesAre, ViewsSet
<1> HIDE DEF s
<1>4. Fitting(s) BY <1>3 DEF SameFiles, FilesInv, Fitting
<1>5. WalksOK(s, walks) BY <1>3 DEF SameFiles, FilesInv, WalksOK
<1>6. ResOK(res') BY <1>1, BlocksAreTold, Numbers, ErrorsAre DEF ResOK
<1> QED BY <1>1, <1>3, <1>4, <1>5, <1>6 DEF FilesInv

LEMMA MapViewOfFileKeeps ==
  ASSUME FilesInv, NEW h, F!MapViewOfFile(h) \/ \E b \in F!Blocks : F!MapViewOfFileEx(h, b)
  PROVE  FilesInv'
<1> DEFINE m == F!get_mapping(fs, h)
<1>1. \/ F!Fails("handle") \/ F!Fails("inval")
      \/ m # 0 /\ F!Free # {} /\ F!map_view(m, F!get_view_range)
      \/ m # 0 /\ \E b \in F!Blocks : F!map_view(m, b)
  BY DEF F!MapViewOfFile, F!MapViewOfFileEx
<1>2. m # 0 => m \in 1 .. Len(fs.objs) BY FileOf
<1> HIDE DEF m
<1>3. \/ F!Fails("handle") \/ F!Fails("inval")
      \/ m # 0 /\ \E b \in F!Blocks : F!map_view(m, b)
  BY <1>1, FreeBlock
<1> QED BY <1>2, <1>3, ErrorsAre, FailsKeeps, MapViewKeeps

\* The calls that change memory only.
LEMMA MemoryKeeps ==
  ASSUME FilesInv, (\E b \in F!Blocks : F!UnmapViewOfFile(b) \/ F!mem_write(b)) \/ F!VirtualAlloc
  PROVE  FilesInv'
<1>1. CASE \E b \in F!Blocks : F!Fails("inval") BY <1>1, ErrorsAre, FailsKeeps
<1>2. ASSUME UNCHANGED <<fs, fds, streams, walks>>, NEW n \in Told, NEW e \in F!Errors, F!Tell(n, e)
      PROVE  FilesInv'
  BY <1>2 DEF FilesInv, F!Tell, ResOK
<1>3. CASE \E b \in F!Blocks : F!UnmapViewOfFile(b)
  <2>1. F!Fails("inval") \/ (F!Tell(1, "none") /\ UNCHANGED <<fs, fds, streams, walks>>)
    BY <1>3 DEF F!UnmapViewOfFile
  <2> QED BY <2>1, <1>2, ErrorsAre, FailsKeeps, Numbers
<1>4. CASE \E b \in F!Blocks : F!mem_write(b)
  <2>1. (F!Tell(1, "none") \/ F!Tell(-1, "raised")) /\ UNCHANGED <<fs, fds, streams, walks>>
    BY <1>4 DEF F!mem_write
  <2> QED BY <2>1, <1>2, ErrorsAre, Numbers
<1>5. CASE F!VirtualAlloc
  <2>1. F!Free # {} /\ F!Tell(F!get_view_range, "none") /\ UNCHANGED <<fs, fds, streams, walks>>
    BY <1>5 DEF F!VirtualAlloc
  <2>2. F!get_view_range \in Told BY <2>1, FreeBlock, BlocksAreTold
  <2> QED BY <2>1, <2>2, <1>2, ErrorsAre
<1> QED BY <1>3, <1>4, <1>5

LEMMA ZwCreateFileKeeps ==
  ASSUME FilesInv, NEW p \in AnyPath, NEW d, F!ZwCreateFile(p, d)
  PROVE  FilesInv'
<1> DEFINE exists == F!does_file_exist(fs, p)
           create == ~exists \/ d \in {"supersede", "overwrite", "overwrite_if"}
           s == F!file_open(fs, p, create)
<1>1. F!Fails("inval") \/ F!Opens(s) BY DEF F!ZwCreateFile
<1>2. create \in BOOLEAN /\ (p = F!NUL \/ create \/ Served(fs, p)) BY ExistsIsServed
<1> HIDE DEF create
<1>3. OpenedOne(fs, s) BY <1>2, FilesAre, OpenKeepsFiles
<1> HIDE DEF s
<1> QED BY <1>1, <1>3, ErrorsAre, FailsKeeps, OpensKeeps

LEMMA ByteOffset ==
  ASSUME FilesInv, NEW f \in 1 .. Len(fs.objs), NEW o \in Int
  PROVE  LET s == F!seek_to_byte_offset(fs, f, o) IN GoodFiles(s) /\ SameFiles(fs, s) /\ f \in 1 .. Len(s.objs)
<1>1. CASE o < 0 BY <1>1, FilesAre DEF F!seek_to_byte_offset
<1>2. CASE ~(o < 0)
  <2>1. o \in Nat BY <1>2
  <2>2. GoodFiles(F!seek(fs, f, o)) /\ SameFiles(fs, F!seek(fs, f, o)) BY <2>1, FilesAre, SeekKeeps
  <2> QED BY <1>2, <2>2 DEF F!seek_to_byte_offset, SameFiles
<1> QED BY <1>1, <1>2

LEMMA ZwWriteFileKeeps ==
  ASSUME FilesInv, NEW h, NEW n \in Nat, NEW o \in Int, F!ZwWriteFile(h, n, o)
  PROVE  FilesInv'
<1> DEFINE f == F!get_file(fs, h)
           s == F!seek_to_byte_offset(fs, f, o)
           t == F!write_data(s, f, n)
<1>1. F!Fails("handle") \/ F!Fails("inval") \/ (f # 0 /\ F!Does(t, 0)) BY DEF F!ZwWriteFile
<1>2. CASE f # 0 /\ F!Does(t, 0)
  <2>1. f \in 1 .. Len(fs.objs) BY <1>2, FileOf
  <2> HIDE DEF f
  <2>2. GoodFiles(s) /\ SameFiles(fs, s) /\ f \in 1 .. Len(s.objs) BY <2>1, ByteOffset
  <2> HIDE DEF s
  <2>3. GoodFiles(t) /\ SameFiles(s, t) BY <2>2, WriteDataKeeps
  <2> HIDE DEF t
  <2>4. SameFiles(fs, t) BY <2>2, <2>3, SameTwice
  <2> QED BY <1>2, <2>3, <2>4, Numbers, ContentsKeep
<1> HIDE DEF t
<1> QED BY <1>1, <1>2, ErrorsAre, FailsKeeps

LEMMA ZwReadFileKeeps ==
  ASSUME FilesInv, NEW h, NEW n \in Nat, NEW o \in Int, F!ZwReadFile(h, n, o)
  PROVE  FilesInv'
<1> DEFINE f == F!get_file(fs, h)
           s == F!seek_to_byte_offset(fs, f, o)
           t == F!get_data(s, f, n)
<1>1. \/ F!Fails("handle")
      \/ /\ f # 0 /\ F!Fits(t) /\ fs' = t /\ fds' = fds /\ streams' = streams /\ walks' = walks
         /\ F!Tell(-1, "nomore") \/ F!Tell(0, "none")
  BY DEF F!ZwReadFile
<1>2. CASE /\ f # 0 /\ F!Fits(t) /\ fs' = t /\ fds' = fds /\ streams' = streams /\ walks' = walks
           /\ F!Tell(-1, "nomore") \/ F!Tell(0, "none")
  <2>1. f \in 1 .. Len(fs.objs) BY <1>2, FileOf
  <2> HIDE DEF f
  <2>2. GoodFiles(s) /\ SameFiles(fs, s) /\ f \in 1 .. Len(s.objs) BY <2>1, ByteOffset
  <2> HIDE DEF s
  <2>3. GoodFiles(t) /\ SameFiles(s, t) BY <2>2, ReadKeeps
  <2> HIDE DEF t
  <2>4. SameFiles(fs, t) BY <2>2, <2>3, SameTwice
  <2>5. Fitting(t) BY <1>2, <2>3, FitsIs
  <2>6. WalksOK(t, walks) BY <2>4 DEF SameFiles, FilesInv, WalksOK
  <2>7. ResOK(res') BY <1>2, Numbers, ErrorsAre DEF ResOK, F!Tell
  <2> QED BY <1>2, <2>3, <2>5, <2>6, <2>7 DEF FilesInv
<1> HIDE DEF t
<1> QED BY <1>1, <1>2, ErrorsAre, FailsKeeps

-----------------------------------------------------------------------------
(* Searches. *)

\* A handle that no file has.
LEMMA TakeKeeps ==
  ASSUME FilesInv, F!Take, F!NextHandle <= MaxFileHandles
  PROVE  /\ GoodFiles(fs') /\ Fitting(fs') /\ HandlesGrow(fs, fs')
         /\ F!NextHandle \in Told /\ F!NextHandle \in DOMAIN fs'.handles /\ fs'.handles[F!NextHandle] = 0
<1> DEFINE t == F!new_handle(fs, 0)
<1>1. fs' = t BY DEF F!Take, F!new_handle
<1>2. 0 \in 0 .. Len(fs.objs) BY FilesAre
<1>3. /\ GoodFiles(t) /\ HandlesGrow(fs, t) /\ Len(t.handles) = Len(fs.handles) + 1
      /\ t.handles[Len(fs.handles) + 1] = 0 /\ t.objs = fs.objs
  BY <1>2, FilesAre, FileHandleAdded
<1> HIDE DEF t
<1>4. FilesOK(t) BY <1>3 DEF GoodFiles
<1>5. DOMAIN t.handles = 1 .. Len(t.handles) BY <1>4, FileTypes
<1>6. Fitting(t) BY <1>3 DEF FilesInv, Fitting, F!NextHandle
<1>7. F!NextHandle = Len(fs.handles) + 1 /\ F!NextHandle \in Nat BY FilesAre DEF F!NextHandle
<1> QED BY <1>1, <1>3, <1>5, <1>6, <1>7, FilesAre, Numbers

LEMMA FindFirstKeeps ==
  ASSUME FilesInv, NEW table, NEW n, NEW e \in F!Errors, F!FindFirst(table, n, e)
  PROVE  FilesInv'
<1>1. F!NextHandle <= MaxFileHandles /\ fds' = fds /\ streams' = streams BY DEF F!FindFirst
<1>2. CASE n = 0
  <2>1. F!Tell(-1, e) /\ walks' = walks /\ (F!Take \/ fs' = fs) BY <1>2 DEF F!FindFirst
  <2>2. ResOK(res') BY <2>1, Numbers DEF ResOK, F!Tell
  <2>3. CASE F!Take
    <3>1. GoodFiles(fs') /\ Fitting(fs') /\ HandlesGrow(fs, fs') BY <1>1, <2>3, TakeKeeps
    <3>2. WalksOK(fs', walks) BY <3>1, FilesAre, WalksStay DEF FilesInv
    <3> QED BY <1>1, <2>1, <2>2, <3>1, <3>2 DEF FilesInv
  <2>4. CASE fs' = fs BY <1>1, <2>1, <2>2, <2>4 DEF FilesInv
  <2> QED BY <2>1, <2>3, <2>4
<1>3. CASE n # 0
  <2> DEFINE new == F!NextHandle
  <2>1. /\ F!Tell(new, "none") /\ F!Take
        /\ walks' = [h \in DOMAIN walks \cup {new} |->
                      IF h = new THEN [table |-> table, left |-> n - 1] ELSE walks[h]]
    BY <1>3 DEF F!FindFirst
  <2>2. /\ GoodFiles(fs') /\ Fitting(fs') /\ HandlesGrow(fs, fs')
        /\ new \in Told /\ new \in DOMAIN fs'.handles /\ fs'.handles[new] = 0
    BY <1>1, <2>1, TakeKeeps
  <2> HIDE DEF new
  <2>3. WalksOK(fs', walks) BY <2>2, FilesAre, WalksStay DEF FilesInv
  <2>4. DOMAIN walks' = DOMAIN walks \cup {new} BY <2>1
  <2>5. WalksOK(fs', walks') BY <2>2, <2>3, <2>4 DEF WalksOK
  <2>6. ResOK(res') BY <2>1, <2>2, ErrorsAre DEF ResOK, F!Tell
  <2> QED BY <1>1, <2>2, <2>5, <2>6 DEF FilesInv
<1> QED BY <1>2, <1>3

LEMMA FindNextKeeps ==
  ASSUME FilesInv, NEW table, NEW h, NEW e1 \in F!Errors, NEW e2 \in F!Errors,
         F!FindNext(table, h, e1, e2) \/ F!FindEnd(table, h, e1)
  PROVE  FilesInv'
<1>1. CASE F!Fails(e1) \/ F!Fails(e2) BY <1>1, FailsKeeps
<1>2. CASE /\ walks' = [walks EXCEPT ![h].left = @ - 1] \/ walks' = [x \in DOMAIN walks \ {h} |-> walks[x]]
           /\ F!Tell(1, "none") /\ fs' = fs /\ fds' = fds /\ streams' = streams
  <2>1. DOMAIN walks' \subseteq DOMAIN walks BY <1>2
  <2>2. WalksOK(fs', walks') BY <1>2, <2>1 DEF FilesInv, WalksOK
  <2>3. ResOK(res') BY <1>2, Numbers, ErrorsAre DEF ResOK, F!Tell
  <2> QED BY <1>2, <2>2, <2>3 DEF FilesInv
<1>3. \/ F!Fails(e1) \/ F!Fails(e2)
      \/ /\ walks' = [walks EXCEPT ![h].left = @ - 1] \/ walks' = [x \in DOMAIN walks \ {h} |-> walks[x]]
         /\ F!Tell(1, "none") /\ fs' = fs /\ fds' = fds /\ streams' = streams
  BY DEF F!FindNext, F!FindEnd
<1> QED BY <1>1, <1>2, <1>3

-----------------------------------------------------------------------------
(* Descriptors and streams. *)

\* The least free descriptor and stream.
LEMMA FreeFdIs ==
  ASSUME FilesInv
  PROVE  F!FreeFd \in 3 .. MaxFds + 3
<1> DEFINE some == {d \in 3 .. MaxFds + 3 : d \notin DOMAIN fds}
<1>1. MaxFds \in Nat BY FilesAssumption
<1>2. MaxFds + 3 \in some BY <1>1 DEF FilesInv, FdsOK, F!Fds
<1>3. some \subseteq Nat /\ some # {} BY <1>1, <1>2
<1> HIDE DEF some
<1>4. PICK d \in some : \A c \in some : d <= c BY <1>3, LeastOf
<1>5. d \in 3 .. MaxFds + 3 /\ d \notin DOMAIN fds /\ \A c \in 3 .. d - 1 : c \in DOMAIN fds
  BY <1>1, <1>4 DEF some
<1> QED BY <1>5 DEF F!FreeFd

LEMMA FreeStreamIs ==
  ASSUME FilesInv
  PROVE  F!FreeStream \in 2 .. MaxStreams + 1
<1> DEFINE some == {x \in 2 .. MaxStreams + 1 : x \notin DOMAIN streams}
<1>1. MaxStreams \in Nat \ {0} BY FilesAssumption
<1>2. MaxStreams + 1 \in some BY <1>1 DEF FilesInv, StreamsOK, F!Streams
<1>3. some \subseteq Nat /\ some # {} BY <1>1, <1>2
<1> HIDE DEF some
<1>4. PICK x \in some : \A y \in some : x <= y BY <1>3, LeastOf
<1>5. x \in 2 .. MaxStreams + 1 /\ x \notin DOMAIN streams /\ \A y \in 2 .. x - 1 : y \in DOMAIN streams
  BY <1>1, <1>4 DEF some
<1> QED BY <1>5 DEF F!FreeStream

\* Descriptors and streams that are added and that are closed.
LEMMA FdAdded ==
  ASSUME FilesInv, F!FreeFd <= MaxFds, NEW h \in 0 .. MaxFileHandles
  PROVE  FdsOK(F!new_fd(h)) /\ F!FreeFd \in F!Fds /\ F!FreeFd \in Told
<1>1. F!FreeFd \in 3 .. MaxFds + 3 BY FreeFdIs
<1> DEFINE d == F!FreeFd
<1>2. F!new_fd(h) = [c \in DOMAIN fds \cup {d} |-> IF c = d THEN h ELSE fds[c]] BY DEF F!new_fd
<1>3. d \in F!Fds /\ d \in Told BY <1>1, FilesAssumption DEF F!Fds, Told
<1> HIDE DEF d
<1> QED BY <1>2, <1>3 DEF FilesInv, FdsOK, d

LEMMA StreamAdded ==
  ASSUME FilesInv, F!FreeStream <= MaxStreams, NEW d \in F!Fds, NEW h \in 0 .. MaxFileHandles
  PROVE  StreamsOK(F!new_stream(d, h)) /\ F!FreeStream \in Told
<1>1. F!FreeStream \in 2 .. MaxStreams + 1 BY FreeStreamIs
<1> DEFINE x == F!FreeStream
           r == [fd |-> d, hfile |-> h]
<1>2. F!new_stream(d, h) = [y \in DOMAIN streams \cup {x} |-> IF y = x THEN r ELSE streams[y]]
  BY DEF F!new_stream
<1>3. x \in F!Streams /\ x \in Told BY <1>1, FilesAssumption DEF F!Streams, Told
<1>4. r \in StreamRecord BY DEF StreamRecord
<1> HIDE DEF x, r
<1> QED BY <1>2, <1>3, <1>4 DEF FilesInv, StreamsOK, x

LEMMA FdsLeft == ASSUME FilesInv, NEW d PROVE FdsOK(F!Without(fds, d)) BY DEF FilesInv, FdsOK, F!Without

LEMMA StreamsLeft == ASSUME FilesInv, NEW x PROVE StreamsOK(F!Without(streams, x))
BY DEF FilesInv, StreamsOK, F!Without

\* A stream whose file is another or none.
LEMMA StreamSet ==
  ASSUME FilesInv, NEW x \in DOMAIN streams, NEW h \in 0 .. MaxFileHandles
  PROVE  StreamsOK([streams EXCEPT ![x].hfile = h]) /\ F!get_stream_fd(x) \in F!Fds /\ x \in Told
<1>1. streams[x] \in StreamRecord /\ x \in F!Streams BY DEF FilesInv, StreamsOK
<1> DEFINE r == [streams[x] EXCEPT !.hfile = h]
           xs == [streams EXCEPT ![x].hfile = h]
<1>2. r \in StreamRecord BY <1>1 DEF StreamRecord
<1>3. xs = [streams EXCEPT ![x] = r] OBVIOUS
<1> HIDE DEF r
<1>4. StreamsOK(xs) BY <1>2, <1>3 DEF FilesInv, StreamsOK
<1>5. x \in Told BY <1>1, FilesAssumption DEF F!Streams, Told
<1>6. F!get_stream_fd(x) \in F!Fds BY <1>1 DEF F!get_stream_fd, StreamRecord
<1> QED BY <1>4, <1>5, <1>6

\* What changes the descriptors and the streams, and the files by an open or not at all.
LEMMA CrtKeeps ==
  ASSUME FilesInv, GoodFiles(fs'), Fitting(fs'), HandlesGrow(fs, fs'), FdsOK(fds'), StreamsOK(streams'),
         walks' = walks, NEW n \in Told, NEW e \in F!Errors, F!Tell(n, e)
  PROVE  FilesInv'
<1>1. WalksOK(fs', walks') BY FilesAre, WalksStay DEF FilesInv
<1>2. ResOK(res') BY DEF ResOK, F!Tell
<1> QED BY <1>1, <1>2 DEF FilesInv

LEMMA CrtOnly ==
  ASSUME FilesInv, fs' = fs, FdsOK(fds'), StreamsOK(streams'), walks' = walks,
         NEW n \in Told, NEW e \in F!Errors, F!Tell(n, e)
  PROVE  FilesInv'
BY FilesAre, CrtKeeps DEF FilesInv

\* An opened file fits, and its handle is a handle of a descriptor.
LEMMA OpenedFits ==
  ASSUME FilesInv, NEW s, OpenedOne(fs, s), F!Fits(s)
  PROVE  GoodFiles(s) /\ Fitting(s) /\ HandlesGrow(fs, s) /\ Len(s.handles) \in 0 .. MaxFileHandles
<1>1. GoodFiles(s) /\ FilesOK(s) /\ HandlesGrow(fs, s) BY DEF OpenedOne, GoodFiles
<1>2. Len(s.handles) \in Nat BY <1>1, FileTypes
<1>3. Fitting(s) BY <1>1, FitsIs
<1> QED BY <1>1, <1>2, <1>3, FilesAssumption DEF Fitting

LEMMA OpenFdKeeps ==
  ASSUME FilesInv, NEW p \in AnyPath, NEW oflag, F!open_fd(p, oflag)
  PROVE  FilesInv'
<1> DEFINE exists == F!does_file_exist(fs, p)
           create == "creat" \in oflag /\ (~exists \/ "trunc" \in oflag)
           append == "append" \in oflag
           s == F!file_open(fs, p, create)
           t == IF "trunc" \in oflag /\ F!get_size(s, F!Newest(s)) # 0 THEN F!remove_data(s, F!Newest(s)) ELSE s
           n == F!Newest(t)
           u == [t EXCEPT !.objs[n].append = append]
           d == F!FreeFd
<1>1. \/ F!Fails("exists") \/ F!Fails("notfound")
      \/ /\ exists \/ create
         /\ F!Fits(u) /\ d <= MaxFds
         /\ fs' = u /\ fds' = F!new_fd(Len(u.handles)) /\ F!Tell(d, "none")
         /\ streams' = streams /\ walks' = walks
  BY DEF F!open_fd, F!set_errno
<1>2. CASE /\ exists \/ create
           /\ F!Fits(u) /\ d <= MaxFds
           /\ fs' = u /\ fds' = F!new_fd(Len(u.handles)) /\ F!Tell(d, "none")
           /\ streams' = streams /\ walks' = walks
  <2>1. create \in BOOLEAN /\ append \in BOOLEAN OBVIOUS
  <2>2. p = F!NUL \/ create \/ Served(fs, p) BY <1>2, ExistsIsServed
  <2> HIDE DEF create, append
  <2>3. OpenedOne(fs, s) BY <2>1, <2>2, OpenKeepsFiles, FilesAre
  <2> HIDE DEF s
  <2>4. GoodFiles(s) /\ F!Newest(s) \in 1 .. Len(s.objs) BY <2>3, FilesAre DEF OpenedOne
  <2>5. GoodFiles(t) /\ SameFiles(s, t)
    <3> DEFINE w == F!remove_data(s, F!Newest(s))
    <3>1. GoodFiles(w) /\ SameFiles(s, w) BY <2>4, RemoveDataKeeps
    <3>2. SameFiles(s, s) BY DEF SameFiles
    <3>3. t = w \/ t = s OBVIOUS
    <3> HIDE DEF w, t
    <3> QED BY <2>4, <3>1, <3>2, <3>3
  <2> HIDE DEF t
  <2>6. OpenedOne(fs, t) BY <2>3, <2>5, OpenedSame
  <2>7. n \in 1 .. Len(t.objs) BY <2>6, FilesAre DEF OpenedOne
  <2> HIDE DEF n
  <2>8. GoodFiles(u) /\ SameFiles(t, u) BY <2>1, <2>5, <2>7, AppendSet
  <2> HIDE DEF u
  <2>9. OpenedOne(fs, u) BY <2>6, <2>8, OpenedSame
  <2>10. GoodFiles(u) /\ Fitting(u) /\ HandlesGrow(fs, u) /\ Len(u.handles) \in 0 .. MaxFileHandles
    BY <1>2, <2>9, OpenedFits
  <2>11. FdsOK(fds') /\ d \in Told BY <1>2, <2>10, FdAdded
  <2> HIDE DEF d
  <2>12. StreamsOK(streams') BY <1>2 DEF FilesInv
  <2> QED BY <1>2, <2>10, <2>11, <2>12, CrtKeeps, ErrorsAre
<1> HIDE DEF u
<1> QED BY <1>1, <1>2, ErrorsAre, FailsKeeps

LEMMA CloseFdKeeps ==
  ASSUME FilesInv, NEW d, F!_close(d)
  PROVE  FilesInv'
<1>1. \/ F!Fails("badf")
      \/ /\ fds' = F!Without(fds, d) /\ F!Tell(0, "none") /\ fs' = fs /\ streams' = streams /\ walks' = walks
  BY DEF F!_close, F!set_errno
<1>2. FdsOK(F!Without(fds, d)) /\ StreamsOK(streams) BY FdsLeft DEF FilesInv
<1> QED BY <1>1, <1>2, ErrorsAre, Numbers, FailsKeeps, CrtOnly

LEMMA FdopenKeeps ==
  ASSUME FilesInv, NEW d \in F!Fds, F!_fdopen(d)
  PROVE  FilesInv'
<1> DEFINE x == F!FreeStream
<1>1. \/ F!Fails("badf")
      \/ /\ x <= MaxStreams /\ streams' = F!new_stream(d, F!Fd(d)) /\ F!Tell(x, "none")
         /\ fs' = fs /\ fds' = fds /\ walks' = walks
  BY DEF F!_fdopen, F!set_errno
<1>2. F!Fd(d) \in 0 .. MaxFileHandles
  <2>1. 0 \in 0 .. MaxFileHandles BY FilesAssumption
  <2> QED BY <2>1 DEF F!Fd, FilesInv, FdsOK
<1>3. FdsOK(fds) BY DEF FilesInv
<1>4. x <= MaxStreams => StreamsOK(F!new_stream(d, F!Fd(d))) /\ x \in Told BY <1>2, StreamAdded
<1> HIDE DEF x
<1> QED BY <1>1, <1>3, <1>4, ErrorsAre, FailsKeeps, CrtOnly

LEMMA OpenPipeKeeps ==
  ASSUME FilesInv, F!open_pipe
  PROVE  FilesInv'
<1> DEFINE d == F!FreeFd
           x == F!FreeStream
<1>1. /\ d <= MaxFds /\ x <= MaxStreams /\ fds' = F!new_fd(0) /\ streams' = F!new_stream(d, 0) /\ F!Tell(x, "none")
      /\ fs' = fs /\ walks' = walks
  BY DEF F!open_pipe
<1>2. 0 \in 0 .. MaxFileHandles BY FilesAssumption
<1>3. FdsOK(F!new_fd(0)) /\ d \in F!Fds BY <1>1, <1>2, FdAdded
<1> HIDE DEF d
<1>4. StreamsOK(F!new_stream(d, 0)) /\ x \in Told BY <1>1, <1>2, <1>3, StreamAdded
<1> HIDE DEF x
<1> QED BY <1>1, <1>3, <1>4, ErrorsAre, CrtOnly

\* The file of a stream that is opened.
LEMMA OpenStreamFile ==
  ASSUME FilesInv, NEW p \in AnyPath, NEW mode, F!Opened(p, mode), mode \in {"r", "w", "a"},
         F!Fits(F!open_stream_file(p, mode))
  PROVE  LET s == F!open_stream_file(p, mode)
         IN  GoodFiles(s) /\ Fitting(s) /\ HandlesGrow(fs, s) /\ Len(s.handles) \in 0 .. MaxFileHandles
<1> DEFINE create == mode = "w" \/ (mode = "a" /\ ~F!does_file_exist(fs, p))
           append == mode = "a"
           t == F!file_open(fs, p, create)
           n == F!Newest(t)
           u == [t EXCEPT !.objs[n].append = append]
           s == F!open_stream_file(p, mode)
<1>1. s = u BY DEF F!open_stream_file
<1>2. create \in BOOLEAN /\ append \in BOOLEAN OBVIOUS
<1>3. p = F!NUL \/ create \/ Served(fs, p) BY ExistsIsServed DEF F!Opened
<1> HIDE DEF create, append
<1>4. OpenedOne(fs, t) BY <1>2, <1>3, OpenKeepsFiles, FilesAre
<1> HIDE DEF t
<1>5. GoodFiles(t) /\ n \in 1 .. Len(t.objs) BY <1>4, FilesAre DEF OpenedOne
<1> HIDE DEF n
<1>6. GoodFiles(u) /\ SameFiles(t, u) BY <1>2, <1>5, AppendSet
<1> HIDE DEF u
<1>7. OpenedOne(fs, u) BY <1>4, <1>6, OpenedSame
<1> HIDE DEF s
<1>8. F!Fits(u) BY <1>1 DEF s
<1>9. GoodFiles(u) /\ Fitting(u) /\ HandlesGrow(fs, u) /\ Len(u.handles) \in 0 .. MaxFileHandles
  BY <1>7, <1>8, OpenedFits
<1> QED BY <1>1, <1>9 DEF s

LEMMA OpenStreamKeeps ==
  ASSUME FilesInv, NEW p \in AnyPath, NEW mode \in {"r", "w", "a"}, F!fopen(p, mode) \/ F!fopen_s(p, mode)
  PROVE  FilesInv'
<1> DEFINE s == F!open_stream_file(p, mode)
           d == F!FreeFd
           x == F!FreeStream
<1>1. \/ F!Fails("none") \/ F!Fails("notfound")
      \/ /\ F!Opened(p, mode) /\ F!Fits(s) /\ d <= MaxFds /\ x <= MaxStreams
         /\ fs' = s /\ fds' = F!new_fd(Len(s.handles)) /\ streams' = F!new_stream(d, Len(s.handles))
         /\ F!Tell(x, "none") /\ walks' = walks
  BY DEF F!fopen, F!fopen_s, F!open_stream_args, F!open_stream
<1>2. CASE /\ F!Opened(p, mode) /\ F!Fits(s) /\ d <= MaxFds /\ x <= MaxStreams
           /\ fs' = s /\ fds' = F!new_fd(Len(s.handles)) /\ streams' = F!new_stream(d, Len(s.handles))
           /\ F!Tell(x, "none") /\ walks' = walks
  <2>1. GoodFiles(s) /\ Fitting(s) /\ HandlesGrow(fs, s) /\ Len(s.handles) \in 0 .. MaxFileHandles
    BY <1>2, OpenStreamFile
  <2> HIDE DEF s
  <2> DEFINE h == Len(s.handles)
  <2>2. h \in 0 .. MaxFileHandles BY <2>1
  <2>3. fs' = s /\ fds' = F!new_fd(h) /\ streams' = F!new_stream(d, h) BY <1>2
  <2> HIDE DEF h
  <2>4. FdsOK(F!new_fd(h)) /\ d \in F!Fds BY <1>2, <2>2, FdAdded
  <2> HIDE DEF d
  <2>5. StreamsOK(F!new_stream(d, h)) /\ x \in Told BY <1>2, <2>2, <2>4, StreamAdded
  <2> HIDE DEF x
  <2> QED BY <1>2, <2>1, <2>3, <2>4, <2>5, ErrorsAre, CrtKeeps
<1> HIDE DEF s, d, x
<1> QED BY <1>1, <1>2, ErrorsAre, FailsKeeps

LEMMA ReopenKeeps ==
  ASSUME FilesInv, NEW p \in AnyPath, NEW mode \in {"r", "w", "a"}, NEW x, F!reopen_stream(p, mode, x)
  PROVE  FilesInv'
<1> DEFINE s == F!open_stream_file(p, mode)
           d == F!get_stream_fd(x)
           h == Len(s.handles)
           ds == [c \in DOMAIN fds \cup {d} |-> IF c = d THEN h ELSE fds[c]]
<1>1. /\ x \in DOMAIN streams /\ walks' = walks
      /\ \/ /\ streams' = [streams EXCEPT ![x].hfile = 0] /\ fds' = F!Without(fds, d)
            /\ F!Tell(0, "notfound") /\ fs' = fs
         \/ /\ F!Opened(p, mode) /\ F!Fits(s) /\ fs' = s /\ F!Tell(x, "none")
            /\ streams' = [streams EXCEPT ![x].hfile = h] /\ fds' = ds
  BY DEF F!reopen_stream
<1>2. CASE /\ streams' = [streams EXCEPT ![x].hfile = 0] /\ fds' = F!Without(fds, d)
           /\ F!Tell(0, "notfound") /\ fs' = fs
  <2>1. 0 \in 0 .. MaxFileHandles BY FilesAssumption
  <2>2. StreamsOK(streams') BY <1>1, <1>2, <2>1, StreamSet
  <2>3. FdsOK(fds') BY <1>2, FdsLeft
  <2> QED BY <1>1, <1>2, <2>2, <2>3, ErrorsAre, Numbers, CrtOnly
<1>3. CASE /\ F!Opened(p, mode) /\ F!Fits(s) /\ fs' = s /\ F!Tell(x, "none")
           /\ streams' = [streams EXCEPT ![x].hfile = h] /\ fds' = ds
  <2>1. GoodFiles(s) /\ Fitting(s) /\ HandlesGrow(fs, s) /\ h \in 0 .. MaxFileHandles
    BY <1>3, OpenStreamFile
  <2> HIDE DEF s, h
  <2>2. StreamsOK(streams') /\ d \in F!Fds /\ x \in Told BY <1>1, <1>3, <2>1, StreamSet
  <2> HIDE DEF d
  <2>3. FdsOK(ds) BY <2>1, <2>2 DEF FilesInv, FdsOK
  <2> HIDE DEF ds
  <2> QED BY <1>1, <1>3, <2>1, <2>2, <2>3, ErrorsAre, CrtKeeps
<1> HIDE DEF s, d, ds
<1> QED BY <1>1, <1>2, <1>3

LEMMA CloseStreamKeeps ==
  ASSUME FilesInv, NEW x, F!fclose(x) \/ F!_pclose(x)
  PROVE  FilesInv'
<1> DEFINE d == F!get_stream_fd(x)
<1>1. F!Fails("inval") \/ F!fclose(x) BY DEF F!_pclose, F!set_errno
<1>2. CASE F!fclose(x)
  <2>1. /\ x \in DOMAIN streams /\ fds' = F!Without(fds, d) /\ F!Tell(0, "none") /\ fs' = fs /\ walks' = walks
        /\ \/ x = 1 /\ streams' = [streams EXCEPT ![x].hfile = 0]
           \/ streams' = F!Without(streams, x)
    BY <1>2 DEF F!fclose
  <2>2. 0 \in 0 .. MaxFileHandles BY FilesAssumption
  <2>3. StreamsOK(streams') BY <2>1, <2>2, StreamSet, StreamsLeft
  <2> HIDE DEF d
  <2> QED BY <2>1, <2>3, FdsLeft, ErrorsAre, Numbers, CrtOnly
<1> HIDE DEF d
<1> QED BY <1>1, <1>2, ErrorsAre, FailsKeeps

\* The file of a descriptor and of a stream.
LEMMA FdFile ==
  ASSUME FilesInv, NEW d
  PROVE  F!get_fd_file(d) # 0 => F!get_fd_file(d) \in 1 .. Len(fs.objs)
BY FileOf DEF F!get_fd_file

LEMMA StreamFile ==
  ASSUME FilesInv, NEW x
  PROVE  F!get_stream_file(x) # 0 => F!get_stream_file(x) \in 1 .. Len(fs.objs)
BY FileOf DEF F!get_stream_file

LEMMA ReadFdKeeps ==
  ASSUME FilesInv, NEW d, NEW n \in Nat, F!_read(d, n) \/ F!_write(d, n)
  PROVE  FilesInv'
<1> DEFINE f == F!get_fd_file(d)
<1>1. \/ F!Fails("badf") \/ F!Says(0) \/ F!Says(n)
      \/ f # 0 /\ (F!Does(F!get_data(fs, f, n), n) \/ F!Does(F!write_data(fs, f, n), n))
  BY DEF F!_read, F!_write, F!set_errno
<1>2. f # 0 => f \in 1 .. Len(fs.objs) BY FdFile
<1> HIDE DEF f
<1> QED BY <1>1, <1>2, ErrorsAre, Numbers, FailsKeeps, SaysKeeps, ReadsKeep, WritesKeep

LEMMA SeekFdKeeps ==
  ASSUME FilesInv, NEW d, NEW o \in Int, NEW m \in F!Methods, F!_lseek(d, o, m)
  PROVE  FilesInv'
<1> DEFINE f == F!get_fd_file(d)
           pos == F!Target(f, o, m)
<1>1. F!Fails("badf") \/ F!Fails("inval") \/ (f # 0 /\ ~(pos < 0) /\ F!Does(F!seek(fs, f, pos), pos))
  BY DEF F!_lseek, F!seek_fd, F!set_errno
<1>2. f # 0 => f \in 1 .. Len(fs.objs) BY FdFile
<1> HIDE DEF f
<1>3. f # 0 => pos \in Int BY <1>2, TargetIs
<1> HIDE DEF pos
<1>4. f # 0 /\ ~(pos < 0) => pos \in Nat /\ pos \in Told BY <1>3, Numbers
<1> QED BY <1>1, <1>2, <1>4, ErrorsAre, FailsKeeps, SeeksKeep

LEMMA SeekStreamKeeps ==
  ASSUME FilesInv, NEW x, NEW o \in Int, NEW m \in F!Methods, F!seek_stream(x, o, m)
  PROVE  FilesInv'
<1> DEFINE f == F!get_stream_file(x)
           pos == F!Target(f, o, m)
<1>1. F!Fails("none") \/ (f # 0 /\ ~(pos < 0) /\ F!Does(F!seek(fs, f, pos), 0))
  BY DEF F!seek_stream
<1>2. f # 0 => f \in 1 .. Len(fs.objs) BY StreamFile
<1> HIDE DEF f
<1>3. f # 0 => pos \in Int BY <1>2, TargetIs
<1> HIDE DEF pos
<1>4. f # 0 /\ ~(pos < 0) => pos \in Nat BY <1>3
<1> QED BY <1>1, <1>2, <1>4, ErrorsAre, Numbers, FailsKeeps, SeeksKeep

\* The answers about a descriptor or a stream.
LEMMA StreamAnswersKeep ==
  ASSUME FilesInv, NEW x, F!_fileno(x) \/ F!fgetpos(x) \/ F!ftell(x) \/ F!stat_fd(x)
  PROVE  FilesInv'
<1> DEFINE f == F!get_stream_file(x)
           g == F!get_fd_file(x)
           d == F!get_stream_fd(x)
<1>1. \/ F!Fails("inval") \/ F!Fails("none") \/ F!Fails("badf") \/ F!Says(0) \/ F!Says(d)
      \/ f # 0 /\ F!Says(fs.objs[f].pos)
      \/ g # 0 /\ F!Says(F!get_size(fs, g))
  BY DEF F!_fileno, F!fgetpos, F!ftell, F!stat_fd, F!set_errno
<1>2. f # 0 => fs.objs[f].pos \in Told BY StreamFile, SizeOf
<1>3. g # 0 => F!get_size(fs, g) \in Told BY FdFile, SizeOf
<1>4. d \in Told
  <2>1. x \in DOMAIN streams => streams[x].fd \in Nat
    <3>1. ASSUME x \in DOMAIN streams PROVE streams[x] \in StreamRecord BY <3>1 DEF FilesInv, StreamsOK
    <3>2. \A r \in StreamRecord : r.fd \in Nat BY FilesAssumption DEF StreamRecord, F!Fds
    <3> QED BY <3>1, <3>2
  <2> QED BY <2>1, Numbers DEF F!get_stream_fd
<1> HIDE DEF f, g, d
<1> QED BY <1>1, <1>2, <1>3, <1>4, ErrorsAre, Numbers, FailsKeeps, SaysKeeps

\* Reads and writes of a stream.
LEMMA StreamBytesKeep ==
  ASSUME FilesInv, NEW x, NEW n \in Nat, F!fread(x, n) \/ F!fwrite(x, n) \/ F!write_stream(x, n)
  PROVE  FilesInv'
<1> DEFINE f == F!get_stream_file(x)
<1>1. \/ F!Says(0) \/ F!Says(n)
      \/ f # 0 /\ (F!Does(F!get_data(fs, f, n), n) \/ F!Does(F!add_data(fs, f, n), n))
  BY DEF F!fread, F!fwrite, F!write_stream
<1>2. f # 0 => f \in 1 .. Len(fs.objs) BY StreamFile
<1> HIDE DEF f
<1> QED BY <1>1, <1>2, Numbers, SaysKeeps, ReadsKeep, WritesKeep

\* A line that is read, and a byte that is pushed back.
LEMMA LineKeeps ==
  ASSUME FilesInv, NEW x, NEW n \in Nat, NEW line \in Nat, F!fgets(x, n, line)
  PROVE  FilesInv'
<1> DEFINE f == F!get_stream_file(x)
           s == F!get_data(fs, f, n)
           pos == fs.objs[f].pos + line
           t == F!seek(s, f, pos)
<1>1. F!Says(0) \/ (f # 0 /\ F!Does(t, 1)) BY DEF F!fgets
<1>2. CASE f # 0 /\ F!Does(t, 1)
  <2>1. f \in 1 .. Len(fs.objs) BY <1>2, StreamFile
  <2> HIDE DEF f
  <2>2. GoodFiles(s) /\ SameFiles(fs, s) BY <2>1, FilesAre, ReadKeeps
  <2>3. pos \in Nat BY <2>1, SizeOf
  <2> HIDE DEF s, pos
  <2>4. f \in 1 .. Len(s.objs) BY <2>1, <2>2 DEF SameFiles
  <2>5. GoodFiles(t) /\ SameFiles(s, t) BY <2>2, <2>3, <2>4, SeekKeeps
  <2> HIDE DEF t
  <2>6. SameFiles(fs, t) BY <2>2, <2>5, SameTwice
  <2> QED BY <1>2, <2>5, <2>6, Numbers, ContentsKeep
<1> HIDE DEF t
<1> QED BY <1>1, <1>2, Numbers, SaysKeeps

LEMMA UngetKeeps ==
  ASSUME FilesInv, NEW x, NEW same, F!ungetc(x, same)
  PROVE  FilesInv'
<1> DEFINE f == F!get_stream_file(x)
           pos == fs.objs[f].pos - 1
<1>1. F!Fails("none") \/ (f # 0 /\ fs.objs[f].pos # 0 /\ F!Does(F!seek(fs, f, pos), 1)) BY DEF F!ungetc
<1>2. f # 0 => f \in 1 .. Len(fs.objs) BY StreamFile
<1> HIDE DEF f
<1>3. f # 0 /\ fs.objs[f].pos # 0 => pos \in Nat BY <1>2, SizeOf
<1> HIDE DEF pos
<1> QED BY <1>1, <1>2, <1>3, ErrorsAre, Numbers, FailsKeeps, SeeksKeep

-----------------------------------------------------------------------------
(* The families of calls. *)

LEMMA PathsAre == (\A p \in Paths : p \in AnyPath) /\ F!NUL \in AnyPath /\ F!NUL \in Paths \cup {F!NUL}
BY DEF AnyPath

\* The modes of a seek, and the numbers of the calls.
LEMMA Arguments ==
  /\ "begin" \in F!Methods /\ 1 \in Nat /\ 0 \in Nat /\ (\A n \in 0 .. 1 : n \in Nat /\ n \in Int /\ 2 * n \in Nat)
  /\ \A o \in -1 .. 1 : o \in Int
BY DEF F!Methods

LEMMA NextFilesKeeps ==
  ASSUME FilesInv, NEW names \in SUBSET Paths, NEW handles, F!NextFiles(names, handles)
  PROVE  FilesInv'
<1>0. (\A p \in names : p \in AnyPath) /\ F!NUL \in AnyPath BY PathsAre
<1>1. CASE \E p \in names, d \in F!Dispositions : F!CreateFile(p, d, FALSE)
  <2>1. FALSE \in BOOLEAN BY Zenon
  <2> QED BY <1>0, <1>1, <2>1, CreateFileKeepsInv
<1>2. CASE \E p \in names : F!CreateFile(p, "open_always", TRUE) \/ F!CreateFile(F!NUL, "open_existing", FALSE)
  <2>1. FALSE \in BOOLEAN /\ TRUE \in BOOLEAN BY Zenon
  <2> QED BY <1>0, <1>2, <2>1, CreateFileKeepsInv
<1>3. CASE \E p \in names : F!DeleteFile(p) \/ F!GetFileAttributes(p) \/ F!GetFileAttributesEx(p) \/ F!_lopen(p)
  <2>1. PICK p \in names : F!DeleteFile(p) \/ F!GetFileAttributes(p) \/ F!GetFileAttributesEx(p) \/ F!_lopen(p)
    BY <1>3
  <2>2. F!DeleteFile(p) => (F!does_file_exist(fs, p) /\ F!Does(F!delete_file(fs, p), 1)) \/ F!Fails("notfound")
    BY DEF F!DeleteFile
  <2> QED BY <1>0, <2>1, <2>2, Numbers, DeleteKeeps, AttributesKeep, SizeKeeps, OpenExistingKeeps
<1>4. CASE \E p \in Directories : F!CreateDirectory(p) \/ F!RemoveDirectory(p)
  BY <1>4, Numbers, DirectoriesKeep DEF F!CreateDirectory, F!RemoveDirectory
<1>5. CASE \E p \in names, unique \in BOOLEAN : F!GetTempFileName(p, unique) BY <1>0, <1>5, TempFileKeeps
<1>6. CASE \E p, q \in names, b \in BOOLEAN : F!CopyFile(p, q, b) BY <1>0, <1>6, CopyFileKeeps
<1>7. CASE \E p, q \in names, b, c \in BOOLEAN : F!MoveFileEx(p, q, b, c) \/ (b /\ c /\ F!MoveFile(p, q))
  BY <1>0, <1>7, MoveFileExKeeps, MoveFileKeeps
<1>8. CASE \E h \in handles, n \in 0 .. 1, b \in BOOLEAN : F!ReadFile(h, n, b) \/ (b /\ F!WriteFile(h, n))
  <2>1. PICK h \in handles, n \in 0 .. 1, b \in BOOLEAN : F!ReadFile(h, n, b) \/ (b /\ F!WriteFile(h, n)) BY <1>8
  <2> QED BY <2>1, Arguments, ReadFileKeeps, WriteFileKeeps
<1>9. CASE \E h \in handles, o \in -1 .. 1, m \in F!Methods :
             \/ F!SetFilePointer(h, o, m) \/ (o = 1 /\ F!SetFilePointerEx(h, o, m)) \/ (o = -1 /\ F!_llseek(h, o, m))
  <2>1. PICK h \in handles, o \in -1 .. 1, m \in F!Methods : F!SetFilePointer(h, o, m)
    BY <1>9, Zenon DEF F!SetFilePointerEx, F!_llseek
  <2> QED BY <2>1, Arguments, SetFilePointerKeeps
<1>10. CASE \E h \in handles : F!GetFileSize(h) \/ F!GetFileInformationByHandle(h) \/ F!CloseHandle(h) \/ F!_lclose(h)
  BY <1>10, AnswersKeep, CloseFileKeeps DEF F!_lclose
<1>11. CASE F!CreateNamedPipe \/ F!CreatePipe BY <1>11, PipesKeep
<1>12. CASE \E h \in handles : F!PeekNamedPipe(h) \/ F!ConnectNamedPipe(h) \/ F!DisconnectNamedPipe(h)
  BY <1>12, AnswersKeep
<1> QED BY <1>1, <1>2, <1>3, <1>4, <1>5, <1>6, <1>7, <1>8, <1>9, <1>10, <1>11, <1>12, Zenon DEF F!NextFiles

LEMMA NextViewsKeeps ==
  ASSUME FilesInv, NEW names \in SUBSET Paths, NEW handles, F!NextViews(names, handles)
  PROVE  FilesInv'
<1>0. \A p \in names : p \in AnyPath BY PathsAre
<1>1. CASE \E p \in names : F!CreateFile(p, "open_always", FALSE)
  <2>1. FALSE \in BOOLEAN BY Zenon
  <2> QED BY <1>0, <1>1, <2>1, CreateFileKeepsInv
<1>2. CASE \E h \in handles : F!CreateFileMapping(h) \/ F!ZwCreateSection(h) \/ F!MapViewOfFile(h) \/ F!CloseHandle(h)
  BY <1>2, FileMappingKeeps, MapViewOfFileKeeps, CloseFileKeeps DEF F!ZwCreateSection
<1>3. CASE \E h \in handles, b \in F!Blocks : F!MapViewOfFileEx(h, b) BY <1>3, MapViewOfFileKeeps
<1>4. CASE \E h \in handles, given \in BOOLEAN : F!ZwMapViewOfSection(h, given)
  <2>1. F!Says(0) \/ \E h \in handles : F!MapViewOfFile(h) BY <1>4 DEF F!ZwMapViewOfSection
  <2> QED BY <2>1, Numbers, SaysKeeps, MapViewOfFileKeeps
<1>5. CASE \E b \in F!Blocks, own \in BOOLEAN : F!ZwUnmapViewOfSection(b, own)
  <2>1. F!Says(0) \/ \E b \in F!Blocks : F!UnmapViewOfFile(b) BY <1>5 DEF F!ZwUnmapViewOfSection
  <2> QED BY <2>1, Numbers, SaysKeeps, MemoryKeeps
<1>6. CASE \E b \in F!Blocks : F!UnmapViewOfFile(b) \/ F!mem_write(b) BY <1>6, MemoryKeeps
<1>7. CASE F!VirtualAlloc BY <1>7, MemoryKeeps
<1> QED BY <1>1, <1>2, <1>3, <1>4, <1>5, <1>6, <1>7, Zenon DEF F!NextViews

LEMMA NextKernelFilesKeeps ==
  ASSUME FilesInv, NEW names \in SUBSET Paths, NEW handles, F!NextKernelFiles(names, handles)
  PROVE  FilesInv'
<1>0. (\A p \in names : p \in AnyPath) /\ F!NUL \in AnyPath BY PathsAre
<1>1. CASE \E p \in names, d \in F!NtDispositions : F!ZwCreateFile(p, d) BY <1>0, <1>1, ZwCreateFileKeeps
<1>2. CASE \E p \in names \cup {F!NUL} : F!ZwOpenFile(p) BY <1>0, <1>2, OpenExistingKeeps
<1>3. CASE \E h \in handles, n \in 0 .. 1, o \in -1 .. 1 : F!ZwWriteFile(h, n, o) \/ F!ZwReadFile(h, n, o)
  <2>1. PICK h \in handles, n \in 0 .. 1, o \in -1 .. 1 : F!ZwWriteFile(h, n, o) \/ F!ZwReadFile(h, n, o) BY <1>3
  <2> QED BY <2>1, Arguments, ZwWriteFileKeeps, ZwReadFileKeeps
<1>4. CASE \E h \in handles, room \in BOOLEAN : F!ZwQueryInformationFile(h, room) BY <1>4, AnswersKeep
<1>5. CASE \E h \in handles : F!CloseHandle(h) BY <1>5, CloseFileKeeps
<1>6. CASE \E p \in names : F!DeleteFile(p)
  <2>1. PICK p \in names : F!DeleteFile(p) BY <1>6
  <2>2. (F!does_file_exist(fs, p) /\ F!Does(F!delete_file(fs, p), 1)) \/ F!Fails("notfound") BY <2>1 DEF F!DeleteFile
  <2> QED BY <2>2, Numbers, DeleteKeeps
<1> QED BY <1>1, <1>2, <1>3, <1>4, <1>5, <1>6, Zenon DEF F!NextKernelFiles

LEMMA NextSearchesKeeps ==
  ASSUME FilesInv, NEW handles, F!NextSearches(handles)
  PROVE  FilesInv'
<1>1. CASE \E n \in F!find_matching_entries : F!FindFirstFile(n) \/ F!FindFirstFileEx(n) \/ F!_findfirst(n)
  BY <1>1, ErrorsAre, FindFirstKeeps DEF F!FindFirstFile, F!FindFirstFileEx, F!_findfirst
<1>2. CASE \E n \in F!walk_drives : F!FindFirstVolume(n) BY <1>2, ErrorsAre, FindFirstKeeps DEF F!FindFirstVolume
<1>3. CASE \E h \in handles : \/ F!FindNextFile(h) \/ F!FindClose(h) \/ F!FindNextVolume(h)
                              \/ F!FindVolumeClose(h) \/ F!_findnext(h) \/ F!_findclose(h)
  BY <1>3, ErrorsAre, FindNextKeeps
     DEF F!FindNextFile, F!FindClose, F!FindNextVolume, F!FindVolumeClose, F!_findnext, F!_findclose
<1> QED BY <1>1, <1>2, <1>3 DEF F!NextSearches

LEMMA NextCrtKeeps ==
  ASSUME FilesInv, NEW names \in SUBSET Paths, F!NextCrt(names)
  PROVE  FilesInv'
<1>0. \A p \in names : p \in AnyPath BY PathsAre
<1>1. CASE \E p \in names, f \in F!Flags : F!open_fd(p, f) BY <1>0, <1>1, OpenFdKeeps
<1>2. CASE \E d \in F!Fds : F!_close(d) \/ F!_fdopen(d) \/ F!stat_fd(d)
  BY <1>2, CloseFdKeeps, FdopenKeeps, StreamAnswersKeep
<1>3. CASE \E d \in F!Fds, n \in 0 .. 1 : F!_read(d, n) \/ F!_write(d, n) BY <1>3, Arguments, ReadFdKeeps
<1>4. CASE \E d \in F!Fds, o \in -1 .. 1, m \in F!Methods : F!_lseek(d, o, m) BY <1>4, Arguments, SeekFdKeeps
<1>5. CASE F!open_pipe BY <1>5, OpenPipeKeeps
<1>6. CASE \E p \in names, m \in {"r", "w", "a"} :
             F!fopen(p, m) \/ (m = "r" /\ F!fopen_s(p, m)) \/ \E x \in F!Streams : F!reopen_stream(p, m, x)
  BY <1>0, <1>6, OpenStreamKeeps, ReopenKeeps
<1>7. CASE \E x \in F!Streams : \/ F!fclose(x) \/ F!_pclose(x) \/ F!_fileno(x) \/ F!fgetpos(x) \/ F!ftell(x)
                                \/ F!fgetc(x) \/ F!fputc(x)
  <2>1. PICK x \in F!Streams : \/ F!fclose(x) \/ F!_pclose(x) \/ F!_fileno(x) \/ F!fgetpos(x) \/ F!ftell(x)
                               \/ F!fread(x, 1) \/ F!write_stream(x, 1)
    BY <1>7, Zenon DEF F!fgetc, F!fputc
  <2> QED BY <2>1, Arguments, CloseStreamKeeps, StreamAnswersKeep, StreamBytesKeep
<1>8. CASE \E x \in F!Streams, n \in 0 .. 1 : \/ F!fread(x, n) \/ F!fwrite(x, n) \/ F!fsetpos(x, n)
                                              \/ F!ungetc(x, n = 1) \/ F!fgets(x, 2 * n, 1)
  <2>1. PICK x \in F!Streams, n \in 0 .. 1 : \/ F!fread(x, n) \/ F!fwrite(x, n) \/ F!seek_stream(x, n, "begin")
                                             \/ F!ungetc(x, n = 1) \/ F!fgets(x, 2 * n, 1)
    BY <1>8, Zenon DEF F!fsetpos
  <2>2. n \in Nat /\ n \in Int /\ 2 * n \in Nat /\ 1 \in Nat /\ "begin" \in F!Methods BY Arguments
  <2>3. CASE F!ungetc(x, n = 1) BY <2>3, UngetKeeps
  <2>4. CASE F!fgets(x, 2 * n, 1) BY <2>2, <2>4, LineKeeps
  <2> QED BY <2>1, <2>2, <2>3, <2>4, StreamBytesKeep, SeekStreamKeeps
<1>9. CASE \E x \in F!Streams, o \in -1 .. 1, m \in F!Methods : F!fseek(x, o, m)
  BY <1>9, Arguments, SeekStreamKeeps DEF F!fseek
<1>10. CASE \E p \in names : F!_stat(p) \/ F!access_path(p) \/ F!_unlink(p)
  <2>1. PICK p \in names : F!_stat(p) \/ F!access_path(p) \/ F!_unlink(p) BY <1>10
  <2>2. F!_unlink(p) => (F!does_file_exist(fs, p) /\ F!Does(F!delete_file(fs, p), 0)) \/ F!Fails("notfound")
    BY DEF F!_unlink, F!unlink, F!set_errno
  <2>3. F!_stat(p) => F!stat_file(p) BY DEF F!_stat
  <2> QED BY <1>0, <2>1, <2>2, <2>3, Numbers, SizeKeeps, AttributesKeep, DeleteKeeps
<1>11. CASE \E p \in Directories, b \in BOOLEAN : F!change_directory(p, b)
  <2>1. PICK p \in Directories : F!Does(F!create_directory(fs, p), 0) \/ F!Does(F!remove_directory(fs, p), 0)
    BY <1>11 DEF F!change_directory
  <2> QED BY <2>1, Numbers, DirectoriesKeep
<1>12. CASE \E p, q \in names : F!rename(p, q)
  <2>1. PICK p \in names, q \in names : F!rename(p, q) BY <1>12
  <2>2. (F!Has(fs, p) /\ F!Does(F!move_file(fs, p, q), 0)) \/ F!Fails("notfound")
    BY <2>1 DEF F!rename, F!set_errno
  <2> QED BY <1>0, <2>2, Numbers, MovedKeeps
<1> QED BY <1>1, <1>2, <1>3, <1>4, <1>5, <1>6, <1>7, <1>8, <1>9, <1>10, <1>11, <1>12, Zenon DEF F!NextCrt

-----------------------------------------------------------------------------
(* What the invariant is for. *)

\* At the start the image is the only file, and the streams are stdout.
LEMMA InitFilesInv == F!Init => FilesInv
<1> SUFFICES ASSUME F!Init PROVE FilesInv OBVIOUS
<1> DEFINE s == [objs |-> <<>>, files |-> <<>>, deleted |-> {}, dirs |-> {}, handles |-> <<>>]
           r == F!File("file", ImagePath, <<0>>)
           t == F!Register(s, r)
<1>1. GoodFiles(s)
  <2>1. FilesOK(s) BY DEF FilesOK
  <2>2. PathsOK(s) /\ CountsOK(s) BY DEF PathsOK, CountsOK
  <2> QED BY <2>1, <2>2 DEF GoodFiles
<1>2. r \in FileRecord /\ r.path = ImagePath /\ r.data = <<0>> /\ r.pos = 0 /\ r.origin = 0 /\ r.written = 0
  <2>1. "file" \in Kinds /\ ImagePath \in AnyPath BY DEF Kinds, AnyPath
  <2> QED BY <2>1, NoOnes, NewFile
<1>3. Ones(r.data) <= r.written BY <1>2, NoOnes
<1>4. Len(s.objs) = 0 /\ s.deleted = {} /\ DOMAIN s.files = {} /\ s.handles = <<>> OBVIOUS
<1> HIDE DEF s, r
<1>5. GoodFiles(t) /\ Len(t.objs) = 1 /\ t.objs[1] = r /\ t.handles = <<>>
  <2>1. r.path \notin s.deleted /\ \A i \in DOMAIN s.files : s.objs[s.files[i]].path # r.path BY <1>4
  <2>2. LET u == F!Register(s, r)
        IN  /\ GoodFiles(u) /\ Len(u.objs) = Len(s.objs) + 1 /\ u.objs[Len(s.objs) + 1] = r
            /\ u.handles = s.handles
    BY <1>1, <1>2, <1>3, <2>1, NewlyListed
  <2> HIDE DEF t
  <2>3. GoodFiles(t) /\ Len(t.objs) = Len(s.objs) + 1 /\ t.objs[Len(s.objs) + 1] = r /\ t.handles = s.handles
    BY <2>2 DEF t
  <2> QED BY <1>4, <2>3
<1>6. fs = t BY DEF F!Init, F!add_existing_file, s, r
<1> HIDE DEF t
<1>7. Fitting(fs)
  <2>1. MaxFiles \in Nat \ {0} /\ MaxFileHandles \in Nat /\ MaxSize \in Nat BY FilesAssumption
  <2>2. Len(fs.objs) = 1 /\ fs.objs[1].pos = 0 /\ fs.handles = <<>> BY <1>2, <1>5, <1>6
  <2>3. Len(fs.handles) = 0 BY <2>2
  <2>4. \A f \in 1 .. Len(fs.objs) : f = 1 BY <2>2
  <2> QED BY <2>1, <2>2, <2>3, <2>4 DEF Fitting
<1>8. WalksOK(fs, walks) /\ FdsOK(fds) BY DEF F!Init, WalksOK, FdsOK
<1>9. StreamsOK(streams)
  <2>1. streams = [x \in {1} |-> [fd |-> 1, hfile |-> 0]] BY DEF F!Init
  <2>2. 1 \in F!Fds /\ 1 \in F!Streams /\ 0 \in 0 .. MaxFileHandles BY FilesAssumption DEF F!Fds, F!Streams
  <2>3. [fd |-> 1, hfile |-> 0] \in StreamRecord BY <2>2 DEF StreamRecord
  <2> QED BY <2>1, <2>2, <2>3 DEF StreamsOK
<1>10. ResOK(res) BY Numbers, ErrorsAre DEF F!Init, ResOK
<1> QED BY <1>5, <1>6, <1>7, <1>8, <1>9, <1>10 DEF FilesInv

\* A step of a part keeps the invariant: it is a call of Files, or it leaves the files alone.
LEMMA GuestFilesKeep == FilesInv /\ [GuestNext]_<<vars, file_vars, part>> => FilesInv'
<1> SUFFICES ASSUME FilesInv, [GuestNext]_<<vars, file_vars, part>> PROVE FilesInv' OBVIOUS
<1>1. CASE UNCHANGED file_vars BY <1>1 DEF file_vars, FilesInv
<1>2. CASE FileStep
  <2> DEFINE names == Paths \cap Room[part].paths
             handles == 0 .. Room[part].handles
  <2>1. \/ F!NextFiles(names, handles) \/ F!NextKernelFiles(names, handles) \/ F!NextViews(names, handles)
        \/ F!NextSearches(handles) \/ F!NextCrt(names)
    BY <1>2 DEF FileStep
  <2>2. names \in SUBSET Paths OBVIOUS
  <2> HIDE DEF names, handles
  <2> QED BY <2>1, <2>2, NextFilesKeeps, NextViewsKeeps, NextKernelFilesKeeps, NextSearchesKeeps, NextCrtKeeps
<1>3. CASE ObjectStep BY <1>1, <1>3 DEF ObjectStep
<1> QED BY <1>1, <1>2, <1>3 DEF GuestNext, file_vars

\* The invariant says what the files promise.
LEMMA FilesInvMeans == FilesInv => F!TypeOK /\ FilesAreListed
<1> SUFFICES ASSUME FilesInv PROVE F!TypeOK /\ FilesAreListed OBVIOUS
<1>0. GoodFiles(fs) /\ FilesOK(fs) /\ PathsOK(fs) /\ CountsOK(fs) BY DEF FilesInv, GoodFiles
<1>1. /\ Len(fs.objs) \in Nat /\ DOMAIN fs.objs = 1 .. Len(fs.objs)
      /\ Len(fs.files) \in Nat /\ DOMAIN fs.files = 1 .. Len(fs.files)
      /\ Len(fs.handles) \in Nat /\ DOMAIN fs.handles = 1 .. Len(fs.handles)
  BY <1>0, FileTypes
<1>2. Len(fs.objs) <= MaxFiles /\ MaxFiles \in Nat /\ MaxSize \in Nat BY FilesAssumption DEF FilesInv, Fitting
<1>3. fs.files \in Seq(1 .. MaxFiles) /\ F!IsInjective(fs.files)
  <2>1. fs.files \in Seq(Nat) /\ \A i \in DOMAIN fs.files : fs.files[i] \in 1 .. MaxFiles BY <1>0, <1>1, <1>2 DEF FilesOK
  <2>2. fs.files \in [1 .. Len(fs.files) -> 1 .. MaxFiles] BY <1>1, <2>1
  <2>3. fs.files \in Seq(1 .. MaxFiles) BY <1>1, <2>2, SeqDef, Zenon
  <2> QED BY <2>3, <1>0, ListedOnce DEF F!IsInjective
<1>4. fs.handles \in Seq(0 .. MaxFiles)
  <2>1. fs.handles \in Seq(Nat) /\ \A h \in DOMAIN fs.handles : fs.handles[h] \in 0 .. MaxFiles
    BY <1>0, <1>1, <1>2 DEF FilesOK
  <2>2. fs.handles \in [1 .. Len(fs.handles) -> 0 .. MaxFiles] BY <1>1, <2>1
  <2> QED BY <1>1, <2>2, SeqDef, Zenon
<1>5. ASSUME NEW f \in DOMAIN fs.objs
      PROVE  /\ fs.objs[f].data \in Seq({0, 1}) /\ fs.objs[f].pos \in 0 .. MaxSize
             /\ fs.objs[f].origin \in 0 .. f - 1
  <2>1. f \in 1 .. Len(fs.objs) /\ f \in Nat BY <1>1
  <2>2. fs.objs[f].data \in Content /\ fs.objs[f].pos \in Nat /\ fs.objs[f].origin \in Nat BY <1>0, <2>1, FileTypes
  <2>3. fs.objs[f].pos <= MaxSize BY <2>1 DEF FilesInv, Fitting
  <2>4. fs.objs[f].origin < f BY <1>0, <2>1 DEF FilesOK
  <2> QED BY <1>2, <2>1, <2>2, <2>3, <2>4 DEF Content
<1>6. F!TypeOK
  <2>1. \A d \in DOMAIN fds : fds[d] \in 0 .. MaxFileHandles BY DEF FilesInv, FdsOK
  <2>2. \A x \in DOMAIN streams : streams[x].fd \in 0 .. MaxFds /\ streams[x].hfile \in 0 .. MaxFileHandles
    BY DEF FilesInv, StreamsOK, StreamRecord, F!Fds
  <2>3. \A h \in DOMAIN walks : h \in DOMAIN fs.handles /\ fs.handles[h] = 0 BY DEF FilesInv, WalksOK
  <2>4. res.n \in Nat \cup {-1} /\ res.err \in F!Errors BY DEF FilesInv, ResOK, Told
  <2> QED BY <1>3, <1>4, <1>5, <2>1, <2>2, <2>3, <2>4, Zenon DEF F!TypeOK
<1>7. F!DeletedFilesAreGone BY <1>0, Zenon DEF PathsOK, F!DeletedFilesAreGone
<1>8. F!WrittenFilesAreDropped
  <2> SUFFICES ASSUME NEW i \in DOMAIN fs.files, F!ToSet(F!get_contents(fs, fs.files[i])) = {1}
               PROVE  i \in F!get_dropped_files(fs)
    BY Zenon DEF F!WrittenFilesAreDropped
  <2> DEFINE f == fs.files[i]
             d == F!get_contents(fs, f)
  <2>1. f \in 1 .. Len(fs.objs) /\ fs.objs[f].origin = 0 BY <1>0 DEF FilesOK, PathsOK
  <2>2. d \in Content /\ d = fs.objs[F!Buffer(fs, f)].data /\ F!get_size(fs, f) = Len(d) BY <1>0, <2>1, Contents
  <2>3. F!Buffer(fs, f) = f BY <2>1 DEF F!Buffer
  <2>4. ToSet(d) = {1} BY DEF ToSet, F!ToSet
  <2> HIDE DEF d
  <2>5. Ones(d) = Len(d) BY <2>2, <2>4, AllOnes
  <2>6. Ones(fs.objs[f].data) <= fs.objs[f].written BY <1>0, <2>1 DEF CountsOK
  <2>7. fs.objs[f].written \in Nat /\ Len(d) \in Nat BY <1>0, <2>1, <2>2, FileTypes, OnesAreFinite
  <2>8. fs.objs[f].written >= F!get_size(fs, f) BY <2>2, <2>3, <2>5, <2>6, <2>7
  <2> QED BY <2>8 DEF F!get_dropped_files
<1> QED BY <1>6, <1>7, <1>8 DEF FilesAreListed

\* The state of the objects and of the files keeps its types.
THEOREM GuestTypesHold == GuestSpec => []GuestTypes
<1>1. GuestInit => FilesInv BY InitFilesInv DEF GuestInit
<1>2. FilesInv /\ [GuestNext]_<<vars, file_vars, part>> => FilesInv' BY GuestFilesKeep
<1>3. FilesInv /\ TypeOK => GuestTypes BY FilesInvMeans DEF GuestTypes
<1> QED BY <1>1, <1>2, <1>3, ObjectsAlwaysStay, PTL DEF GuestSpec

\* A deleted file is served by no later call, no path has two entries, and a file that the guest wrote fully
\* through its handles and streams is among the dropped files (FileManager.delete_file, create_file,
\* get_dropped_files), for any paths and handles.  The contents are not compared; a view writes no file.
THEOREM FilesAreAlwaysListed == GuestSpec => []FilesAreListed
<1>1. GuestInit => FilesInv BY InitFilesInv DEF GuestInit
<1>2. FilesInv /\ [GuestNext]_<<vars, file_vars, part>> => FilesInv' BY GuestFilesKeep
<1>3. FilesInv => FilesAreListed BY FilesInvMeans
<1> QED BY <1>1, <1>2, <1>3, PTL DEF GuestSpec
=============================================================================
