--------------------------- MODULE ServicesProofs ---------------------------
(***************************************************************************)
(* Proofs about the services of the guest, for all keys, handles, sizes,   *)
(* numbers of objects and addresses: the registry, the network, the memory *)
(* of the process and the services that a process keeps state for.  Each   *)
(* service has an inductive invariant, with one lemma per operation of its *)
(* manager and one per family of calls.                                    *)
(***************************************************************************)
EXTENDS Services, SequenceTheorems, FiniteSetTheorems, WellFoundedInduction, NaturalsInduction, TLAPS

-----------------------------------------------------------------------------
(***************************************************************************)
(* The registry.  A path that finds itself, which has no [ ], has at most  *)
(* one listed key; when the guest deleted it, it has none, or one that the *)
(* guest made again and that no longer gets its value from the             *)
(* configuration.  The other paths may have many.                          *)
(***************************************************************************)

\* The value of a key, and where it came from; the objects and tables of RegistryManager.
Value == [from : {"none", "config", "guest"}, bytes : 0 .. MaxBytes]
RegObject == [path : KeyPaths, value : Value]
Registries == [objs : Seq(RegObject), keys : Seq(Nat), deleted : SUBSET KeyPaths, handles : Seq(Nat)]

\* A key of the list has the path.
Listed(s, p) == \E i \in DOMAIN s.keys : s.objs[s.keys[i]].path = p

\* Keys and handles name objects; no object is listed twice.
Positions(s) ==
  /\ Len(s.objs) >= 1
  /\ \A i \in DOMAIN s.keys : s.keys[i] \in DOMAIN s.objs
  /\ \A i, j \in DOMAIN s.keys : s.keys[i] = s.keys[j] => i = j
  /\ \A i \in DOMAIN s.handles : s.handles[i] \in 0 .. Len(s.objs)
\* No two listed keys have one path that finds itself.
OneKey(s) ==
  \A i, j \in DOMAIN s.keys :
    R!FindsItself(s.objs[s.keys[i]].path) /\ s.objs[s.keys[i]].path = s.objs[s.keys[j]].path => i = j
\* A path that was wiped is still marked or has a listed key; an object that is not listed was deleted.
Marked(s, w) ==
  /\ s.deleted \subseteq w /\ w \subseteq KeyPaths
  /\ \A p \in w : p \in s.deleted \/ Listed(s, p)
  /\ \A o \in DOMAIN s.objs : s.objs[o].path \in w \/ \E i \in DOMAIN s.keys : s.keys[i] = o
\* No listed key of a wiped path that finds itself has its value from the configuration.
NotFromConfig(s, w) ==
  \A i \in DOMAIN s.keys :
    s.objs[s.keys[i]].path \in w /\ R!FindsItself(s.objs[s.keys[i]].path) => s.objs[s.keys[i]].value.from # "config"

RegInv(s, w) == s \in Registries /\ Positions(s) /\ OneKey(s) /\ Marked(s, w) /\ NotFromConfig(s, w)

\* A new key whose path has none, or does not find itself.
LEMMA AddingAKey ==
  ASSUME NEW s, NEW w, RegInv(s, w), NEW k \in RegObject, R!FindsItself(k.path) => ~Listed(s, k.path),
         k.value.from # "config" \/ k.path \notin w \/ ~R!FindsItself(k.path),
         NEW D, D = s.deleted \/ D = s.deleted \ {k.path}
  PROVE  LET t == R!AddKey([s EXCEPT !.deleted = D], k)
         IN  /\ RegInv(t, w) /\ t.handles = s.handles /\ Len(t.objs) = Len(s.objs) + 1
             /\ t.keys = Append(s.keys, Len(t.objs))
<1> DEFINE t == R!AddKey([s EXCEPT !.deleted = D], k)
<1>1. /\ s \in Registries /\ s.objs \in Seq(RegObject) /\ s.keys \in Seq(Nat) /\ s.handles \in Seq(Nat)
      /\ D \in SUBSET KeyPaths /\ Len(s.objs) \in Nat /\ Len(s.keys) \in Nat
  BY DEF RegInv, Registries
<1>2. /\ t.objs = Append(s.objs, k) /\ t.keys = Append(s.keys, Len(s.objs) + 1)
      /\ t.deleted = D /\ t.handles = s.handles
      /\ t = [objs |-> t.objs, keys |-> t.keys, deleted |-> D, handles |-> s.handles]
  <2> DEFINE u == [s EXCEPT !.deleted = D]
  <2>1. u = [objs |-> s.objs, keys |-> s.keys, deleted |-> D, handles |-> s.handles]
    BY <1>1, SMTT(60) DEF Registries
  <2>2. R!AddKey(u, k) = [objs |-> Append(s.objs, k), keys |-> Append(s.keys, Len(s.objs) + 1),
                          deleted |-> D, handles |-> s.handles]
    <3> HIDE DEF u
    <3>1. u.objs = s.objs /\ u.keys = s.keys BY <2>1
    <3>2. ASSUME NEW o, NEW ks
          PROVE  [u EXCEPT !.objs = o, !.keys = ks] = [objs |-> o, keys |-> ks, deleted |-> D, handles |-> s.handles]
      <4> DEFINE v == [u EXCEPT !.objs = o]
      <4>1. v = [objs |-> o, keys |-> s.keys, deleted |-> D, handles |-> s.handles] BY <2>1
      <4>2. [u EXCEPT !.objs = o, !.keys = ks] = [v EXCEPT !.keys = ks] OBVIOUS
      <4> HIDE DEF v
      <4>3. [v EXCEPT !.keys = ks] = [objs |-> o, keys |-> ks, deleted |-> D, handles |-> s.handles] BY <4>1
      <4> QED BY <4>2, <4>3
    <3>3. R!AddKey(u, k) = [u EXCEPT !.objs = Append(s.objs, k), !.keys = Append(s.keys, Len(s.objs) + 1)]
      BY <3>1 DEF R!AddKey
    <3> QED BY <3>2, <3>3
  <2>3. t = R!AddKey(u, k) OBVIOUS
  <2> HIDE DEF t, u
  <2> QED BY <2>2, <2>3
<1> HIDE DEF t
<1>3. /\ t.objs \in Seq(RegObject) /\ Len(t.objs) = Len(s.objs) + 1
      /\ t.keys \in Seq(Nat) /\ Len(t.keys) = Len(s.keys) + 1
  <2>1. Len(s.objs) + 1 \in Nat BY <1>1
  <2> QED BY <1>1, <1>2, <2>1, AppendProperties
<1>4. t \in Registries
  BY <1>1, <1>2, <1>3 DEF Registries
<1>5. /\ \A i \in DOMAIN s.objs : i \in DOMAIN t.objs /\ t.objs[i] = s.objs[i]
      /\ t.objs[Len(s.objs) + 1] = k /\ Len(s.objs) + 1 \in DOMAIN t.objs
      /\ \A i \in DOMAIN t.objs : i \in DOMAIN s.objs \/ i = Len(s.objs) + 1
  <2>1. DOMAIN s.objs = 1 .. Len(s.objs) /\ DOMAIN t.objs = 1 .. (Len(s.objs) + 1)
    BY <1>1, <1>3, LenProperties
  <2>2. \A i \in 1 .. (Len(s.objs) + 1) : t.objs[i] = IF i <= Len(s.objs) THEN s.objs[i] ELSE k
    BY <1>1, <1>2, AppendProperties
  <2> QED BY <2>1, <2>2, <1>1
<1>6. /\ \A i \in DOMAIN s.keys : i \in DOMAIN t.keys /\ t.keys[i] = s.keys[i]
      /\ Len(s.keys) + 1 \in DOMAIN t.keys
      /\ t.keys[Len(s.keys) + 1] = Len(s.objs) + 1
      /\ \A i \in DOMAIN t.keys : i \in DOMAIN s.keys \/ i = Len(s.keys) + 1
  <2>1. DOMAIN s.keys = 1 .. Len(s.keys) /\ DOMAIN t.keys = 1 .. (Len(s.keys) + 1)
    BY <1>1, <1>3, LenProperties
  <2>2. \A i \in 1 .. (Len(s.keys) + 1) : t.keys[i] = IF i <= Len(s.keys) THEN s.keys[i] ELSE Len(s.objs) + 1
    BY <1>1, <1>2, AppendProperties
  <2>. DEFINE n == Len(s.keys)
             m == Len(s.objs) + 1
             old == s.keys
             new == t.keys
  <2>0. n \in Nat /\ DOMAIN old = 1 .. n /\ DOMAIN new = 1 .. (n + 1)
        /\ \A i \in 1 .. (n + 1) : new[i] = IF i <= n THEN old[i] ELSE m
    BY <2>1, <2>2, <1>1
  <2>. HIDE DEF n, m, old, new
  <2>a. n + 1 \in DOMAIN new /\ new[n + 1] = m BY <2>0
  <2>b. ASSUME NEW i \in DOMAIN old PROVE i \in DOMAIN new /\ new[i] = old[i] BY <2>0
  <2>3. Len(s.keys) + 1 \in DOMAIN t.keys /\ t.keys[Len(s.keys) + 1] = Len(s.objs) + 1 BY <2>a DEF n, m, new
  <2>4. ASSUME NEW i \in DOMAIN s.keys PROVE i \in DOMAIN t.keys /\ t.keys[i] = s.keys[i]
    BY <2>b DEF old, new
  <2>5. \A i \in DOMAIN t.keys : i \in DOMAIN s.keys \/ i = Len(s.keys) + 1 BY <2>1, <1>1
  <2> QED BY <2>3, <2>4, <2>5
<1>7. Positions(t)
  <2>1. Positions(s) BY DEF RegInv
  <2>2. Len(t.objs) >= 1 BY <2>1, <1>3, <1>1 DEF Positions
  <2>3. \A i \in DOMAIN t.keys : t.keys[i] \in DOMAIN t.objs
    BY <2>1, <1>5, <1>6 DEF Positions
  <2>4. \A i \in DOMAIN t.handles : t.handles[i] \in 0 .. Len(t.objs)
    BY <2>1, <1>1, <1>2, <1>3 DEF Positions
  \* The object of the new key is a new one.
  <2>5. \A i \in DOMAIN s.keys : s.keys[i] # Len(s.objs) + 1
    <3>1. DOMAIN s.objs = 1 .. Len(s.objs) BY <1>1, LenProperties
    <3> QED BY <2>1, <3>1, <1>1 DEF Positions
  <2>6. \A i, j \in DOMAIN t.keys : t.keys[i] = t.keys[j] => i = j
    BY <2>1, <2>5, <1>6 DEF Positions
  <2> QED BY <2>2, <2>3, <2>4, <2>6 DEF Positions
<1>8. \A i \in DOMAIN s.keys : s.keys[i] \in DOMAIN s.objs /\ t.objs[t.keys[i]] = s.objs[s.keys[i]]
  BY <1>5, <1>6 DEF RegInv, Positions
<1>9. t.objs[t.keys[Len(s.keys) + 1]] = k
  BY <1>5, <1>6
<1>10. OneKey(t)
  BY <1>6, <1>8, <1>9 DEF RegInv, OneKey, Listed
<1>11. Listed(t, k.path) /\ \A p : Listed(s, p) => Listed(t, p)
  BY <1>6, <1>8, <1>9 DEF Listed
<1>12. Marked(t, w)
  <2>1. t.deleted \subseteq w /\ w \subseteq KeyPaths BY <1>2 DEF RegInv, Marked
  <2>2. \A p \in w : p \in t.deleted \/ Listed(t, p)
    BY <1>2, <1>11 DEF RegInv, Marked
  <2>3. ASSUME NEW o \in DOMAIN t.objs
        PROVE  t.objs[o].path \in w \/ \E i \in DOMAIN t.keys : t.keys[i] = o
    <3>1. CASE o = Len(s.objs) + 1 BY <3>1, <1>6
    <3>2. CASE o \in DOMAIN s.objs BY <3>2, <1>5, <1>6 DEF RegInv, Marked
    <3> QED BY <3>1, <3>2, <1>5
  <2> QED BY <2>1, <2>2, <2>3 DEF Marked
<1>13. NotFromConfig(t, w)
  BY <1>6, <1>8, <1>9 DEF RegInv, NotFromConfig
<1>14. t.keys = Append(s.keys, Len(t.objs)) BY <1>2, <1>3
<1> QED BY <1>2, <1>3, <1>4, <1>7, <1>10, <1>12, <1>13, <1>14 DEF RegInv, t

\* A set of numbers has a least one.
LEMMA LeastNatural ==
  ASSUME NEW S, S \subseteq Nat, S # {}
  PROVE  \E x \in S : \A y \in S : x <= y
<1>1. IsWellFoundedOn(OpToRel(<, Nat), Nat) BY NatLessThanWellFounded
<1>2. PICK x \in S : \A y \in S : ~(<<y, x>> \in OpToRel(<, Nat)) BY <1>1, WFMin
<1>3. \A y \in S : ~(y < x) BY <1>2 DEF OpToRel
<1> QED BY <1>3

\* get_key_from_path gives a listed key, and finds the key of a path that finds itself or another one.
LEMMA KeyOfPath ==
  ASSUME NEW s, NEW w, RegInv(s, w), NEW p
  PROVE  LET k == R!get_key_from_path(s, p)
         IN  /\ k = 0 => (R!FindsItself(p) => ~Listed(s, p))
             /\ k # 0 => k \in DOMAIN s.objs
             /\ k \in 0 .. Len(s.objs)
<1> DEFINE own == {i \in DOMAIN s.keys : s.objs[s.keys[i]].path \in Matches[p]}
<1>1. /\ s.objs \in Seq(RegObject) /\ s.keys \in Seq(Nat) /\ Len(s.objs) \in Nat /\ Len(s.keys) \in Nat
      /\ DOMAIN s.keys = 1 .. Len(s.keys) /\ DOMAIN s.objs = 1 .. Len(s.objs)
  BY LenProperties DEF RegInv, Registries
<1>2. CASE own = {}
  <2>1. R!get_key_from_path(s, p) = 0 BY <1>2 DEF R!get_key_from_path
  <2>2. R!FindsItself(p) => ~Listed(s, p) BY <1>2 DEF R!FindsItself, Listed
  <2> QED BY <1>1, <2>1, <2>2
<1>3. CASE own # {}
  <2>1. own \subseteq Nat BY <1>1
  <2>2. PICK i \in own : \A j \in own : i <= j
    <3> HIDE DEF own
    <3> QED BY <1>3, <2>1, LeastNatural
  <2> DEFINE f == CHOOSE x \in own : \A j \in own : x <= j
  <2>3. f \in own
    <3> HIDE DEF own
    <3> QED BY <2>2
  <2>4. R!get_key_from_path(s, p) = s.keys[f]
    BY <1>3 DEF R!get_key_from_path
  <2>5. s.keys[f] \in DOMAIN s.objs
    <3>1. f \in DOMAIN s.keys BY <2>3
    <3> HIDE DEF f
    <3> QED BY <3>1 DEF RegInv, Positions
  <2> HIDE DEF f
  <2> QED BY <1>1, <2>4, <2>5
<1> QED BY <1>2, <1>3

\* A new handle for an object keeps the registry whole (create_key_handle).
LEMMA NewHandle ==
  ASSUME NEW s, NEW w, RegInv(s, w), NEW k \in 0 .. Len(s.objs)
  PROVE  LET t == R!new_handle(s, k)
         IN  RegInv(t, w) /\ t.objs = s.objs /\ t.handles = Append(s.handles, k)
<1> DEFINE t == R!new_handle(s, k)
<1>1. s \in Registries /\ s.objs \in Seq(RegObject) /\ s.handles \in Seq(Nat) /\ Len(s.objs) \in Nat /\ k \in Nat
  BY DEF RegInv, Registries
<1>2. /\ t = [objs |-> s.objs, keys |-> s.keys, deleted |-> s.deleted, handles |-> Append(s.handles, k)]
      /\ t.objs = s.objs /\ t.keys = s.keys /\ t.deleted = s.deleted /\ t.handles = Append(s.handles, k)
  <2>1. s = [objs |-> s.objs, keys |-> s.keys, deleted |-> s.deleted, handles |-> s.handles] BY <1>1 DEF Registries
  <2> QED BY <2>1 DEF R!new_handle
<1> HIDE DEF t
<1>3. t \in Registries BY <1>1, <1>2 DEF Registries
<1>4. Positions(t) BY <1>1, <1>2 DEF RegInv, Positions
<1>5. OneKey(t) /\ Marked(t, w) /\ NotFromConfig(t, w)
  BY <1>2 DEF RegInv, OneKey, Marked, NotFromConfig, Listed
<1> QED BY <1>2, <1>3, <1>4, <1>5 DEF RegInv, t

\* get_key gives an object of the table.
LEMMA GotKey ==
  ASSUME NEW s, NEW w, RegInv(s, w), NEW h
  PROVE  R!get_key(s, h) \in 0 .. Len(s.objs) /\ (R!get_key(s, h) # 0 => R!get_key(s, h) \in DOMAIN s.objs)
<1>1. s.objs \in Seq(RegObject) /\ Len(s.objs) \in Nat /\ Positions(s)
  BY DEF RegInv, Registries
<1> QED BY <1>1 DEF R!get_key, Positions

\* A new key, without a value or with that of the configuration.
LEMMA NewKeys ==
  /\ R!NoValue \in Value /\ R!NoValue.from # "config"
  /\ \A p \in KeyPaths : /\ R!RegKey(p, R!NoValue) \in RegObject /\ R!RegKey(p, R!NoValue).path = p
                         /\ R!RegKey(p, R!NoValue).value.from # "config"
                         /\ R!get_key_from_config(p) \in RegObject /\ R!get_key_from_config(p).path = p
BY RegistryAssumption DEF R!NoValue, R!RegKey, R!get_key_from_config, RegObject, Value

\* Opening or creating a key keeps the registry whole; a new handle names an object.
LEMMA OpeningAKey ==
  ASSUME NEW s, NEW w, RegInv(s, w), NEW p \in KeyPaths, NEW create \in BOOLEAN
  PROVE  LET t == R!open_key(s, p, create)
         IN  RegInv(t, w) /\ (t # s => t.handles # <<>> /\ t.handles[Len(t.handles)] \in DOMAIN t.objs)
<1> DEFINE t == R!open_key(s, p, create)
           own == R!get_key_from_path(s, p)
           a == R!AddKey(s, R!get_key_from_config(p))
           b == R!AddKey([s EXCEPT !.deleted = @ \ {p}], R!RegKey(p, R!NoValue))
<1>1. /\ own = 0 => (R!FindsItself(p) => ~Listed(s, p))
      /\ own # 0 => own \in DOMAIN s.objs
      /\ own \in 0 .. Len(s.objs)
  BY KeyOfPath
<1>2. ASSUME NEW u, RegInv(u, w), NEW k \in DOMAIN u.objs, t = R!new_handle(u, k)
      PROVE  RegInv(t, w) /\ t.handles # <<>> /\ t.handles[Len(t.handles)] \in DOMAIN t.objs
  <2>1. u.objs \in Seq(RegObject) /\ u.handles \in Seq(Nat) /\ Len(u.objs) \in Nat
    BY <1>2 DEF RegInv, Registries
  <2>2. k \in 0 .. Len(u.objs) /\ k \in Nat BY <2>1
  <2>3. RegInv(t, w) /\ t.objs = u.objs /\ t.handles = Append(u.handles, k)
    BY <1>2, <2>2, NewHandle
  <2>4. Len(t.handles) = Len(u.handles) + 1 /\ t.handles[Len(u.handles) + 1] = k /\ t.handles # <<>>
    BY <2>1, <2>2, <2>3, AppendProperties, SMTT(60)
  <2> QED BY <2>3, <2>4
<1>3. CASE own # 0
  BY <1>1, <1>2, <1>3 DEF R!open_key, R!get_key_handle
<1>4. CASE own = 0 /\ R!IsConfigured(s, p)
  <2>1. p \notin w \/ ~R!FindsItself(p) BY <1>1, <1>4 DEF RegInv, Marked, R!IsConfigured
  <2>2. s.deleted = s.deleted /\ s = [s EXCEPT !.deleted = s.deleted] BY DEF RegInv, Registries
  <2>3. RegInv(a, w) /\ Len(a.objs) = Len(s.objs) + 1
    <3> DEFINE k == R!get_key_from_config(p)
    <3>1. k \in RegObject /\ k.path = p BY NewKeys
    <3>2. /\ R!FindsItself(k.path) => ~Listed(s, k.path)
          /\ k.path \notin w \/ ~R!FindsItself(k.path)
      BY <1>1, <1>4, <2>1, <3>1
    <3> HIDE DEF k
    <3>3. RegInv(R!AddKey([s EXCEPT !.deleted = s.deleted], k), w)
          /\ Len(R!AddKey([s EXCEPT !.deleted = s.deleted], k).objs) = Len(s.objs) + 1
      BY <3>1, <3>2, AddingAKey
    <3> QED BY <3>3, <2>2 DEF k
  <2>4. Len(a.objs) \in DOMAIN a.objs BY <2>3 DEF RegInv, Registries, Positions
  <2>5. t = R!new_handle(a, Len(a.objs)) BY <1>4 DEF R!open_key, R!get_key_handle, R!Newest
  <2> QED BY <1>2, <2>3, <2>4, <2>5
<1>5. CASE own = 0 /\ ~R!IsConfigured(s, p) /\ (create \/ R!is_key_a_parent_key(s, p))
  <2>1. b = R!AddKey([s EXCEPT !.deleted = s.deleted \ {p}], R!RegKey(p, R!NoValue)) BY DEF RegInv, Registries
  <2>2. RegInv(b, w) /\ Len(b.objs) = Len(s.objs) + 1
    BY <1>1, <1>5, <2>1, NewKeys, AddingAKey
  <2>3. Len(b.objs) \in DOMAIN b.objs BY <2>2 DEF RegInv, Registries, Positions
  <2>4. t = R!new_handle(b, Len(b.objs)) BY <1>5 DEF R!open_key, R!get_key_handle, R!Newest
  <2> QED BY <1>2, <2>2, <2>3, <2>4
<1>6. CASE own = 0 /\ ~R!IsConfigured(s, p) /\ ~(create \/ R!is_key_a_parent_key(s, p))
  BY <1>6 DEF R!open_key, R!get_key_handle
<1> QED BY <1>3, <1>4, <1>5, <1>6

\* What stays of a sequence when the element at a place goes.
LEMMA RemovedAt ==
  ASSUME NEW S, NEW seq \in Seq(S), NEW i \in 1 .. Len(seq)
  PROVE  LET t == R!RemoveAt(seq, i)
         IN  /\ t \in Seq(S) /\ Len(t) = Len(seq) - 1
             /\ \A j \in 1 .. (Len(seq) - 1) : t[j] = IF j < i THEN seq[j] ELSE seq[j + 1]
<1> DEFINE a == SubSeq(seq, 1, i - 1)
           b == SubSeq(seq, i + 1, Len(seq))
<1>1. Len(seq) \in Nat /\ i \in Nat /\ i <= Len(seq) /\ i >= 1 /\ \A j \in 1 .. Len(seq) : seq[j] \in S
  BY ElementOfSeq
<1>2. a \in Seq(S) /\ Len(a) = i - 1 /\ \A j \in 1 .. (i - 1) : a[j] = seq[j]
  <2>1. 1 \in Int /\ i - 1 \in Int /\ \A j \in 1 .. (i - 1) : seq[j] \in S BY <1>1
  <2> QED BY <2>1, <1>1, SubSeqProperties
<1>3. b \in Seq(S) /\ Len(b) = Len(seq) - i /\ \A j \in 1 .. (Len(seq) - i) : b[j] = seq[i + j]
  <2>1. i + 1 \in Int /\ Len(seq) \in Int /\ \A j \in (i + 1) .. Len(seq) : seq[j] \in S BY <1>1
  <2> QED BY <2>1, <1>1, SubSeqProperties
<1> HIDE DEF a, b
<1>4. /\ a \o b \in Seq(S) /\ Len(a \o b) = Len(a) + Len(b)
      /\ \A j \in 1 .. (Len(a) + Len(b)) : (a \o b)[j] = IF j <= Len(a) THEN a[j] ELSE b[j - Len(a)]
  BY <1>2, <1>3, ConcatProperties
<1>5. Len(a \o b) = Len(seq) - 1 BY <1>1, <1>2, <1>3, <1>4
<1>6. ASSUME NEW j \in 1 .. (Len(seq) - 1)
      PROVE  (a \o b)[j] = IF j < i THEN seq[j] ELSE seq[j + 1]
  <2>1. CASE j < i BY <2>1, <1>1, <1>2, <1>3, <1>4
  <2>2. CASE ~(j < i)
    <3>1. j - Len(a) \in 1 .. (Len(seq) - i) /\ i + (j - Len(a)) = j + 1 BY <2>2, <1>1, <1>2
    <3>2. (a \o b)[j] = b[j - Len(a)] BY <2>2, <1>1, <1>2, <1>3, <1>4
    <3> QED BY <2>2, <3>1, <3>2, <1>3
  <2> QED BY <2>1, <2>2
<1>7. R!RemoveAt(seq, i) = a \o b BY DEF R!RemoveAt, a, b
<1> QED BY <1>4, <1>5, <1>6, <1>7

\* Removing the only position of a key.
LEMMA RemovedFirst ==
  ASSUME NEW seq \in Seq(Nat), \A i, j \in DOMAIN seq : seq[i] = seq[j] => i = j, NEW i \in 1 .. Len(seq)
  PROVE  R!RemoveFirst(seq, seq[i]) = R!RemoveAt(seq, i)
<1>1. Len(seq) \in Nat /\ DOMAIN seq = 1 .. Len(seq) BY LenProperties
<1> DEFINE e == seq[i]
           at == {j \in 1 .. Len(seq) : seq[j] = e}
<1>2. at = {i} BY <1>1
<1>3. R!Min(at) = i
  <2>1. i \in at /\ (\A y \in at : y = i) /\ i <= i BY <1>2, <1>1
  <2> HIDE DEF at
  <2> QED BY <2>1 DEF R!Min
<1>4. R!SelectInSeq(seq, LAMBDA v : v = e) = R!Min(at)
  BY <1>2 DEF R!SelectInSeq
<1>5. R!RemoveFirst(seq, e) = R!RemoveAt(seq, R!SelectInSeq(seq, LAMBDA v : v = e))
  BY DEF R!RemoveFirst
<1> QED BY <1>3, <1>4, <1>5

\* What stays of a sequence without repetitions from which an element is removed.
LEMMA Removed ==
  ASSUME NEW seq \in Seq(Nat), \A i, j \in DOMAIN seq : seq[i] = seq[j] => i = j, NEW e
  PROVE  LET t == R!RemoveFirst(seq, e)
         IN  /\ t \in Seq(Nat)
             /\ \A j \in DOMAIN t : \E i \in DOMAIN seq : t[j] = seq[i] /\ seq[i] # e
             /\ \A i \in DOMAIN seq : seq[i] # e => \E j \in DOMAIN t : t[j] = seq[i]
             /\ \A i, j \in DOMAIN t : t[i] = t[j] => i = j
<1> DEFINE t == R!RemoveFirst(seq, e)
<1>1. DOMAIN seq = 1 .. Len(seq) /\ Len(seq) \in Nat BY LenProperties
<1>2. CASE \A i \in DOMAIN seq : seq[i] # e
  <2>1. t = seq BY <1>2, <1>1 DEF R!RemoveFirst
  <2> HIDE DEF t
  <2> QED BY <2>1, <1>2 DEF t
<1>3. CASE \E i \in DOMAIN seq : seq[i] = e
  <2>1. PICK i \in 1 .. Len(seq) : seq[i] = e BY <1>3, <1>1
  <2>2. t = R!RemoveAt(seq, i) BY <2>1, RemovedFirst
  <2> HIDE DEF t
  <2>3. /\ t \in Seq(Nat) /\ Len(t) = Len(seq) - 1
        /\ \A j \in 1 .. (Len(seq) - 1) : t[j] = IF j < i THEN seq[j] ELSE seq[j + 1]
    <3> DEFINE r == R!RemoveAt(seq, i)
    <3>1. /\ r \in Seq(Nat) /\ Len(r) = Len(seq) - 1
          /\ \A j \in 1 .. (Len(seq) - 1) : r[j] = IF j < i THEN seq[j] ELSE seq[j + 1]
      BY RemovedAt
    <3> HIDE DEF r
    <3> QED BY <2>2, <3>1 DEF r
  <2>4. DOMAIN t = 1 .. (Len(seq) - 1) BY <2>3, LenProperties
  <2>5. ASSUME NEW j \in DOMAIN t PROVE \E x \in DOMAIN seq : t[j] = seq[x] /\ seq[x] # e
    <3>1. CASE j < i
      <4>1. j \in DOMAIN seq /\ t[j] = seq[j] /\ j # i BY <3>1, <1>1, <2>3, <2>4
      <4> QED BY <4>1, <1>1, <2>1
    <3>2. CASE ~(j < i)
      <4>1. j + 1 \in DOMAIN seq /\ t[j] = seq[j + 1] /\ j + 1 # i BY <3>2, <1>1, <2>3, <2>4, SMTT(60)
      <4> QED BY <4>1, <1>1, <2>1
    <3> QED BY <3>1, <3>2
  <2>6. ASSUME NEW x \in DOMAIN seq, seq[x] # e PROVE \E j \in DOMAIN t : t[j] = seq[x]
    <3>1. x # i BY <2>6, <2>1
    <3>2. CASE x < i
      <4>1. x \in DOMAIN t /\ t[x] = seq[x] BY <3>2, <1>1, <2>3, <2>4, SMTT(60)
      <4> QED BY <4>1
    <3>3. CASE x > i
      <4>1. x - 1 \in DOMAIN t /\ t[x - 1] = seq[x] BY <3>3, <1>1, <2>3, <2>4, SMTT(60)
      <4> QED BY <4>1
    <3> QED BY <3>1, <3>2, <3>3, <1>1
  <2>7. ASSUME NEW x \in DOMAIN t, NEW y \in DOMAIN t, t[x] = t[y] PROVE x = y
    <3> DEFINE at(z) == IF z < i THEN z ELSE z + 1
    <3>1. ASSUME NEW z \in DOMAIN t PROVE at(z) \in DOMAIN seq /\ t[z] = seq[at(z)]
      <4>0. z \in 1 .. (Len(seq) - 1) BY <2>4
      <4>1. z \in Nat /\ z + 1 <= Len(seq) /\ t[z] = IF z < i THEN seq[z] ELSE seq[z + 1]
        <5>1. t[z] = IF z < i THEN seq[z] ELSE seq[z + 1] BY <4>0, <2>3
        <5> QED BY <4>0, <5>1, <1>1
      <4>2. CASE z < i BY <4>1, <4>2, <1>1, <2>4
      <4>3. CASE ~(z < i) BY <4>1, <4>3, <1>1, <2>4
      <4> QED BY <4>2, <4>3
    <3>2. at(x) = at(y) BY <2>7, <3>1
    <3> QED BY <3>2, <1>1, <2>4
  <2> QED BY <2>3, <2>5, <2>6, <2>7 DEF t
<1> QED BY <1>2, <1>3

\* Deleting a key leaves its path without a listed key, or with one that the configuration did not give.
LEMMA DeletingAKey ==
  ASSUME NEW s, NEW w, RegInv(s, w), NEW h, R!get_key(s, h) # 0
  PROVE  RegInv(R!delete_key(s, h), w \cup {s.objs[R!get_key(s, h)].path})
<1> DEFINE k == R!get_key(s, h)
           p == s.objs[k].path
           ks == R!RemoveFirst(s.keys, k)
           t == R!delete_key(s, h)
           v == w \cup {p}
<1>1. /\ s = [objs |-> s.objs, keys |-> s.keys, deleted |-> s.deleted, handles |-> s.handles]
      /\ s.objs \in Seq(RegObject) /\ s.keys \in Seq(Nat) /\ s.handles \in Seq(Nat) /\ s.deleted \subseteq KeyPaths
      /\ k \in DOMAIN s.objs
  BY GotKey DEF RegInv, Registries
<1>2. p \in KeyPaths /\ k \in Nat
  <2>1. DOMAIN s.objs = 1 .. Len(s.objs) /\ Len(s.objs) \in Nat BY <1>1, LenProperties
  <2>2. s.objs[k] \in RegObject BY <1>1, <2>1, ElementOfSeq
  <2> QED BY <1>1, <2>1, <2>2 DEF RegObject
<1>3. t = [objs |-> s.objs, keys |-> ks, deleted |-> s.deleted \cup {p}, handles |-> s.handles]
  <2>1. t = [s EXCEPT !.keys = ks, !.deleted = s.deleted \cup {p}] BY DEF R!delete_key
  <2> HIDE DEF ks, p, t
  <2> QED BY <1>1, <2>1
<1>4. \A i, j \in DOMAIN s.keys : s.keys[i] = s.keys[j] => i = j
  BY DEF RegInv, Positions
\* The positions of the keys that stay.
<1>5. /\ ks \in Seq(Nat)
      /\ \A j \in DOMAIN ks : \E i \in DOMAIN s.keys : ks[j] = s.keys[i] /\ s.keys[i] # k
      /\ \A i \in DOMAIN s.keys : s.keys[i] # k => \E j \in DOMAIN ks : ks[j] = s.keys[i]
      /\ \A i, j \in DOMAIN ks : ks[i] = ks[j] => i = j
  BY <1>1, <1>4, Removed
<1> HIDE DEF ks, k, t, p
<1>6. t.objs = s.objs /\ t.keys = ks /\ t.deleted = s.deleted \cup {p} /\ t.handles = s.handles BY <1>3
<1>7. t \in Registries BY <1>1, <1>2, <1>3, <1>5 DEF Registries
<1>8. Positions(t)
  <2>1. Positions(s) BY DEF RegInv
  <2>2. \A i \in DOMAIN ks : ks[i] \in DOMAIN s.objs BY <2>1, <1>5 DEF Positions
  <2> QED BY <2>1, <2>2, <1>5, <1>6 DEF Positions
<1>9. OneKey(t)
  <2>1. ASSUME NEW i \in DOMAIN ks, NEW j \in DOMAIN ks, s.objs[ks[i]].path = s.objs[ks[j]].path,
               R!FindsItself(s.objs[ks[i]].path)
        PROVE  i = j
    <3>1. PICK x \in DOMAIN s.keys : ks[i] = s.keys[x] BY <1>5
    <3>2. PICK y \in DOMAIN s.keys : ks[j] = s.keys[y] BY <1>5
    <3>3. x = y BY <2>1, <3>1, <3>2 DEF RegInv, OneKey
    <3> QED BY <3>1, <3>2, <3>3, <1>5
  <2> QED BY <2>1, <1>6 DEF OneKey
<1>10. \A q \in v : q \in t.deleted \/ Listed(t, q)
  <2>1. ASSUME NEW q \in w, q \notin t.deleted PROVE Listed(t, q)
    <3>1. q # p /\ Listed(s, q) BY <2>1, <1>6 DEF RegInv, Marked
    <3>2. PICK i \in DOMAIN s.keys : s.objs[s.keys[i]].path = q BY <3>1 DEF Listed
    <3>3. s.keys[i] # k BY <3>1, <3>2 DEF p
    <3>4. PICK j \in DOMAIN ks : ks[j] = s.keys[i] BY <3>3, <1>5
    <3> QED BY <3>2, <3>4, <1>6 DEF Listed
  <2> QED BY <2>1, <1>6
<1>11. \A o \in DOMAIN t.objs : t.objs[o].path \in v \/ \E i \in DOMAIN t.keys : t.keys[i] = o
  <2>1. ASSUME NEW o \in DOMAIN s.objs, s.objs[o].path \notin v PROVE \E i \in DOMAIN ks : ks[i] = o
    <3>1. PICK i \in DOMAIN s.keys : s.keys[i] = o BY <2>1 DEF RegInv, Marked
    <3>2. s.keys[i] # k BY <2>1, <3>1 DEF p
    <3> QED BY <3>1, <3>2, <1>5
  <2> QED BY <2>1, <1>6
<1>12. Marked(t, v)
  <2>1. t.deleted \subseteq v /\ v \subseteq KeyPaths BY <1>2, <1>6 DEF RegInv, Marked
  <2> QED BY <2>1, <1>10, <1>11 DEF Marked
<1>13. NotFromConfig(t, v)
  <2>1. ASSUME NEW i \in DOMAIN ks, s.objs[ks[i]].path \in v, R!FindsItself(s.objs[ks[i]].path)
        PROVE  s.objs[ks[i]].value.from # "config"
    <3>1. PICK x \in DOMAIN s.keys : ks[i] = s.keys[x] /\ s.keys[x] # k BY <1>5
    <3>2. CASE s.objs[ks[i]].path \in w BY <2>1, <3>1, <3>2 DEF RegInv, NotFromConfig
    <3>3. CASE s.objs[ks[i]].path = p
      \* The key that was deleted is not the listed one of its path: the path was deleted before.
      <4>1. ~\E y \in DOMAIN s.keys : s.keys[y] = k
        BY <2>1, <3>1, <3>3 DEF RegInv, OneKey, p
      <4>2. p \in w BY <4>1, <1>1 DEF RegInv, Marked, p
      <4> QED BY <2>1, <3>1, <3>3, <4>2 DEF RegInv, NotFromConfig
    <3> QED BY <2>1, <3>2, <3>3
  <2> QED BY <2>1, <1>6 DEF NotFromConfig
<1> QED BY <1>7, <1>8, <1>9, <1>12, <1>13 DEF RegInv, t, k, p

\* The value of an object is set or deleted by the guest.
LEMMA ChangingAValue ==
  ASSUME NEW s, NEW w, RegInv(s, w), NEW k \in DOMAIN s.objs, NEW v \in Value, v.from # "config"
  PROVE  RegInv([s EXCEPT !.objs[k].value = v], w)
<1> DEFINE os == [s.objs EXCEPT ![k] = [path |-> s.objs[k].path, value |-> v]]
           t == [s EXCEPT !.objs[k].value = v]
<1>1. /\ s = [objs |-> s.objs, keys |-> s.keys, deleted |-> s.deleted, handles |-> s.handles]
      /\ s.objs \in Seq(RegObject) /\ s.keys \in Seq(Nat) /\ s.handles \in Seq(Nat) /\ s.deleted \subseteq KeyPaths
      /\ DOMAIN s.objs = 1 .. Len(s.objs)
  BY LenProperties DEF RegInv, Registries
<1>2. s.objs[k] \in RegObject BY <1>1, ElementOfSeq
<1>3. s.objs[k] = [path |-> s.objs[k].path, value |-> s.objs[k].value] /\ s.objs[k].path \in KeyPaths
  BY <1>2 DEF RegObject
<1>4. [s.objs[k] EXCEPT !.value = v] = [path |-> s.objs[k].path, value |-> v] BY <1>3
<1>5. t = [objs |-> os, keys |-> s.keys, deleted |-> s.deleted, handles |-> s.handles]
  <2>1. t = [s EXCEPT !.objs = [s.objs EXCEPT ![k] = [s.objs[k] EXCEPT !.value = v]]] OBVIOUS
  <2>2. t = [s EXCEPT !.objs = os] BY <2>1, <1>4
  <2> HIDE DEF t, os
  <2> QED BY <2>2, <1>1
<1>6. /\ os \in Seq(RegObject) /\ Len(os) = Len(s.objs) /\ DOMAIN os = DOMAIN s.objs
      /\ \A i \in DOMAIN s.objs : os[i].path = s.objs[i].path
      /\ \A i \in DOMAIN s.objs : os[i].value = IF i = k THEN v ELSE s.objs[i].value
  <2>1. [path |-> s.objs[k].path, value |-> v] \in RegObject BY <1>3 DEF RegObject
  <2>2. /\ os \in Seq(RegObject) /\ Len(os) = Len(s.objs)
        /\ \A i \in 1 .. Len(s.objs) : os[i] = IF i = k THEN [path |-> s.objs[k].path, value |-> v] ELSE s.objs[i]
    BY <1>1, <2>1, ExceptSeq
  <2>3. DOMAIN os = DOMAIN s.objs BY <1>1, <2>2, LenProperties
  <2> HIDE DEF os
  <2>4. \A i \in DOMAIN s.objs : os[i].path = s.objs[i].path BY <1>1, <2>2
  <2>5. \A i \in DOMAIN s.objs : os[i].value = IF i = k THEN v ELSE s.objs[i].value BY <1>1, <2>2
  <2> QED BY <2>2, <2>3, <2>4, <2>5
<1> HIDE DEF os, t
<1>7. t.objs = os /\ t.keys = s.keys /\ t.deleted = s.deleted /\ t.handles = s.handles BY <1>5
<1>8. t \in Registries BY <1>1, <1>5, <1>6 DEF Registries
<1>9. Positions(t) BY <1>6, <1>7 DEF RegInv, Positions
<1>10. \A i \in DOMAIN s.keys : s.keys[i] \in DOMAIN s.objs BY DEF RegInv, Positions
<1>11. OneKey(t) BY <1>6, <1>7, <1>10 DEF RegInv, OneKey
<1>12. Marked(t, w)
  <2>1. \A q : Listed(s, q) => Listed(t, q) BY <1>6, <1>7, <1>10 DEF Listed
  <2> QED BY <2>1, <1>6, <1>7 DEF RegInv, Marked
<1>13. NotFromConfig(t, w) BY <1>6, <1>7, <1>10 DEF RegInv, NotFromConfig
<1> QED BY <1>8, <1>9, <1>11, <1>12, <1>13 DEF RegInv, t

\* A closed handle names no object, the others what they named.
LEMMA ClosingAHandle ==
  ASSUME NEW s, NEW w, RegInv(s, w), NEW h, h # 0, R!get_key(s, h) # 0
  PROVE  RegInv(R!close_key(s, h), w)
<1> DEFINE hs == [s.handles EXCEPT ![h] = 0]
           t == R!close_key(s, h)
<1>1. /\ s = [objs |-> s.objs, keys |-> s.keys, deleted |-> s.deleted, handles |-> s.handles]
      /\ s.objs \in Seq(RegObject) /\ s.keys \in Seq(Nat) /\ s.handles \in Seq(Nat) /\ s.deleted \subseteq KeyPaths
      /\ DOMAIN s.handles = 1 .. Len(s.handles) /\ Len(s.objs) \in Nat
  BY LenProperties DEF RegInv, Registries
<1>2. h \in DOMAIN s.handles BY DEF R!get_key
<1>3. /\ hs \in Seq(Nat) /\ DOMAIN hs = DOMAIN s.handles
      /\ \A i \in DOMAIN s.handles : hs[i] = IF i = h THEN 0 ELSE s.handles[i]
  <2>1. 0 \in Nat OBVIOUS
  <2> QED BY <1>1, <1>2, <2>1, ExceptSeq
<1>4. t = [objs |-> s.objs, keys |-> s.keys, deleted |-> s.deleted, handles |-> hs]
  <2>1. t = [s EXCEPT !.handles = hs] BY DEF R!close_key
  <2> HIDE DEF t, hs
  <2> QED BY <1>1, <2>1
<1> HIDE DEF hs, t
<1>5. t.objs = s.objs /\ t.keys = s.keys /\ t.deleted = s.deleted /\ t.handles = hs BY <1>4
<1>6. t \in Registries BY <1>1, <1>3, <1>4 DEF Registries
<1>7. Positions(t)
  <2>1. Positions(s) BY DEF RegInv
  <2>2. ASSUME NEW i \in DOMAIN hs PROVE hs[i] \in 0 .. Len(s.objs)
    <3>1. i \in DOMAIN s.handles /\ s.handles[i] \in 0 .. Len(s.objs) BY <2>1, <1>3 DEF Positions
    <3>2. hs[i] = 0 \/ hs[i] = s.handles[i] BY <3>1, <1>3
    <3> QED BY <3>1, <3>2, <1>1
  <2> QED BY <2>1, <2>2, <1>5 DEF Positions
<1>8. OneKey(t) /\ Marked(t, w) /\ NotFromConfig(t, w) BY <1>5 DEF RegInv, OneKey, Marked, NotFromConfig, Listed
<1> QED BY <1>6, <1>7, <1>8 DEF RegInv, t

-----------------------------------------------------------------------------
Errors == {"none", "handle", "notfound", "more", "nomore"}

\* A call leaves a whole registry, and puts no more bytes into a buffer than it holds.
RegKept == RegInv(reg', wiped') /\ reg_res'.err \in Errors /\ reg_res'.put <= reg_res'.room

\* A call that fails leaves the registry alone.
LEMMA RegFails ==
  ASSUME RegInv(reg, wiped), NEW e \in Errors, R!Fails(e)
  PROVE  RegKept
BY DEF RegKept, R!Fails, R!Tell, Errors

\* A call that writes no buffer keeps what its new tables keep.
LEMMA RegDoes ==
  ASSUME NEW s, RegInv(s, wiped), R!Does(s)
  PROVE  RegKept
BY DEF RegKept, R!Does, R!Tell, Errors

\* A query writes no more than its room, and keeps the registry.
LEMMA RegQueries ==
  ASSUME NEW v \in Value, NEW room \in 0 .. MaxBytes, R!Query(v, room), NEW s, RegInv(s, wiped),
         reg' = s, wiped' = wiped
  PROVE  RegKept
<1>1. v.bytes \in Nat /\ room \in Nat BY RegistryAssumption DEF Value
<1>2. reg_res'.err \in Errors /\ reg_res'.put <= reg_res'.room
  BY <1>1 DEF R!Query, R!Tell, Errors
<1> QED BY <1>2 DEF RegKept

\* The path that a handle and a subkey name.
LEMMA SubIsPath ==
  ASSUME RegInv(reg, wiped), NEW k \in DOMAIN reg.objs, NEW q, R!IsSub(k, q)
  PROVE  R!Sub(k, q) \in KeyPaths /\ (q # "itself" => q \in KeyPaths)
<1>1. reg.objs[k].path \in KeyPaths
  <2>1. reg.objs \in Seq(RegObject) BY DEF RegInv, Registries
  <2>2. reg.objs[k] \in RegObject BY <2>1, LenProperties, ElementOfSeq
  <2> QED BY <2>2 DEF RegObject
<1> QED BY <1>1 DEF R!Sub, R!IsSub, R!Below

\* A key has a value.
LEMMA ValueOfKey ==
  ASSUME NEW s, NEW w, RegInv(s, w), NEW k \in DOMAIN s.objs
  PROVE  R!read_value(s, k) \in Value
<1>1. s.objs \in Seq(RegObject) BY DEF RegInv, Registries
<1>2. s.objs[k] \in RegObject BY <1>1, LenProperties, ElementOfSeq
<1> QED BY <1>2 DEF RegObject, R!read_value

\* The calls that open a key.
LEMMA RegOpens ==
  ASSUME RegInv(reg, wiped), NEW h, NEW q, NEW fresh \in BOOLEAN, R!open_key_api(h, q, fresh)
  PROVE  RegKept
<1> DEFINE k == R!get_key(reg, h)
           s == R!open_key(reg, R!Sub(k, q), FALSE)
<1>1. CASE k = 0
  <2>1. R!Fails("handle") BY <1>1 DEF R!open_key_api
  <2> QED BY <2>1, RegFails DEF Errors
<1>2. CASE k # 0
  <2>1. k \in DOMAIN reg.objs BY <1>2, GotKey
  <2>2. R!IsSub(k, q) BY <1>2 DEF R!open_key_api
  <2>3. R!Says \/ R!Fails("notfound") \/ R!Does(s) BY <1>2 DEF R!open_key_api
  <2>4. RegInv(s, wiped)
    <3>1. R!Sub(k, q) \in KeyPaths BY <2>1, <2>2, SubIsPath
    <3> HIDE DEF k
    <3> QED BY <3>1, OpeningAKey
  <2> HIDE DEF s, k
  <2> QED BY <2>3, <2>4, RegFails, RegDoes DEF Errors, R!Says
<1> QED BY <1>1, <1>2

\* The calls that create a key.
LEMMA RegCreates ==
  ASSUME RegInv(reg, wiped), NEW h, NEW q, R!RegCreateKey(h, q) \/ R!RegCreateKeyEx(h, q) \/ R!ZwCreateKey(h, q)
  PROVE  RegKept
<1> DEFINE k == R!get_key(reg, h)
           s == R!open_key(reg, R!Sub(k, q), TRUE)
           t == R!open_key(reg, q, TRUE)
<1>1. CASE R!Fails("handle") BY <1>1, RegFails DEF Errors
<1>2. CASE k # 0 /\ R!IsSub(k, q) /\ (R!Says \/ R!Does(s) \/ (q # "itself" /\ R!Does(t)))
  <2>1. k \in DOMAIN reg.objs BY <1>2, GotKey
  <2>2. R!Sub(k, q) \in KeyPaths /\ (q # "itself" => q \in KeyPaths) BY <1>2, <2>1, SubIsPath
  <2>3. CASE R!Says BY <2>3, RegFails DEF Errors, R!Says
  <2>4. CASE R!Does(s)
    <3> HIDE DEF k
    <3>1. RegInv(s, wiped) BY <2>2, OpeningAKey
    <3> HIDE DEF s
    <3> QED BY <2>4, <3>1, RegDoes
  <2>5. CASE q # "itself" /\ R!Does(t)
    <3>1. RegInv(t, wiped) BY <2>2, <2>5, OpeningAKey
    <3> HIDE DEF t
    <3> QED BY <2>5, <3>1, RegDoes
  <2> HIDE DEF s, k, t
  <2> QED BY <1>2, <2>3, <2>4, <2>5
<1> QED
  <2>1. R!Fails("handle") \/ (k # 0 /\ R!IsSub(k, q) /\ (R!Says \/ R!Does(s) \/ (q # "itself" /\ R!Does(t))))
    BY DEF R!RegCreateKey, R!RegCreateKeyEx, R!ZwCreateKey
  <2> HIDE DEF s, k, t
  <2> QED BY <1>1, <1>2, <2>1

\* RegCloseKey.
LEMMA RegCloses ==
  ASSUME RegInv(reg, wiped), NEW h, R!RegCloseKey(h)
  PROVE  RegKept
<1>1. CASE R!Says \/ R!Fails("handle") BY <1>1, RegFails DEF Errors, R!Says
<1>2. CASE h # 0 /\ R!get_key(reg, h) # 0 /\ R!Does(R!close_key(reg, h))
  BY <1>2, ClosingAHandle, RegDoes
<1> QED BY <1>1, <1>2 DEF R!RegCloseKey

\* RegSetValueEx.
LEMMA RegSetsValue ==
  ASSUME RegInv(reg, wiped), NEW h, NEW bytes \in 0 .. MaxBytes, R!RegSetValueEx(h, bytes)
  PROVE  RegKept
<1> DEFINE k == R!get_key(reg, h)
           v == [from |-> "guest", bytes |-> bytes]
<1>1. CASE R!Fails("handle") BY <1>1, RegFails DEF Errors
<1>2. CASE k # 0 /\ R!Does(R!write_value(reg, k, bytes))
  <2>1. k \in DOMAIN reg.objs BY <1>2, GotKey
  <2>2. v \in Value /\ v.from # "config" BY DEF Value
  <2>3. R!write_value(reg, k, bytes) = [reg EXCEPT !.objs[k].value = v] BY DEF R!write_value
  <2> HIDE DEF v, k
  <2>4. RegInv([reg EXCEPT !.objs[k].value = v], wiped) BY <2>1, <2>2, ChangingAValue
  <2> QED BY <1>2, <2>3, <2>4, RegDoes
<1> QED BY <1>1, <1>2 DEF R!RegSetValueEx

\* RegDeleteValue.
LEMMA RegDeletesValue ==
  ASSUME RegInv(reg, wiped), NEW h, R!RegDeleteValue(h)
  PROVE  RegKept
<1> DEFINE k == R!get_key(reg, h)
<1>1. CASE R!Fails("handle") \/ R!Fails("notfound") BY <1>1, RegFails DEF Errors
<1>2. CASE k # 0 /\ R!Does(R!delete_value(reg, k))
  <2>1. k \in DOMAIN reg.objs BY <1>2, GotKey
  <2>2. R!delete_value(reg, k) = [reg EXCEPT !.objs[k].value = R!NoValue] BY DEF R!delete_value
  <2> HIDE DEF k
  <2>3. RegInv([reg EXCEPT !.objs[k].value = R!NoValue], wiped) BY <2>1, NewKeys, ChangingAValue
  <2> QED BY <1>2, <2>2, <2>3, RegDoes
<1> QED BY <1>1, <1>2 DEF R!RegDeleteValue

\* The calls that query one value.
LEMMA RegReads ==
  ASSUME RegInv(reg, wiped), NEW h, NEW room \in 0 .. MaxBytes,
         R!RegQueryValueEx(h, room) \/ R!ZwQueryValueKey(h, room)
  PROVE  RegKept
<1> DEFINE k == R!get_key(reg, h)
           v == R!read_value(reg, k)
<1>1. CASE R!Fails("handle") BY <1>1, RegFails DEF Errors
<1>2. CASE k # 0 /\ R!Query(v, room) /\ UNCHANGED <<reg, wiped>>
  <2>1. v \in Value BY <1>2, GotKey, ValueOfKey
  <2> HIDE DEF v, k
  <2> QED BY <1>2, <2>1, RegQueries
<1> QED BY <1>1, <1>2 DEF R!RegQueryValueEx, R!ZwQueryValueKey

\* RegGetValue, which opens the subkey, queries and closes.
LEMMA RegGetsValue ==
  ASSUME RegInv(reg, wiped), NEW h, NEW q, NEW room \in 0 .. MaxBytes, R!RegGetValue(h, q, room)
  PROVE  RegKept
<1> DEFINE k == R!get_key(reg, h)
           s == R!open_key(reg, R!Sub(k, q), FALSE)
           v == R!read_value(reg, k)
<1>1. CASE R!Fails("handle") \/ R!Fails("notfound") BY <1>1, RegFails DEF Errors
<1>2. CASE k # 0 /\ R!Query(v, room) /\ UNCHANGED <<reg, wiped>>
  <2>1. v \in Value BY <1>2, GotKey, ValueOfKey
  <2> HIDE DEF v, k
  <2> QED BY <1>2, <2>1, RegQueries
<1>3. CASE /\ k # 0 /\ R!IsSub(k, q) /\ s # reg /\ reg' = s /\ wiped' = wiped
           /\ R!Query(R!read_value(s, s.handles[Len(s.handles)]), room)
  <2>1. k \in DOMAIN reg.objs BY <1>3, GotKey
  <2>2. R!Sub(k, q) \in KeyPaths BY <1>3, <2>1, SubIsPath
  <2> HIDE DEF k
  <2>3. RegInv(s, wiped) /\ s.handles[Len(s.handles)] \in DOMAIN s.objs BY <1>3, <2>2, OpeningAKey
  <2> HIDE DEF s
  <2>4. R!read_value(s, s.handles[Len(s.handles)]) \in Value BY <2>3, ValueOfKey
  <2> QED BY <1>3, <2>3, <2>4, RegQueries
<1> QED
  <2>1. \/ R!Fails("handle") \/ R!Fails("notfound")
        \/ k # 0 /\ R!Query(v, room) /\ UNCHANGED <<reg, wiped>>
        \/ /\ k # 0 /\ R!IsSub(k, q) /\ s # reg /\ reg' = s /\ wiped' = wiped
           /\ R!Query(R!read_value(s, s.handles[Len(s.handles)]), room)
    <3>1. R!Last(s.handles) = s.handles[Len(s.handles)] BY DEF R!Last
    <3> QED BY <3>1 DEF R!RegGetValue
  <2> HIDE DEF k, s, v
  <2> QED BY <1>1, <1>2, <1>3, <2>1

\* The calls that enumerate keys.
LEMMA RegEnumerates ==
  ASSUME RegInv(reg, wiped), NEW h, NEW index, NEW room \in 0 .. MaxBytes, R!enum_key(h, index, room)
  PROVE  RegKept
<1>1. CASE R!Fails("handle") \/ R!Fails("nomore") BY <1>1, RegFails DEF Errors
<1>2. CASE (IF room < MaxBytes THEN R!Tell("more", 0, room) ELSE R!Tell("none", MaxBytes, room))
           /\ UNCHANGED <<reg, wiped>>
  BY <1>2, RegistryAssumption DEF RegKept, R!Tell, Errors
<1> QED BY <1>1, <1>2 DEF R!enum_key

\* The kernel calls that open a key by its name.
LEMMA RegOpensByName ==
  ASSUME RegInv(reg, wiped), NEW p \in KeyPaths, R!ZwOpenKey(p)
  PROVE  RegKept
<1> DEFINE s == R!open_key(reg, p, FALSE)
<1>1. RegInv(s, wiped) BY OpeningAKey
<1>2. R!Fails("notfound") \/ R!Does(s) BY DEF R!ZwOpenKey
<1> HIDE DEF s
<1> QED BY <1>1, <1>2, RegFails, RegDoes DEF Errors

\* ZwDeleteKey.
LEMMA RegDeletesKey ==
  ASSUME RegInv(reg, wiped), NEW h, R!ZwDeleteKey(h)
  PROVE  RegKept
<1> DEFINE k == R!get_key(reg, h)
<1>1. CASE R!Fails("handle") BY <1>1, RegFails DEF Errors
<1>2. CASE /\ k # 0 /\ reg' = R!delete_key(reg, h) /\ R!Tell("none", 0, 0)
           /\ wiped' = wiped \cup {reg.objs[k].path}
  <2>1. RegInv(reg', wiped') BY <1>2, DeletingAKey
  <2> QED BY <1>2, <2>1 DEF RegKept, R!Tell, Errors
<1> QED BY <1>1, <1>2 DEF R!ZwDeleteKey

\* Every call keeps the registry's invariant and respects the buffer.
LEMMA RegNext ==
  ASSUME RegInv(reg, wiped), R!Next
  PROVE  RegKept
<1>1. CASE \E h \in R!Handles, q \in R!Subs :
             R!RegOpenKey(h, q) \/ R!RegOpenKeyEx(h, q) \/ R!RegCreateKey(h, q) \/ R!RegCreateKeyEx(h, q)
  BY <1>1, RegOpens, RegCreates DEF R!RegOpenKey, R!RegOpenKeyEx
<1>2. CASE \E h \in R!Handles : R!RegCloseKey(h) \/ R!RegDeleteValue(h) \/ R!RegQueryInfoKey(h)
  <2>1. PICK h \in R!Handles : R!RegCloseKey(h) \/ R!RegDeleteValue(h) \/ R!RegQueryInfoKey(h) BY <1>2
  <2>2. CASE R!RegQueryInfoKey(h) BY <2>2, RegFails DEF R!RegQueryInfoKey, R!Says, Errors
  <2> QED BY <2>1, <2>2, RegCloses, RegDeletesValue
<1>3. CASE \E h \in R!Handles, n \in R!Rooms : R!RegSetValueEx(h, n) \/ R!RegQueryValueEx(h, n)
  BY <1>3, RegSetsValue, RegReads DEF R!Rooms
<1>4. CASE \E h \in R!Handles, q \in R!Subs, n \in R!Rooms : R!RegGetValue(h, q, n)
  BY <1>4, RegGetsValue DEF R!Rooms
<1>5. CASE \E h \in R!Handles, i \in 0 .. 1, n \in R!Rooms : R!RegEnumKey(h, i, n) \/ R!RegEnumKeyEx(h, i, n)
  BY <1>5, RegEnumerates DEF R!Rooms, R!RegEnumKey, R!RegEnumKeyEx
<1>6. CASE \E p \in KeyPaths : R!ZwOpenKey(p)
  BY <1>6, RegOpensByName
<1>7. CASE \E h \in R!Handles, q \in R!Subs : R!ZwCreateKey(h, q)
  BY <1>7, RegCreates
<1>8. CASE \E h \in R!Handles, n \in R!Rooms : R!ZwSetValueKey(h, n) \/ R!ZwQueryValueKey(h, n)
  BY <1>8, RegSetsValue, RegReads DEF R!Rooms, R!ZwSetValueKey
<1>9. CASE \E h \in R!Handles \ {0} : R!ZwDeleteKey(h)
  BY <1>9, RegDeletesKey
<1> QED BY <1>1, <1>2, <1>3, <1>4, <1>5, <1>6, <1>7, <1>8, <1>9 DEF R!Next

\* A table of the registry from its fields.
LEMMA RegistryRecord ==
  ASSUME NEW a, NEW b, NEW c, NEW d, NEW x
  PROVE  LET r == [objs |-> a, keys |-> b, deleted |-> c, handles |-> d]
         IN  /\ [r EXCEPT !.objs = x] = [objs |-> x, keys |-> b, deleted |-> c, handles |-> d]
             /\ [r EXCEPT !.deleted = x] = [objs |-> a, keys |-> b, deleted |-> x, handles |-> d]
OBVIOUS

\* The registry of a new process is whole.
LEMMA RegInit ==
  ASSUME R!Init
  PROVE  RegInv(reg, wiped) /\ reg_res.err \in Errors
<1> DEFINE e == [objs |-> <<>>, keys |-> <<>>, deleted |-> {}, handles |-> <<>>]
<1>1. reg = R!create_key(e, Root) /\ wiped = {} BY DEF R!Init
<1>2. e.objs = <<>> /\ e.keys = <<>> /\ e.deleted = {} /\ e.handles = <<>> OBVIOUS
<1>3. R!get_key_from_path(e, Root) = 0
  <2>1. DOMAIN e.keys = {} BY <1>2
  <2> HIDE DEF e
  <2> QED BY <2>1 DEF R!get_key_from_path
<1>4. PICK k \in RegObject : reg = [objs |-> <<k>>, keys |-> <<1>>, deleted |-> {}, handles |-> <<>>]
  <2>1. ASSUME NEW k \in RegObject, NEW d, d = [objs |-> <<>>, keys |-> <<>>, deleted |-> {}, handles |-> <<>>]
        PROVE  R!AddKey(d, k) = [objs |-> <<k>>, keys |-> <<1>>, deleted |-> {}, handles |-> <<>>]
    <3>1. d.objs = <<>> /\ d.keys = <<>> /\ Len(<<>>) = 0 BY <2>1
    <3>2. Append(<<>>, k) = <<k>> /\ Append(<<>>, 0 + 1) = <<1>> OBVIOUS
    <3> DEFINE v == [d EXCEPT !.objs = <<k>>]
    <3>3. v = [objs |-> <<k>>, keys |-> <<>>, deleted |-> {}, handles |-> <<>>]
      <4>1. v = [[objs |-> <<>>, keys |-> <<>>, deleted |-> {}, handles |-> <<>>] EXCEPT !.objs = <<k>>] BY <2>1
      <4> HIDE DEF v
      <4> QED BY <4>1, RegistryRecord
    <3>4. R!AddKey(d, k) = [v EXCEPT !.keys = <<1>>] BY <3>1, <3>2 DEF R!AddKey
    <3> HIDE DEF v
    <3> QED BY <3>3, <3>4
  <2>2. CASE R!IsConfigured(e, Root)
    <3>1. reg = R!AddKey(e, R!get_key_from_config(Root)) BY <1>1, <1>3, <2>2 DEF R!create_key
    <3>2. R!get_key_from_config(Root) \in RegObject BY NewKeys, RegistryAssumption
    <3> QED BY <3>1, <3>2, <2>1
  <2>3. CASE ~R!IsConfigured(e, Root)
    <3> DEFINE d == [e EXCEPT !.deleted = {} \ {Root}]
    <3>1. reg = R!AddKey(d, R!RegKey(Root, R!NoValue)) BY <1>1, <1>3, <2>3 DEF R!create_key
    <3>2. R!RegKey(Root, R!NoValue) \in RegObject BY NewKeys, RegistryAssumption
    <3>3. d = [objs |-> <<>>, keys |-> <<>>, deleted |-> {}, handles |-> <<>>]
      <4>1. {} \ {Root} = {} OBVIOUS
      <4>2. d = [e EXCEPT !.deleted = {}] BY <4>1
      <4> HIDE DEF d
      <4> QED BY <4>2, RegistryRecord
    <3> HIDE DEF d
    <3> QED BY <3>1, <3>2, <3>3, <2>1
  <2> QED BY <2>2, <2>3
<1>5. reg.objs = <<k>> /\ reg.keys = <<1>> /\ reg.deleted = {} /\ reg.handles = <<>> BY <1>4
<1>6. /\ <<k>> \in Seq(RegObject) /\ <<1>> \in Seq(Nat) /\ Len(<<k>>) = 1 /\ DOMAIN <<k>> = {1} /\ DOMAIN <<1>> = {1}
      /\ <<k>>[1] = k /\ <<1>>[1] = 1 /\ DOMAIN <<>> = {}
  OBVIOUS
<1>7. reg \in Registries BY <1>4, <1>6 DEF Registries
<1>8. Positions(reg) BY <1>5, <1>6 DEF Positions
<1>9. OneKey(reg) BY <1>5, <1>6 DEF OneKey
<1>10. Marked(reg, wiped) BY <1>1, <1>5, <1>6 DEF Marked
<1>11. NotFromConfig(reg, wiped) BY <1>1, <1>5, <1>6 DEF NotFromConfig
<1> QED BY <1>7, <1>8, <1>9, <1>10, <1>11 DEF RegInv, R!Init, Errors

RegistryInv == RegInv(reg, wiped) /\ reg_res.err \in Errors

\* The registry's invariant holds whatever the guest calls (RegistryManager).
THEOREM RegistryInvariance == R!Spec => []RegistryInv
<1>1. R!Init => RegistryInv BY RegInit DEF RegistryInv
<1>2. RegistryInv /\ [R!Next]_R!vars => RegistryInv'
  <2>1. ASSUME RegistryInv, R!Next PROVE RegistryInv'
    <3>1. RegKept BY <2>1, RegNext DEF RegistryInv
    <3> QED BY <3>1 DEF RegKept, RegistryInv
  <2>2. ASSUME RegistryInv, UNCHANGED R!vars PROVE RegistryInv'
    BY <2>2 DEF RegistryInv, R!vars
  <2> QED BY <2>1, <2>2
<1> QED BY <1>1, <1>2, PTL DEF R!Spec

\* The invariant is as strong as the properties.
LEMMA RegistryInvImplies == RegistryInv => R!DeletedValuesStayDeleted /\ R!OneKeyPerPath /\ R!TypeOK
<1> SUFFICES ASSUME RegistryInv PROVE R!DeletedValuesStayDeleted /\ R!OneKeyPerPath /\ R!TypeOK OBVIOUS
<1>1. /\ RegInv(reg, wiped) /\ reg \in Registries /\ Positions(reg) /\ OneKey(reg) /\ Marked(reg, wiped)
      /\ NotFromConfig(reg, wiped)
  BY DEF RegistryInv, RegInv
<1>2. R!OneKeyPerPath BY <1>1 DEF R!OneKeyPerPath, OneKey
<1>3. R!DeletedValuesStayDeleted
  <2>1. \A p \in wiped : p \in reg.deleted \/ \E i \in DOMAIN reg.keys : reg.objs[reg.keys[i]].path = p
    BY <1>1 DEF Marked, Listed
  <2> QED BY <2>1, <1>1 DEF R!DeletedValuesStayDeleted, NotFromConfig
<1>4. R!TypeOK
  <2>1. /\ reg.objs \in Seq(RegObject) /\ reg.keys \in Seq(Nat) /\ reg.handles \in Seq(Nat)
    BY <1>1 DEF Registries
  <2>2. \A i \in DOMAIN reg.objs : reg.objs[i].path \in KeyPaths /\ reg.objs[i].value.bytes \in 0 .. MaxBytes
    <3>1. \A i \in DOMAIN reg.objs : reg.objs[i] \in RegObject BY <2>1, LenProperties, ElementOfSeq
    <3> QED BY <3>1 DEF RegObject, Value
  <2>3. reg.keys \in Seq(DOMAIN reg.objs)
    <3>1. reg.keys \in [1 .. Len(reg.keys) -> Nat] /\ Len(reg.keys) \in Nat BY <2>1, LenProperties
    <3>2. reg.keys \in [1 .. Len(reg.keys) -> DOMAIN reg.objs] BY <3>1, <1>1 DEF Positions
    <3> QED BY <3>1, <3>2, SeqDef
  <2>4. reg.handles \in Seq(0 .. Len(reg.objs))
    <3>1. reg.handles \in [1 .. Len(reg.handles) -> Nat] /\ Len(reg.handles) \in Nat BY <2>1, LenProperties
    <3>2. reg.handles \in [1 .. Len(reg.handles) -> 0 .. Len(reg.objs)] BY <3>1, <1>1 DEF Positions
    <3> QED BY <3>1, <3>2, SeqDef
  <2>5. R!IsInjective(reg.keys)
    BY <1>1 DEF R!IsInjective, Positions
  <2> QED BY <2>2, <2>3, <2>4, <2>5, <1>1 DEF R!TypeOK, Marked, RegistryInv, Errors
<1> QED BY <1>2, <1>3, <1>4

\* A value that the guest deleted does not come back from the configuration, and a path has one key, for any
\* number of keys and handles and whatever fnmatch accepts (delete_key, create_key, get_key_from_path).  Paths
\* that do not match themselves, those with [ ], are left out: such a path gets a key each time it is opened.
THEOREM RegistryKeepsItsState == R!Spec => [](R!TypeOK /\ R!DeletedValuesStayDeleted /\ R!OneKeyPerPath)
BY RegistryInvariance, RegistryInvImplies, PTL

\* A query writes no more than the guest's buffer holds (RegQueryValueEx, RegGetValue, ZwQueryValueKey).
THEOREM RegistryQueries == R!Spec => R!QueriesRespectTheBuffer
<1>1. RegistryInv /\ [R!Next]_R!vars => [reg_res'.put <= reg_res'.room]_R!vars
  BY RegNext DEF RegistryInv, RegKept
<1> QED BY <1>1, RegistryInvariance, PTL DEF R!Spec, R!QueriesRespectTheBuffer
-----------------------------------------------------------------------------
(***************************************************************************)
(* The network.  The objects are a tree of three levels in which an open   *)
(* object is below an open one, and what was read of an answer and what is *)
(* left of it add up to the answer.                                        *)
(***************************************************************************)

\* What is left of an answer: -1 before it is asked for.
Lefts == {-1} \cup 0 .. Answer
NetObject == [kind : N!Kinds, up : Nat, open : BOOLEAN, peer : BOOLEAN, left : Lefts]
NetTables == [objs : Seq(NetObject), http : BOOLEAN]

\* The place of an object in the tree of a table: a session is below an instance, a request below a session.
Placed(objs, h) ==
  /\ objs[h].kind \in {"socket", "instance"} => objs[h].up = 0
  /\ objs[h].kind = "session" => objs[h].up \in 1 .. (h - 1) /\ objs[objs[h].up].kind = "instance"
  /\ objs[h].kind = "request" => objs[h].up \in 1 .. (h - 1) /\ objs[objs[h].up].kind = "session"
  /\ objs[h].open /\ objs[h].up # 0 => objs[objs[h].up].open
  /\ objs[h].kind = "socket" => objs[h].left # -1

NetTree(s) == s \in NetTables /\ \A h \in DOMAIN s.objs : Placed(s.objs, h)

\* What was read and what is left of an answer.
Account(s, tk) ==
  /\ DOMAIN tk = DOMAIN s.objs
  /\ \A h \in DOMAIN s.objs : /\ tk[h] \in Nat
                              /\ s.objs[h].left = -1 => tk[h] = 0
                              /\ s.objs[h].left # -1 => tk[h] + s.objs[h].left = Answer

\* The tables of the kernel sockets.
WskOK(w) == w \in [clients : Seq(1 .. 2), npi : 0 .. 2, sockets : 0 .. 1]

NetInv(s, tk, w) == NetTree(s) /\ Account(s, tk) /\ WskOK(w)
NetKept == NetInv(net', taken', wsk') /\ net_res'.put <= net_res'.room

\* The answers of the old objects are untouched, those of the new ones are whole.
SameLeft(s, t) ==
  /\ DOMAIN s.objs \subseteq DOMAIN t.objs
  /\ \A h \in DOMAIN t.objs : IF h \in DOMAIN s.objs THEN t.objs[h].left = s.objs[h].left ELSE t.objs[h].left \in {-1, Answer}

\* The types of the network's table and of its objects.
LEMMA NetTypes ==
  ASSUME NEW s, NetTree(s)
  PROVE  /\ s = [objs |-> s.objs, http |-> s.http] /\ s.http \in BOOLEAN
         /\ s.objs \in Seq(NetObject) /\ Len(s.objs) \in Nat /\ DOMAIN s.objs = 1 .. Len(s.objs)
         /\ \A h \in DOMAIN s.objs : /\ s.objs[h] \in NetObject /\ h \in Nat /\ h # 0
                                     /\ s.objs[h] = [kind |-> s.objs[h].kind, up |-> s.objs[h].up, open |-> s.objs[h].open,
                                                     peer |-> s.objs[h].peer, left |-> s.objs[h].left]
<1>1. s = [objs |-> s.objs, http |-> s.http] /\ s.http \in BOOLEAN /\ s.objs \in Seq(NetObject)
  BY DEF NetTree, NetTables
<1>2. Len(s.objs) \in Nat /\ DOMAIN s.objs = 1 .. Len(s.objs) BY <1>1, LenProperties
<1>3. \A h \in DOMAIN s.objs : s.objs[h] \in NetObject BY <1>1, <1>2, ElementOfSeq
<1>4. \A h \in DOMAIN s.objs : s.objs[h] = [kind |-> s.objs[h].kind, up |-> s.objs[h].up, open |-> s.objs[h].open,
                                            peer |-> s.objs[h].peer, left |-> s.objs[h].left]
  BY <1>3 DEF NetObject
<1> QED BY <1>1, <1>2, <1>3, <1>4

\* A new object at its place.
LEMMA AddingAnObject ==
  ASSUME NEW s, NetTree(s), NEW o \in NetObject, o.open, o.left \in {-1, Answer},
         \/ o.kind = "socket" /\ o.up = 0 /\ o.left = Answer
         \/ o.kind = "instance" /\ o.up = 0
         \/ o.kind = "session" /\ o.up \in DOMAIN s.objs /\ s.objs[o.up].kind = "instance" /\ s.objs[o.up].open
         \/ o.kind = "request" /\ o.up \in DOMAIN s.objs /\ s.objs[o.up].kind = "session" /\ s.objs[o.up].open
  PROVE  /\ NetTree(N!Add(s, o)) /\ SameLeft(s, N!Add(s, o))
         /\ Len(N!Add(s, o).objs) = Len(s.objs) + 1 /\ Len(s.objs) + 1 \in DOMAIN N!Add(s, o).objs
         /\ N!Add(s, o).objs[Len(s.objs) + 1] = o
<1> DEFINE t == N!Add(s, o)
           n == Len(s.objs) + 1
<1>1. /\ s = [objs |-> s.objs, http |-> s.http] /\ s.http \in BOOLEAN
      /\ s.objs \in Seq(NetObject) /\ Len(s.objs) \in Nat /\ DOMAIN s.objs = 1 .. Len(s.objs)
      /\ \A h \in DOMAIN s.objs : s.objs[h] \in NetObject
  BY NetTypes
<1>2. t = [objs |-> Append(s.objs, o), http |-> s.http] /\ t.objs = Append(s.objs, o)
  <2> DEFINE longer == Append(s.objs, o)
  <2>1. s = [objs |-> s.objs, http |-> s.http] BY <1>1
  <2>2. t = [s EXCEPT !.objs = longer] BY DEF N!Add
  <2> HIDE DEF longer, t
  <2>3. t = [objs |-> longer, http |-> s.http] BY <2>1, <2>2
  <2> QED BY <2>3 DEF longer
<1> HIDE DEF t
<1>3. /\ t.objs \in Seq(NetObject) /\ Len(t.objs) = n
      /\ \A i \in 1 .. n : t.objs[i] = IF i <= Len(s.objs) THEN s.objs[i] ELSE o
  BY <1>1, <1>2, AppendProperties
<1>4. DOMAIN t.objs = 1 .. n BY <1>3, LenProperties
<1>5. /\ \A h \in DOMAIN s.objs : h \in DOMAIN t.objs /\ t.objs[h] = s.objs[h]
      /\ n \in DOMAIN t.objs /\ t.objs[n] = o
      /\ \A h \in DOMAIN t.objs : h \in DOMAIN s.objs \/ h = n
  BY <1>1, <1>3, <1>4
<1>6. t \in NetTables BY <1>1, <1>2, <1>3 DEF NetTables
<1>7. ASSUME NEW h \in DOMAIN s.objs PROVE Placed(t.objs, h)
  <2>1. Placed(s.objs, h) /\ h \in 1 .. Len(s.objs) BY <1>1 DEF NetTree
  <2>2. s.objs[h].up # 0 => s.objs[h].up \in 1 .. (h - 1)
    <3>1. s.objs[h].kind \in N!Kinds BY <1>1 DEF NetObject
    <3> QED BY <3>1, <2>1 DEF Placed, N!Kinds
  <2>3. s.objs[h].up # 0 => s.objs[h].up \in DOMAIN s.objs BY <2>1, <2>2, <1>1
  <2>4. t.objs[h] = s.objs[h] /\ (s.objs[h].up # 0 => t.objs[s.objs[h].up] = s.objs[s.objs[h].up])
    BY <2>3, <1>5
  <2>5. s.objs[h].kind \in {"session", "request"} => s.objs[h].up # 0 BY <2>1 DEF Placed
  <2> QED BY <2>1, <2>4, <2>5 DEF Placed
<1>8. Placed(t.objs, n)
  <2>1. o.kind \in {"session", "request"} => o.up \in 1 .. (n - 1) /\ t.objs[o.up] = s.objs[o.up]
    BY <1>1, <1>5
  <2>2. t.objs[n] = o BY <1>5
  <2>3. o.kind = "socket" => o.left # -1 BY NetworkAssumption
  <2> QED BY <2>1, <2>2, <2>3 DEF Placed
<1>9. NetTree(t) BY <1>5, <1>6, <1>7, <1>8 DEF NetTree
<1>10. SameLeft(s, t) BY <1>5 DEF SameLeft
<1> QED BY <1>3, <1>5, <1>9, <1>10 DEF t

\* A change of one object that keeps its place.
LEMMA ChangingAnObject ==
  ASSUME NEW s, NetTree(s), NEW h \in DOMAIN s.objs, NEW o \in NetObject,
         o.kind = s.objs[h].kind, o.up = s.objs[h].up,
         o.open = s.objs[h].open \/ (o.kind = "socket" /\ ~o.open),
         o.kind = "socket" => o.left # -1,
         NEW t, t = [objs |-> [s.objs EXCEPT ![h] = o], http |-> s.http]
  PROVE  /\ NetTree(t) /\ DOMAIN t.objs = DOMAIN s.objs
         /\ t.objs[h] = o /\ \A x \in DOMAIN s.objs : x # h => t.objs[x] = s.objs[x]
<1>1. /\ s.http \in BOOLEAN
      /\ s.objs \in Seq(NetObject) /\ Len(s.objs) \in Nat /\ DOMAIN s.objs = 1 .. Len(s.objs)
      /\ \A x \in DOMAIN s.objs : s.objs[x] \in NetObject
  BY NetTypes
<1>2. t.objs = [s.objs EXCEPT ![h] = o] /\ t.http = s.http OBVIOUS
<1>3. /\ t.objs \in Seq(NetObject) /\ Len(t.objs) = Len(s.objs)
      /\ \A x \in 1 .. Len(s.objs) : t.objs[x] = IF x = h THEN o ELSE s.objs[x]
  BY <1>1, <1>2, ExceptSeq
<1>4. DOMAIN t.objs = DOMAIN s.objs BY <1>1, <1>3, LenProperties
<1>5. t \in NetTables BY <1>1, <1>3 DEF NetTables
<1>6. t.objs[h] = o /\ \A x \in DOMAIN s.objs : x # h => t.objs[x] = s.objs[x] BY <1>1, <1>3
<1>7. \A x \in DOMAIN s.objs : t.objs[x].kind = s.objs[x].kind /\ t.objs[x].up = s.objs[x].up
  BY <1>6
<1>8. \A x \in DOMAIN s.objs : t.objs[x].open => s.objs[x].open BY <1>6
<1>9. \A x \in DOMAIN s.objs : s.objs[x].kind # "socket" => t.objs[x].open = s.objs[x].open BY <1>6
<1>10. ASSUME NEW x \in DOMAIN s.objs PROVE Placed(t.objs, x)
  <2>1. Placed(s.objs, x) /\ x \in 1 .. Len(s.objs) BY <1>1 DEF NetTree
  <2>2. s.objs[x].kind \in N!Kinds BY <1>1 DEF NetObject
  <2>3. s.objs[x].up # 0 => s.objs[x].up \in DOMAIN s.objs /\ s.objs[s.objs[x].up].kind # "socket"
    BY <2>1, <2>2, <1>1 DEF Placed, N!Kinds
  <2>4. s.objs[x].kind \in {"session", "request"} => s.objs[x].up # 0 BY <2>1 DEF Placed
  <2>5. t.objs[x].kind = "socket" => t.objs[x].left # -1
    BY <2>1, <1>6 DEF Placed
  <2>6. t.objs[x].open /\ t.objs[x].up # 0 => t.objs[t.objs[x].up].open
    BY <2>1, <2>3, <1>7, <1>8, <1>9 DEF Placed
  <2> QED BY <2>1, <2>3, <2>4, <2>5, <2>6, <1>7 DEF Placed
<1> QED BY <1>4, <1>5, <1>6, <1>10 DEF NetTree

\* Closing an object closes the objects below it: the third level is the last.
LEMMA ClosingATree ==
  ASSUME NEW s, NetTree(s), NEW h \in DOMAIN s.objs
  PROVE  NetTree(N!close_wininet_object(s, h)) /\ SameLeft(s, N!close_wininet_object(s, h))
<1> DEFINE below == N!Tree(s, h)
           os == [x \in DOMAIN s.objs |-> IF x \in below THEN [s.objs[x] EXCEPT !.open = FALSE] ELSE s.objs[x]]
           t == N!close_wininet_object(s, h)
<1>1. /\ s = [objs |-> s.objs, http |-> s.http] /\ s.http \in BOOLEAN
      /\ s.objs \in Seq(NetObject) /\ Len(s.objs) \in Nat /\ DOMAIN s.objs = 1 .. Len(s.objs)
      /\ \A x \in DOMAIN s.objs : s.objs[x] \in NetObject
  BY NetTypes
<1>2. t = [objs |-> os, http |-> s.http]
  <2>1. t = [s EXCEPT !.objs = os] BY DEF N!close_wininet_object
  <2> HIDE DEF os, t
  <2> QED BY <2>1, <1>1
<1>3. \A x \in DOMAIN s.objs : /\ os[x] \in NetObject /\ os[x].kind = s.objs[x].kind /\ os[x].up = s.objs[x].up
                              /\ os[x].left = s.objs[x].left
                              /\ os[x].open = (s.objs[x].open /\ x \notin below)
  <2> SUFFICES ASSUME NEW x \in DOMAIN s.objs
               PROVE  /\ os[x] \in NetObject /\ os[x].kind = s.objs[x].kind /\ os[x].up = s.objs[x].up
                      /\ os[x].left = s.objs[x].left
                      /\ os[x].open = (s.objs[x].open /\ x \notin below)
    OBVIOUS
  <2>1. s.objs[x] \in NetObject BY <1>1
  <2>2. CASE x \in below
    <3>1. os[x] = [s.objs[x] EXCEPT !.open = FALSE] BY <2>2
    <3> HIDE DEF os, below
    <3> QED BY <2>1, <2>2, <3>1 DEF NetObject
  <2>3. CASE x \notin below
    <3>1. os[x] = s.objs[x] BY <2>3
    <3> HIDE DEF os, below
    <3> QED BY <2>1, <2>3, <3>1 DEF NetObject
  <2> QED BY <2>2, <2>3
<1>4. DOMAIN os = DOMAIN s.objs OBVIOUS
<1>5. os \in Seq(NetObject)
  <2>1. os \in [1 .. Len(s.objs) -> NetObject] BY <1>1, <1>3
  <2> HIDE DEF os
  <2> QED BY <1>1, <2>1, SeqDef
<1>6. \A x \in DOMAIN s.objs : x \in below <=>
        x = h \/ s.objs[x].up = h \/ (s.objs[x].up # 0 /\ s.objs[s.objs[x].up].up = h)
  BY DEF N!Tree
<1> HIDE DEF os, t, below
<1>7. ASSUME NEW x \in DOMAIN s.objs PROVE Placed(os, x)
  <2>1. Placed(s.objs, x) /\ x \in 1 .. Len(s.objs) /\ s.objs[x].kind \in N!Kinds /\ h # 0
    BY <1>1 DEF NetTree, NetObject
  <2>2. s.objs[x].up # 0 => s.objs[x].up \in DOMAIN s.objs
    BY <2>1, <1>1 DEF Placed, N!Kinds
  <2>3. s.objs[x].kind \in {"session", "request"} => s.objs[x].up # 0 BY <2>1 DEF Placed
  <2>4. ASSUME s.objs[x].up # 0, s.objs[x].up \in below PROVE x \in below
    <3> DEFINE y == s.objs[x].up
    <3>1. y \in DOMAIN s.objs /\ Placed(s.objs, y) /\ s.objs[y].kind \in {"instance", "session"}
      BY <2>1, <2>2, <2>4 DEF Placed, N!Kinds, NetTree
    <3>2. s.objs[y].up # 0 => s.objs[y].up \in DOMAIN s.objs /\ s.objs[s.objs[y].up].kind = "instance"
      BY <3>1, <1>1, SMTT(60) DEF Placed
    <3>3. s.objs[y].up # 0 => s.objs[s.objs[y].up].up = 0 BY <3>2 DEF NetTree, Placed
    <3>4. y = h \/ s.objs[y].up = h BY <2>1, <2>4, <3>1, <3>3, <1>6
    <3> QED BY <2>4, <3>4, <1>6
  <2>5. os[x].open /\ os[x].up # 0 => os[os[x].up].open
    BY <2>1, <2>2, <2>4, <1>3 DEF Placed
  <2> QED BY <2>1, <2>2, <2>3, <2>5, <1>3, SMTT(60) DEF Placed
<1>8. t.objs = os /\ t.http = s.http BY <1>2
<1>9. t \in NetTables BY <1>1, <1>2, <1>5 DEF NetTables
<1>10. NetTree(t) BY <1>4, <1>7, <1>8, <1>9 DEF NetTree
<1>11. SameLeft(s, t) BY <1>3, <1>4, <1>8 DEF SameLeft
<1> QED BY <1>10, <1>11 DEF t

\* Two changes that leave the old answers alone leave them alone together.
LEMMA SameLeftTwice ==
  ASSUME NEW s, NEW t, NEW u, SameLeft(s, t), SameLeft(t, u)
  PROVE  SameLeft(s, u)
BY DEF SameLeft

-----------------------------------------------------------------------------
\* A call that fails leaves the network alone.
LEMMA NetFails ==
  ASSUME NetInv(net, taken, wsk), NEW e, N!Fails(e)
  PROVE  NetKept
BY DEF NetKept, N!Fails, N!Tell

\* A call that changes objects but reads nothing keeps the account of the answers.
LEMMA NetDoes ==
  ASSUME NetInv(net, taken, wsk), NEW s, NetTree(s), SameLeft(net, s), N!Does(s)
  PROVE  NetKept
<1>1. /\ net' = s /\ wsk' = wsk /\ net_res'.put <= net_res'.room
      /\ taken' = [x \in DOMAIN s.objs |-> IF x \in DOMAIN taken THEN taken[x] ELSE 0]
  BY DEF N!Does, N!Tell
<1>2. Account(s, taken')
  <2>1. DOMAIN taken' = DOMAIN s.objs BY <1>1
  <2>2. ASSUME NEW h \in DOMAIN s.objs
        PROVE  /\ taken'[h] \in Nat
               /\ s.objs[h].left = -1 => taken'[h] = 0
               /\ s.objs[h].left # -1 => taken'[h] + s.objs[h].left = Answer
    <3>1. CASE h \in DOMAIN net.objs
      <4>1. taken'[h] = taken[h] /\ s.objs[h].left = net.objs[h].left
        BY <1>1, <3>1 DEF NetInv, Account, SameLeft
      <4> QED BY <3>1, <4>1 DEF NetInv, Account
    <3>2. CASE h \notin DOMAIN net.objs
      <4>1. taken'[h] = 0 /\ s.objs[h].left \in {-1, Answer}
        BY <1>1, <3>2 DEF NetInv, Account, SameLeft
      <4> QED BY <4>1, NetworkAssumption
    <3> QED BY <3>1, <3>2
  <2> QED BY <2>1, <2>2 DEF Account
<1> QED BY <1>1, <1>2 DEF NetKept, NetInv

\* A call that writes a buffer and changes nothing.
LEMMA NetPuts ==
  ASSUME NetInv(net, taken, wsk), NEW len \in Nat, NEW room \in Nat, N!Put(len, room), NetTree(net'), Account(net', taken)
  PROVE  NetKept
BY DEF N!Put, N!Tell, NetKept, NetInv

\* A change of what is left of one answer, with what was taken of it.
LEMMA NetTakes ==
  ASSUME NetInv(net, taken, wsk), NEW h \in DOMAIN net.objs, NEW left \in 0 .. Answer,
         net' = [net EXCEPT !.objs[h].left = left]
  PROVE  /\ NetTree(net') /\ DOMAIN net'.objs = DOMAIN net.objs /\ net'.objs[h].left = left
         /\ \A x \in DOMAIN net.objs : x # h => net'.objs[x].left = net.objs[x].left
<1> DEFINE o == [kind |-> net.objs[h].kind, up |-> net.objs[h].up, open |-> net.objs[h].open,
                 peer |-> net.objs[h].peer, left |-> left]
<1>1. NetTree(net) BY DEF NetInv
<1>2. /\ net = [objs |-> net.objs, http |-> net.http] /\ net.objs[h] \in NetObject
      /\ net.objs[h] = [kind |-> net.objs[h].kind, up |-> net.objs[h].up, open |-> net.objs[h].open,
                        peer |-> net.objs[h].peer, left |-> net.objs[h].left]
  BY <1>1, NetTypes
<1>3. [net.objs[h] EXCEPT !.left = left] = o BY <1>2
<1>4. net' = [objs |-> [net.objs EXCEPT ![h] = o], http |-> net.http]
  <2>1. net' = [net EXCEPT !.objs = [net.objs EXCEPT ![h] = [net.objs[h] EXCEPT !.left = left]]] OBVIOUS
  <2>2. net' = [net EXCEPT !.objs = [net.objs EXCEPT ![h] = o]] BY <2>1, <1>3
  <2> HIDE DEF o
  <2> QED BY <2>2, <1>2
<1>5. o \in NetObject /\ o.kind = net.objs[h].kind /\ o.up = net.objs[h].up /\ o.open = net.objs[h].open /\ o.left = left
  BY <1>2 DEF NetObject, Lefts
<1> HIDE DEF o
<1>6. left # -1 BY NetworkAssumption
<1>7. /\ NetTree(net') /\ DOMAIN net'.objs = DOMAIN net.objs
      /\ net'.objs[h] = o /\ \A x \in DOMAIN net.objs : x # h => net'.objs[x] = net.objs[x]
  <2> DEFINE t == [objs |-> [net.objs EXCEPT ![h] = o], http |-> net.http]
  <2>1. /\ NetTree(t) /\ DOMAIN t.objs = DOMAIN net.objs
        /\ t.objs[h] = o /\ \A x \in DOMAIN net.objs : x # h => t.objs[x] = net.objs[x]
    BY <1>1, <1>5, <1>6, ChangingAnObject
  <2> HIDE DEF t
  <2> QED BY <2>1, <1>4 DEF t
<1> QED BY <1>5, <1>7

\* The smaller of two numbers.
LEMMA MinOfTwo ==
  ASSUME NEW a \in Int, NEW b \in Int
  PROVE  N!Min({a, b}) = IF a <= b THEN a ELSE b
<1>1. CASE a <= b
  <2>1. a \in {a, b} /\ \A y \in {a, b} : a <= y BY <1>1
  <2>2. \A x \in {a, b} : (\A y \in {a, b} : x <= y) => x = a BY <1>1
  <2> QED BY <1>1, <2>1, <2>2 DEF N!Min
<1>2. CASE ~(a <= b)
  <2>1. b \in {a, b} /\ \A y \in {a, b} : b <= y BY <1>2
  <2>2. \A x \in {a, b} : (\A y \in {a, b} : x <= y) => x = b BY <1>2
  <2> QED BY <1>2, <2>1, <2>2 DEF N!Min
<1> QED BY <1>1, <1>2

\* Reading at most `size` bytes of an answer of which `left` are left.
LEMMA NetReads ==
  ASSUME NetInv(net, taken, wsk), NEW h \in DOMAIN net.objs, NEW size \in Nat, NEW left \in 0 .. Answer, NEW keep \in BOOLEAN,
         left = net.objs[h].left \/ (left = Answer /\ net.objs[h].left = -1),
         net' = [net EXCEPT !.objs[h].left = IF keep THEN left ELSE left - N!Min({size, left})],
         taken' = IF keep THEN taken ELSE [taken EXCEPT ![h] = @ + N!Min({size, left})],
         NEW e, N!Tell(e, N!Min({size, left}), size), wsk' = wsk
  PROVE  NetKept
<1> DEFINE n == N!Min({size, left})
           rest == IF keep THEN left ELSE left - n
<1>1. n = IF size <= left THEN size ELSE left BY MinOfTwo
<1>2. left \in Nat /\ left <= Answer /\ Answer \in Nat BY NetworkAssumption
<1>3. n \in Nat /\ n <= size /\ n <= left BY <1>1, <1>2
<1>4. rest \in 0 .. Answer BY <1>2, <1>3
<1> HIDE DEF n
<1>5. /\ NetTree(net') /\ DOMAIN net'.objs = DOMAIN net.objs /\ net'.objs[h].left = rest
      /\ \A x \in DOMAIN net.objs : x # h => net'.objs[x].left = net.objs[x].left
  <2> HIDE DEF rest
  <2>1. net' = [net EXCEPT !.objs[h].left = rest] BY DEF rest, n
  <2> QED BY <1>4, <2>1, NetTakes
<1>6. taken[h] \in Nat /\ taken[h] + left = Answer /\ DOMAIN taken = DOMAIN net.objs
  BY <1>2 DEF NetInv, Account
<1>7. Account(net', taken')
  <2>1. DOMAIN taken' = DOMAIN net'.objs
    <3>1. CASE keep BY <3>1, <1>5, <1>6
    <3>2. CASE ~keep BY <3>2, <1>5, <1>6
    <3> QED BY <3>1, <3>2
  <2>2. taken'[h] = (IF keep THEN taken[h] ELSE taken[h] + n) /\ \A x \in DOMAIN taken : x # h => taken'[x] = taken[x]
    <3>1. CASE keep BY <3>1, <1>6
    <3>2. CASE ~keep BY <3>2, <1>6 DEF n
    <3> QED BY <3>1, <3>2
  <2>3. taken'[h] \in Nat /\ rest # -1 /\ taken'[h] + rest = Answer BY <2>2, <1>2, <1>3, <1>6
  <2>4. ASSUME NEW x \in DOMAIN net.objs, x # h
        PROVE  /\ taken'[x] \in Nat
               /\ net'.objs[x].left = -1 => taken'[x] = 0
               /\ net'.objs[x].left # -1 => taken'[x] + net'.objs[x].left = Answer
    <3>1. taken'[x] = taken[x] /\ net'.objs[x].left = net.objs[x].left BY <2>2, <2>4, <1>5, <1>6
    <3> QED BY <3>1 DEF NetInv, Account
  <2> HIDE DEF rest
  <2> QED BY <2>1, <2>3, <2>4, <1>5 DEF Account
<1>8. net_res'.put <= net_res'.room BY <1>3 DEF N!Tell, n
<1> QED BY <1>5, <1>7, <1>8 DEF NetKept, NetInv

-----------------------------------------------------------------------------
\* The operators of NetworkManager.
LEMMA RecordsOfObjects ==
  ASSUME NEW r, NEW q, r = [kind |-> r.kind, up |-> r.up, open |-> r.open, peer |-> r.peer, left |-> r.left]
  PROVE  /\ [r EXCEPT !.peer = q] = [kind |-> r.kind, up |-> r.up, open |-> r.open, peer |-> q, left |-> r.left]
         /\ [r EXCEPT !.open = q] = [kind |-> r.kind, up |-> r.up, open |-> q, peer |-> r.peer, left |-> r.left]
         /\ [r EXCEPT !.left = q] = [kind |-> r.kind, up |-> r.up, open |-> r.open, peer |-> r.peer, left |-> q]
OBVIOUS

\* connect_socket sets the peer of a socket.
LEMMA SettingThePeer ==
  ASSUME NEW s, NetTree(s), NEW h \in DOMAIN s.objs
  PROVE  NetTree(N!connect_socket(s, h)) /\ SameLeft(s, N!connect_socket(s, h))
<1> DEFINE o == [kind |-> s.objs[h].kind, up |-> s.objs[h].up, open |-> s.objs[h].open,
                 peer |-> TRUE, left |-> s.objs[h].left]
           t == [objs |-> [s.objs EXCEPT ![h] = o], http |-> s.http]
<1>1. /\ s = [objs |-> s.objs, http |-> s.http] /\ s.objs[h] \in NetObject
      /\ s.objs[h] = [kind |-> s.objs[h].kind, up |-> s.objs[h].up, open |-> s.objs[h].open,
                      peer |-> s.objs[h].peer, left |-> s.objs[h].left]
  BY NetTypes
<1>2. [s.objs[h] EXCEPT !.peer = TRUE] = o
  <2>1. \A q : [s.objs[h] EXCEPT !.peer = q] =
          [kind |-> s.objs[h].kind, up |-> s.objs[h].up, open |-> s.objs[h].open, peer |-> q, left |-> s.objs[h].left]
    BY <1>1, RecordsOfObjects
  <2> QED BY <2>1, Zenon
<1>3. N!connect_socket(s, h) = t
  <2>1. N!connect_socket(s, h) = [s EXCEPT !.objs = [s.objs EXCEPT ![h] = [s.objs[h] EXCEPT !.peer = TRUE]]]
    BY DEF N!connect_socket
  <2>2. N!connect_socket(s, h) = [s EXCEPT !.objs = [s.objs EXCEPT ![h] = o]] BY <2>1, <1>2
  <2> HIDE DEF o
  <2> QED BY <2>2, <1>1
<1>4. /\ o \in NetObject /\ o.kind = s.objs[h].kind /\ o.up = s.objs[h].up /\ o.open = s.objs[h].open
      /\ o.left = s.objs[h].left
  BY <1>1 DEF NetObject
<1> HIDE DEF o
<1>5. o.kind = "socket" => o.left # -1 BY <1>4 DEF NetTree, Placed
<1>6. /\ NetTree(t) /\ DOMAIN t.objs = DOMAIN s.objs
      /\ t.objs[h] = o /\ \A x \in DOMAIN s.objs : x # h => t.objs[x] = s.objs[x]
  BY <1>4, <1>5, ChangingAnObject
<1> HIDE DEF t
<1>7. SameLeft(s, t) BY <1>4, <1>6 DEF SameLeft
<1> QED BY <1>3, <1>6, <1>7

\* close_socket closes a socket, which has nothing below it.
LEMMA ClosingASocket ==
  ASSUME NEW s, NetTree(s), NEW h \in DOMAIN s.objs, s.objs[h].kind = "socket"
  PROVE  NetTree(N!close_socket(s, h)) /\ SameLeft(s, N!close_socket(s, h))
<1> DEFINE o == [kind |-> s.objs[h].kind, up |-> s.objs[h].up, open |-> FALSE,
                 peer |-> s.objs[h].peer, left |-> s.objs[h].left]
           t == [objs |-> [s.objs EXCEPT ![h] = o], http |-> s.http]
<1>1. /\ s = [objs |-> s.objs, http |-> s.http] /\ s.objs[h] \in NetObject
      /\ s.objs[h] = [kind |-> s.objs[h].kind, up |-> s.objs[h].up, open |-> s.objs[h].open,
                      peer |-> s.objs[h].peer, left |-> s.objs[h].left]
  BY NetTypes
<1>2. [s.objs[h] EXCEPT !.open = FALSE] = o
  <2>1. \A q : [s.objs[h] EXCEPT !.open = q] =
          [kind |-> s.objs[h].kind, up |-> s.objs[h].up, open |-> q, peer |-> s.objs[h].peer, left |-> s.objs[h].left]
    BY <1>1, RecordsOfObjects
  <2> QED BY <2>1, Zenon
<1>3. N!close_socket(s, h) = t
  <2>1. N!close_socket(s, h) = [s EXCEPT !.objs = [s.objs EXCEPT ![h] = [s.objs[h] EXCEPT !.open = FALSE]]]
    BY DEF N!close_socket
  <2>2. N!close_socket(s, h) = [s EXCEPT !.objs = [s.objs EXCEPT ![h] = o]] BY <2>1, <1>2
  <2> HIDE DEF o
  <2> QED BY <2>2, <1>1
<1>4. /\ o \in NetObject /\ o.kind = s.objs[h].kind /\ o.up = s.objs[h].up /\ ~o.open
      /\ o.left = s.objs[h].left
  BY <1>1 DEF NetObject
<1> HIDE DEF o
<1>5. o.kind = "socket" /\ o.left # -1 BY <1>4 DEF NetTree, Placed
<1>6. /\ NetTree(t) /\ DOMAIN t.objs = DOMAIN s.objs
      /\ t.objs[h] = o /\ \A x \in DOMAIN s.objs : x # h => t.objs[x] = s.objs[x]
  BY <1>4, <1>5, ChangingAnObject
<1> HIDE DEF t
<1>7. SameLeft(s, t) BY <1>4, <1>6 DEF SameLeft
<1> QED BY <1>3, <1>6, <1>7

\* A new socket.
LEMMA NewSocket ==
  ASSUME NEW s, NetTree(s)
  PROVE  /\ NetTree(N!new_socket(s)) /\ SameLeft(s, N!new_socket(s))
         /\ Len(N!new_socket(s).objs) \in DOMAIN N!new_socket(s).objs
<1> DEFINE o == N!Object("socket", 0, Answer)
<1>1. o \in NetObject /\ o.open /\ o.left = Answer /\ o.kind = "socket" /\ o.up = 0
  BY NetworkAssumption DEF N!Object, NetObject, Lefts, N!Kinds
<1> HIDE DEF o
<1>2. /\ NetTree(N!Add(s, o)) /\ SameLeft(s, N!Add(s, o))
      /\ Len(N!Add(s, o).objs) = Len(s.objs) + 1 /\ Len(s.objs) + 1 \in DOMAIN N!Add(s, o).objs
  BY <1>1, AddingAnObject
<1> QED BY <1>2 DEF N!new_socket, o

\* A new internet instance.
LEMMA NewInstance ==
  ASSUME NEW s, NetTree(s)
  PROVE  NetTree(N!new_wininet_inst(s)) /\ SameLeft(s, N!new_wininet_inst(s))
<1> DEFINE o == N!Object("instance", 0, N!NotLoaded)
<1>1. o \in NetObject /\ o.open /\ o.left = -1 /\ o.kind = "instance" /\ o.up = 0
  BY DEF N!Object, NetObject, Lefts, N!Kinds, N!NotLoaded
<1> HIDE DEF o
<1>2. NetTree(N!Add(s, o)) /\ SameLeft(s, N!Add(s, o)) BY <1>1, AddingAnObject
<1> QED BY <1>2 DEF N!new_wininet_inst, o

\* A new session of an open instance.
LEMMA NewSession ==
  ASSUME NEW s, NetTree(s), NEW h, N!Is(s, h, "instance")
  PROVE  LET t == N!new_session(s, h)
         IN  NetTree(t) /\ SameLeft(s, t) /\ N!Is(t, Len(t.objs), "session")
<1> DEFINE o == N!Object("session", h, N!NotLoaded)
<1>1. h \in DOMAIN s.objs /\ s.objs[h].open /\ s.objs[h].kind = "instance" /\ h \in Nat
  BY NetTypes DEF N!Is
<1>2. o \in NetObject /\ o.open /\ o.left = -1 /\ o.kind = "session" /\ o.up = h
  BY <1>1 DEF N!Object, NetObject, Lefts, N!Kinds, N!NotLoaded
<1> HIDE DEF o
<1>3. /\ NetTree(N!Add(s, o)) /\ SameLeft(s, N!Add(s, o))
      /\ Len(N!Add(s, o).objs) = Len(s.objs) + 1 /\ Len(s.objs) + 1 \in DOMAIN N!Add(s, o).objs
      /\ N!Add(s, o).objs[Len(s.objs) + 1] = o
  BY <1>1, <1>2, AddingAnObject
<1>4. N!new_session(s, h) = N!Add(s, o) BY DEF N!new_session, o
<1> DEFINE t == N!Add(s, o)
<1> HIDE DEF t
<1>5. N!Is(t, Len(t.objs), "session") BY <1>2, <1>3 DEF N!Is, t
<1> QED BY <1>3, <1>4, <1>5 DEF t

\* A new request of an open session.
LEMMA NewRequest ==
  ASSUME NEW s, NetTree(s), NEW h, N!Is(s, h, "session")
  PROVE  NetTree(N!new_request(s, h)) /\ SameLeft(s, N!new_request(s, h))
<1> DEFINE o == N!Object("request", h, N!NotLoaded)
<1>1. h \in DOMAIN s.objs /\ s.objs[h].open /\ s.objs[h].kind = "session" /\ h \in Nat
  BY NetTypes DEF N!Is
<1>2. o \in NetObject /\ o.open /\ o.left = -1 /\ o.kind = "request" /\ o.up = h
  BY <1>1 DEF N!Object, NetObject, Lefts, N!Kinds, N!NotLoaded
<1> HIDE DEF o
<1>3. NetTree(N!Add(s, o)) /\ SameLeft(s, N!Add(s, o)) BY <1>1, <1>2, AddingAnObject
<1> QED BY <1>3 DEF N!new_request, o

\* What is left of one object's answer is set.
LEMMA SettingWhatIsLeft ==
  ASSUME NEW s, NEW h, NEW b, s = [objs |-> s.objs, http |-> s.http],
         s.objs[h] = [kind |-> s.objs[h].kind, up |-> s.objs[h].up, open |-> s.objs[h].open,
                      peer |-> s.objs[h].peer, left |-> s.objs[h].left]
  PROVE  [s EXCEPT !.objs[h].left = b] =
           [objs |-> [s.objs EXCEPT ![h] = [kind |-> s.objs[h].kind, up |-> s.objs[h].up, open |-> s.objs[h].open,
                                            peer |-> s.objs[h].peer, left |-> b]],
            http |-> s.http]
<1> DEFINE o == [kind |-> s.objs[h].kind, up |-> s.objs[h].up, open |-> s.objs[h].open, peer |-> s.objs[h].peer, left |-> b]
<1>1. [s.objs[h] EXCEPT !.left = b] = o OBVIOUS
<1> HIDE DEF o
<1>2. [s EXCEPT !.objs[h].left = b] = [s EXCEPT !.objs = [s.objs EXCEPT ![h] = [s.objs[h] EXCEPT !.left = b]]] OBVIOUS
<1>3. [s EXCEPT !.objs[h].left = b] = [s EXCEPT !.objs = [s.objs EXCEPT ![h] = o]] BY <1>1, <1>2
<1> QED BY <1>3 DEF o

\* The answer of a request after get_response: loading it twice is loading it once.
LEMMA LeftOfARequest ==
  ASSUME NetInv(net, taken, wsk), NEW h \in DOMAIN net.objs,
         NEW left, left = IF net.objs[h].left = -1 THEN Answer ELSE net.objs[h].left
  PROVE  /\ left \in 0 .. Answer
         /\ N!get_response(net, h) = [net EXCEPT !.objs[h].left = left]
         /\ N!get_response(net, h).objs[h].left = left
         /\ \A b : [N!get_response(net, h) EXCEPT !.objs[h].left = b] = [net EXCEPT !.objs[h].left = b]
<1> DEFINE s == N!get_response(net, h)
           o(b) == [kind |-> net.objs[h].kind, up |-> net.objs[h].up, open |-> net.objs[h].open,
                    peer |-> net.objs[h].peer, left |-> b]
           os == [net.objs EXCEPT ![h] = o(left)]
<1>1. NetTree(net) BY DEF NetInv
<1>2. /\ net = [objs |-> net.objs, http |-> net.http] /\ net.objs[h] \in NetObject
      /\ net.objs[h] = o(net.objs[h].left)
      /\ net.objs \in Seq(NetObject)
  BY <1>1, NetTypes
<1>3. left \in 0 .. Answer BY <1>2, NetworkAssumption DEF NetObject, Lefts
<1>4. \A b : [net EXCEPT !.objs[h].left = b] = [objs |-> [net.objs EXCEPT ![h] = o(b)], http |-> net.http]
  BY <1>2, SettingWhatIsLeft
<1>5. s = [net EXCEPT !.objs[h].left = left]
  <2>1. CASE net.objs[h].left = -1 BY <2>1 DEF N!get_response, N!NotLoaded
  <2>2. CASE net.objs[h].left # -1
    <3>1. left = net.objs[h].left /\ s = net BY <2>2 DEF N!get_response, N!NotLoaded
    <3>2. [net EXCEPT !.objs[h].left = left] = [objs |-> [net.objs EXCEPT ![h] = o(left)], http |-> net.http] BY <1>4
    <3>3. o(left) = net.objs[h] BY <3>1, <1>2
    <3> HIDE DEF o, s
    <3>4. [net.objs EXCEPT ![h] = o(left)] = net.objs BY <3>3, <1>2
    <3>5. [net EXCEPT !.objs[h].left = left] = [objs |-> net.objs, http |-> net.http] BY <3>2, <3>4
    <3> QED BY <3>1, <3>5, <1>2
  <2> QED BY <2>1, <2>2
<1>6. s = [objs |-> os, http |-> net.http] BY <1>4, <1>5
<1>7. os[h] = o(left) OBVIOUS
<1>8. s.objs = os /\ s.http = net.http /\ s.objs[h] = o(left) /\ s.objs[h].left = left BY <1>6, <1>7
<1>9. \A b : [s EXCEPT !.objs[h].left = b] = [net EXCEPT !.objs[h].left = b]
  <2> TAKE b
  <2>1. /\ s = [objs |-> s.objs, http |-> s.http]
        /\ s.objs[h] = [kind |-> s.objs[h].kind, up |-> s.objs[h].up, open |-> s.objs[h].open,
                        peer |-> s.objs[h].peer, left |-> s.objs[h].left]
    BY <1>6, <1>8
  <2>2. s.objs[h].kind = net.objs[h].kind /\ s.objs[h].up = net.objs[h].up /\ s.objs[h].open = net.objs[h].open
        /\ s.objs[h].peer = net.objs[h].peer
    BY <1>8
  <2> HIDE DEF s
  <2>3. [s EXCEPT !.objs[h].left = b] =
           [objs |-> [s.objs EXCEPT ![h] = [kind |-> s.objs[h].kind, up |-> s.objs[h].up, open |-> s.objs[h].open,
                                            peer |-> s.objs[h].peer, left |-> b]],
            http |-> s.http]
    BY <2>1, SettingWhatIsLeft
  <2>4. [s EXCEPT !.objs[h].left = b] = [objs |-> [s.objs EXCEPT ![h] = o(b)], http |-> net.http]
    <3>1. o(b) = [kind |-> s.objs[h].kind, up |-> s.objs[h].up, open |-> s.objs[h].open, peer |-> s.objs[h].peer, left |-> b]
      BY <2>2
    <3> HIDE DEF o
    <3> QED BY <2>3, <3>1, <1>8
  <2> HIDE DEF o
  <2>5. [s.objs EXCEPT ![h] = o(b)] = [net.objs EXCEPT ![h] = o(b)] BY <1>8
  <2> QED BY <2>4, <2>5, <1>4
<1> HIDE DEF s
<1> QED BY <1>3, <1>5, <1>8, <1>9 DEF s

\* get_response loads the answer of a request before it is read.
LEMMA NetLoads ==
  ASSUME NetInv(net, taken, wsk), NEW h \in DOMAIN net.objs, net' = N!get_response(net, h)
  PROVE  NetTree(net') /\ Account(net', taken) /\ net'.objs[h].left \in 0 .. Answer
<1> DEFINE left == IF net.objs[h].left = -1 THEN Answer ELSE net.objs[h].left
<1>1. left \in 0 .. Answer /\ net' = [net EXCEPT !.objs[h].left = left]
  <2> HIDE DEF left
  <2> QED BY LeftOfARequest DEF left
<1>2. /\ NetTree(net') /\ DOMAIN net'.objs = DOMAIN net.objs /\ net'.objs[h].left = left
      /\ \A x \in DOMAIN net.objs : x # h => net'.objs[x].left = net.objs[x].left
  <2> HIDE DEF left
  <2> QED BY <1>1, NetTakes
<1>3. Account(net, taken) BY DEF NetInv
<1>4. left # -1 /\ taken[h] \in Nat /\ taken[h] + left = Answer BY <1>1, <1>3, NetworkAssumption DEF Account
<1> HIDE DEF left
<1>5. Account(net', taken) BY <1>2, <1>3, <1>4 DEF Account
<1> QED BY <1>1, <1>2, <1>5

\* accept makes a socket that has a peer.
LEMMA AcceptingASocket ==
  ASSUME NEW s, NetTree(s)
  PROVE  NetTree(N!accept_socket(s)) /\ SameLeft(s, N!accept_socket(s))
<1> DEFINE t == N!new_socket(s)
           h == Len(t.objs)
<1>1. NetTree(t) /\ SameLeft(s, t) /\ h \in DOMAIN t.objs BY NewSocket
<1>2. N!accept_socket(s) = N!connect_socket(t, h) BY DEF N!accept_socket
<1> HIDE DEF t, h
<1>3. NetTree(N!connect_socket(t, h)) /\ SameLeft(t, N!connect_socket(t, h)) BY <1>1, SettingThePeer
<1> QED BY <1>1, <1>2, <1>3, SameLeftTwice

\* InternetOpenUrl makes the session and its request at once.
LEMMA OpeningAUrl ==
  ASSUME NEW s, NetTree(s), NEW h, N!Is(s, h, "instance")
  PROVE  NetTree(N!open_url(s, h)) /\ SameLeft(s, N!open_url(s, h))
<1> DEFINE t == N!new_session(s, h)
           n == Len(t.objs)
<1>1. NetTree(t) /\ SameLeft(s, t) /\ N!Is(t, n, "session") BY NewSession
<1>2. N!open_url(s, h) = N!new_request(t, n) BY DEF N!open_url
<1> HIDE DEF t, n
<1>3. NetTree(N!new_request(t, n)) /\ SameLeft(t, N!new_request(t, n)) BY <1>1, NewRequest
<1> QED BY <1>1, <1>2, <1>3, SameLeftTwice

-----------------------------------------------------------------------------
\* The calls.
LEMMA NetSocketCalls ==
  ASSUME NetInv(net, taken, wsk), NEW h,
         \/ N!WSASocket \/ N!socket \/ N!connect(h) \/ N!WSAConnect(h) \/ N!bind(h) \/ N!accept(h)
         \/ N!send(h) \/ N!closesocket(h) \/ N!ioctlsocket(h)
  PROVE  NetKept
<1>1. NetTree(net) BY DEF NetInv
<1>2. ASSUME NEW e, N!Fails(e) PROVE NetKept BY <1>2, NetFails
<1>3. ASSUME NEW t, NetTree(t), SameLeft(net, t), N!Does(t) PROVE NetKept BY <1>3, NetDoes
<1>4. N!get_socket(net, h) => h \in DOMAIN net.objs /\ net.objs[h].kind = "socket" BY DEF N!get_socket, N!Is
<1>5. CASE N!WSASocket \/ N!socket BY <1>1, <1>3, <1>5, NewSocket DEF N!WSASocket, N!socket
<1>6. CASE N!connect(h) \/ N!WSAConnect(h)
  BY <1>1, <1>2, <1>3, <1>4, <1>6, SettingThePeer DEF N!connect, N!WSAConnect
<1>7. CASE N!bind(h)
  <2>1. N!bind_socket(net, h) = N!connect_socket(net, h) BY DEF N!bind_socket, N!connect_socket
  <2> QED BY <1>1, <1>2, <1>3, <1>4, <1>7, <2>1, SettingThePeer DEF N!bind
<1>8. CASE N!accept(h) BY <1>1, <1>2, <1>3, <1>8, AcceptingASocket DEF N!accept
<1>9. CASE N!send(h) \/ N!ioctlsocket(h) BY <1>2, <1>9 DEF N!send, N!ioctlsocket, N!Says
<1>10. CASE N!closesocket(h) BY <1>1, <1>2, <1>3, <1>4, <1>10, ClosingASocket DEF N!closesocket
<1> QED BY <1>5, <1>6, <1>7, <1>8, <1>9, <1>10

\* The calls that write addresses and names.
LEMMA NetAddressCalls ==
  ASSUME NetInv(net, taken, wsk), NEW h, NEW room \in N!Rooms, NEW b \in BOOLEAN,
         \/ N!gethostname(room) \/ N!getsockopt(room) \/ N!gethostbyname(b) \/ N!getaddrinfo(b)
         \/ N!getpeername(h, room) \/ N!getsockname(h, room) \/ N!URLDownloadToCacheFile(room)
  PROVE  NetKept
<1>1. NetTree(net) /\ Account(net, taken) BY DEF NetInv
<1>2. room \in Nat /\ NameLen + 1 \in Nat BY NetworkAssumption DEF N!Rooms
<1>3. ASSUME NEW e, N!Fails(e) PROVE NetKept BY <1>3, NetFails
<1>4. ASSUME N!Put(NameLen + 1, room), net' = net PROVE NetKept BY <1>1, <1>2, <1>4, NetPuts
<1>5. ASSUME N!write_sockaddr(room) PROVE NetKept
  BY <1>2, <1>5, NetworkAssumption DEF N!write_sockaddr, N!Tell, NetKept
<1>6. CASE N!gethostname(room) \/ N!URLDownloadToCacheFile(room)
  BY <1>4, <1>6 DEF N!gethostname, N!URLDownloadToCacheFile
<1>7. CASE N!gethostbyname(b) \/ N!getaddrinfo(b) BY <1>3, <1>7 DEF N!gethostbyname, N!getaddrinfo, N!Says
<1>8. CASE N!getpeername(h, room) \/ N!getsockname(h, room)
  BY <1>3, <1>5, <1>8 DEF N!getpeername, N!getsockname
<1>9. CASE N!getsockopt(room)
  <2>1. CASE room < 2 BY <1>3, <1>9, <2>1 DEF N!getsockopt
  <2>2. CASE ~(room < 2) BY <1>2, <1>9, <2>2 DEF N!getsockopt, N!Tell, NetKept
  <2> QED BY <2>1, <2>2
<1> QED BY <1>6, <1>7, <1>8, <1>9

\* recv.
LEMMA NetReceives ==
  ASSUME NetInv(net, taken, wsk), NEW h, NEW size \in N!Rooms, NEW peek \in BOOLEAN, N!recv(h, size, peek)
  PROVE  NetKept
<1>1. CASE ~N!get_socket(net, h) BY <1>1, NetFails DEF N!recv
<1>2. CASE N!get_socket(net, h)
  <2> DEFINE left == net.objs[h].left
  <2>1. h \in DOMAIN net.objs /\ net.objs[h].kind = "socket" BY <1>2 DEF N!get_socket, N!Is
  <2>2. left # -1 /\ net.objs[h] \in NetObject BY <2>1, NetTypes DEF NetInv, NetTree, Placed
  <2>3. left \in 0 .. Answer BY <2>2 DEF NetObject, Lefts
  <2>4. size \in Nat BY NetworkAssumption DEF N!Rooms
  <2>5. /\ net' = [net EXCEPT !.objs[h].left = IF peek THEN left ELSE left - N!Min({size, left})]
        /\ taken' = IF peek THEN taken ELSE [taken EXCEPT ![h] = @ + N!Min({size, left})]
        /\ N!Tell("none", N!Min({size, left}), size) /\ wsk' = wsk
    BY <1>2 DEF N!recv, N!get_recv_data
  <2> QED BY <2>1, <2>3, <2>4, <2>5, NetReads
<1> QED BY <1>1, <1>2

\* The calls that open, use and close internet handles.
LEMMA NetHandleCalls ==
  ASSUME NetInv(net, taken, wsk), NEW h, NEW b \in BOOLEAN,
         \/ N!InternetOpen \/ N!WinHttpOpen \/ N!InternetConnect(h) \/ N!WinHttpConnect(h)
         \/ N!HttpOpenRequest(h) \/ N!WinHttpOpenRequest(h) \/ N!HttpSendRequest(h) \/ N!WinHttpSendRequest(h)
         \/ N!InternetCloseHandle(h) \/ N!WinHttpCloseHandle(h) \/ N!InternetOpenUrl(h, b)
  PROVE  NetKept
<1>1. NetTree(net) BY DEF NetInv
<1>2. ASSUME NEW e, N!Fails(e) PROVE NetKept BY <1>2, NetFails
<1>3. ASSUME NEW t, NetTree(t), SameLeft(net, t), N!Does(t) PROVE NetKept BY <1>3, NetDoes
<1>4. ASSUME NEW kind PROVE N!get_wininet(net, h, kind) <=> N!Is(net, h, kind) BY DEF N!get_wininet
<1>5. CASE N!InternetOpen \/ N!WinHttpOpen BY <1>1, <1>3, <1>5, NewInstance DEF N!InternetOpen, N!WinHttpOpen
<1>6. CASE N!InternetConnect(h) \/ N!WinHttpConnect(h)
  <2>1. N!Is(net, h, "instance") => NetTree(N!new_session(net, h)) /\ SameLeft(net, N!new_session(net, h))
    BY <1>1, NewSession
  <2> QED BY <1>2, <1>3, <1>4, <1>6, <2>1 DEF N!InternetConnect, N!WinHttpConnect
<1>7. CASE N!HttpOpenRequest(h) \/ N!WinHttpOpenRequest(h)
  <2>1. N!Is(net, h, "session") => NetTree(N!new_request(net, h)) /\ SameLeft(net, N!new_request(net, h))
    BY <1>1, NewRequest
  <2> QED BY <1>2, <1>3, <1>4, <1>7, <2>1 DEF N!HttpOpenRequest, N!WinHttpOpenRequest
<1>8. CASE N!HttpSendRequest(h) \/ N!WinHttpSendRequest(h)
  BY <1>2, <1>8 DEF N!HttpSendRequest, N!WinHttpSendRequest, N!Says
<1>9. CASE N!InternetCloseHandle(h) \/ N!WinHttpCloseHandle(h)
  <2>1. CASE \E kind \in N!Kinds \ {"socket"} : N!get_wininet(net, h, kind)
    <3>1. h \in DOMAIN net.objs BY <2>1 DEF N!get_wininet, N!Is
    <3>2. N!Does(N!close_wininet_object(net, h)) BY <1>9, <2>1 DEF N!InternetCloseHandle, N!WinHttpCloseHandle
    <3> QED BY <1>1, <1>3, <3>1, <3>2, ClosingATree
  <2>2. CASE ~\E kind \in N!Kinds \ {"socket"} : N!get_wininet(net, h, kind)
    BY <1>2, <1>9, <2>2 DEF N!InternetCloseHandle, N!WinHttpCloseHandle
  <2> QED BY <2>1, <2>2
<1>10. CASE N!InternetOpenUrl(h, b)
  <2>1. N!Is(net, h, "instance") => NetTree(N!open_url(net, h)) /\ SameLeft(net, N!open_url(net, h))
    BY <1>1, OpeningAUrl
  <2> QED BY <1>2, <1>3, <1>4, <1>10, <2>1 DEF N!InternetOpenUrl
<1> QED BY <1>5, <1>6, <1>7, <1>8, <1>9, <1>10

\* The parts of a url that are written are those that fit, so the smallest buffer among them fits.
LEMMA NetCracks ==
  ASSUME NetInv(net, taken, wsk), NEW rooms \in [1 .. 2 -> N!Rooms], N!CrackUrl(rooms)
  PROVE  NetKept
<1> DEFINE small == {i \in DOMAIN rooms : rooms[i] # 0 /\ rooms[i] <= NameLen}
           written == {i \in DOMAIN rooms : rooms[i] # 0 /\ \A j \in small : i < j}
           sizes == {rooms[i] : i \in written}
<1>1. /\ net' = net /\ taken' = taken /\ wsk' = wsk
      /\ net_res'.put = (IF written = {} THEN 0 ELSE NameLen + 1)
      /\ net_res'.room = (IF written = {} THEN 0 ELSE N!Min(sizes))
  BY DEF N!CrackUrl, N!Tell
<1>2. NameLen \in Nat /\ \A i \in {1, 2} : rooms[i] \in Nat BY NetworkAssumption DEF N!Rooms
<1>3. \A i \in written : i \in {1, 2} /\ i \notin small BY <1>2
<1>4. \A x \in sizes : x \in Nat /\ NameLen + 1 <= x BY <1>2, <1>3
<1>5. written # {} => N!Min(sizes) \in sizes
  <2>1. written = {1} \/ written = {2} \/ written = {1, 2} \/ written = {} BY <1>3
  <2>2. written = {} \/ (\E a \in sizes, b \in sizes : sizes = {a, b})
    <3>1. CASE written = {1} BY <3>1
    <3>2. CASE written = {2} BY <3>2
    <3>3. CASE written = {1, 2} BY <3>3
    <3> QED BY <2>1, <3>1, <3>2, <3>3
  <2> HIDE DEF written, sizes
  <2>3. ASSUME NEW a \in sizes, NEW b \in sizes, sizes = {a, b} PROVE N!Min(sizes) \in sizes
    <3>1. a \in Int /\ b \in Int BY <1>4
    <3> QED BY <3>1, <2>3, MinOfTwo
  <2> QED BY <2>2, <2>3
<1> HIDE DEF written, sizes, small
<1>6. net_res'.put <= net_res'.room BY <1>1, <1>4, <1>5, <1>2
<1> QED BY <1>1, <1>6 DEF NetKept

\* The calls on requests.
LEMMA NetRequestCalls ==
  ASSUME NetInv(net, taken, wsk), NEW h, NEW size \in N!Rooms, NEW header,
         \/ N!InternetReadFile(h, size) \/ N!WinHttpReadData(h, size)
         \/ N!HttpQueryInfo(h, header, size) \/ N!WinHttpQueryHeaders(h, header, size)
         \/ N!InternetQueryDataAvailable(h) \/ N!WinHttpQueryDataAvailable(h)
  PROVE  NetKept
<1>1. NetTree(net) /\ Account(net, taken) /\ WskOK(wsk) BY DEF NetInv
<1>2. size \in Nat /\ NameLen + 1 \in Nat /\ Answer \in Nat BY NetworkAssumption DEF N!Rooms
<1>3. ASSUME NEW e, N!Fails(e) PROVE NetKept BY <1>3, NetFails
<1>4. N!get_wininet(net, h, "request") => h \in DOMAIN net.objs BY DEF N!get_wininet, N!Is
<1>5. CASE N!InternetReadFile(h, size) \/ N!WinHttpReadData(h, size)
  <2>1. CASE ~N!get_wininet(net, h, "request") \/ N!Raises
    BY <1>3, <1>5, <2>1 DEF N!InternetReadFile, N!WinHttpReadData
  <2>2. CASE N!get_wininet(net, h, "request") /\ ~N!Raises
    <3> DEFINE s == N!get_response(net, h)
               left == IF net.objs[h].left = -1 THEN Answer ELSE net.objs[h].left
               n == N!Min({size, left})
    <3>1. h \in DOMAIN net.objs BY <1>4, <2>2
    <3>2. /\ left \in 0 .. Answer /\ s.objs[h].left = left
          /\ \A b : [s EXCEPT !.objs[h].left = b] = [net EXCEPT !.objs[h].left = b]
      <4> HIDE DEF left
      <4> QED BY <3>1, LeftOfARequest DEF left
    <3> HIDE DEF s
    <3>3. /\ net' = [s EXCEPT !.objs[h].left = s.objs[h].left - N!Min({size, s.objs[h].left})]
          /\ taken' = [taken EXCEPT ![h] = @ + N!Min({size, s.objs[h].left})]
          /\ N!Tell("none", N!Min({size, s.objs[h].left}), size) /\ wsk' = wsk
      BY <1>5, <2>2 DEF N!InternetReadFile, N!WinHttpReadData, s
    <3>4. left = net.objs[h].left \/ (left = Answer /\ net.objs[h].left = -1) OBVIOUS
    <3> HIDE DEF left
    <3>5. /\ net' = [net EXCEPT !.objs[h].left = left - n]
          /\ taken' = [taken EXCEPT ![h] = @ + n]
          /\ N!Tell("none", n, size) /\ wsk' = wsk
      BY <3>2, <3>3
    <3> DEFINE keep == FALSE
    <3>6. /\ net' = [net EXCEPT !.objs[h].left = IF keep THEN left ELSE left - n]
          /\ taken' = IF keep THEN taken ELSE [taken EXCEPT ![h] = @ + n]
      BY <3>5
    <3>7. keep \in BOOLEAN OBVIOUS
    <3> HIDE DEF keep
    <3> QED BY <1>2, <3>1, <3>2, <3>4, <3>5, <3>6, <3>7, NetReads
  <2> QED BY <2>1, <2>2
<1>6. CASE N!HttpQueryInfo(h, header, size) \/ N!WinHttpQueryHeaders(h, header, size)
  <2>1. N!HttpQueryInfo(h, header, size) BY <1>6 DEF N!WinHttpQueryHeaders
  <2>2. CASE header = "status" BY <1>1, <1>2, <2>1, <2>2, NetPuts DEF N!HttpQueryInfo
  <2>3. CASE header # "status" /\ (~N!get_wininet(net, h, "request") \/ N!Raises)
    BY <1>3, <2>1, <2>3 DEF N!HttpQueryInfo
  <2>4. CASE header # "status" /\ N!get_wininet(net, h, "request") /\ ~N!Raises
    <3>1. h \in DOMAIN net.objs /\ net' = N!get_response(net, h)
      BY <1>4, <2>1, <2>4 DEF N!HttpQueryInfo, N!get_response_headers
    <3>2. NetTree(net') /\ Account(net', taken) BY <3>1, NetLoads
    <3>3. CASE header = "unknown"
      BY <1>1, <1>2, <2>1, <2>4, <3>2, <3>3 DEF N!HttpQueryInfo, N!Tell, NetKept, NetInv
    <3>4. CASE header # "unknown"
      <4>1. N!Put(NameLen + 1, size) BY <2>1, <2>4, <3>4 DEF N!HttpQueryInfo
      <4> QED BY <1>2, <3>2, <4>1, NetPuts
    <3> QED BY <3>3, <3>4
  <2> QED BY <2>2, <2>3, <2>4
<1>7. CASE N!InternetQueryDataAvailable(h) \/ N!WinHttpQueryDataAvailable(h)
  <2>1. N!InternetQueryDataAvailable(h) BY <1>7 DEF N!WinHttpQueryDataAvailable
  <2>2. CASE ~N!get_wininet(net, h, "request") \/ N!Raises BY <1>3, <2>1, <2>2 DEF N!InternetQueryDataAvailable
  <2>3. CASE N!get_wininet(net, h, "request") /\ ~N!Raises
    <3>1. /\ h \in DOMAIN net.objs /\ net' = N!get_response(net, h) /\ taken' = taken /\ wsk' = wsk
          /\ net_res'.put = net'.objs[h].left /\ net_res'.room = Answer
      BY <1>4, <2>1, <2>3 DEF N!InternetQueryDataAvailable, N!get_response_size, N!Tell
    <3>2. NetTree(net') /\ Account(net', taken) /\ net'.objs[h].left \in 0 .. Answer BY <3>1, NetLoads
    <3> QED BY <1>1, <1>2, <3>1, <3>2 DEF NetKept, NetInv
  <2> QED BY <2>2, <2>3
<1> QED BY <1>5, <1>6, <1>7

\* The calls of the kernel sockets.
LEMMA NetKernelCalls ==
  ASSUME NetInv(net, taken, wsk), NEW c \in 1 .. 2, NEW irp \in BOOLEAN, NEW flags,
         N!WskRegister(c) \/ N!WskCaptureProviderNPI(c) \/ N!WskSocket(irp, flags)
  PROVE  NetKept
<1>1. NetTree(net) /\ Account(net, taken) /\ WskOK(wsk) BY DEF NetInv
<1>2. ASSUME NEW e, N!Fails(e) PROVE NetKept BY <1>2, NetFails
<1>3. ASSUME NEW w, WskOK(w), N!Wsk(w) PROVE NetKept BY <1>1, <1>3 DEF N!Wsk, N!Tell, NetKept, NetInv
<1>4. /\ wsk = [clients |-> wsk.clients, npi |-> wsk.npi, sockets |-> wsk.sockets]
      /\ wsk.clients \in Seq(1 .. 2) /\ wsk.npi \in 0 .. 2 /\ wsk.sockets \in 0 .. 1
  BY <1>1 DEF WskOK
<1>5. CASE N!WskRegister(c)
  <2>1. Append(wsk.clients, c) \in Seq(1 .. 2) BY <1>4, AppendProperties
  <2>2. [wsk EXCEPT !.clients = Append(@, c)] = [clients |-> Append(wsk.clients, c), npi |-> wsk.npi, sockets |-> wsk.sockets]
    BY <1>4
  <2>3. WskOK([wsk EXCEPT !.clients = Append(@, c)]) BY <1>4, <2>1, <2>2 DEF WskOK
  <2> QED BY <1>3, <1>5, <2>3 DEF N!WskRegister
<1>6. CASE N!WskCaptureProviderNPI(c)
  <2>1. CASE c \notin DOMAIN wsk.clients BY <1>2, <1>6, <2>1 DEF N!WskCaptureProviderNPI
  <2>2. CASE c \in DOMAIN wsk.clients
    <3> DEFINE w == IF wsk.npi = 0 THEN [wsk EXCEPT !.npi = wsk.clients[c]] ELSE wsk
    <3>1. wsk.clients[c] \in 1 .. 2
      <4>1. c \in 1 .. Len(wsk.clients) BY <1>4, <2>2, LenProperties
      <4> QED BY <1>4, <4>1, ElementOfSeq
    <3>2. WskOK(w) BY <1>1, <1>4, <3>1 DEF WskOK
    <3>3. N!Wsk(w) BY <1>6, <2>2 DEF N!WskCaptureProviderNPI
    <3> HIDE DEF w
    <3> QED BY <1>3, <3>2, <3>3
  <2> QED BY <2>1, <2>2
<1>7. CASE N!WskSocket(irp, flags)
  <2>1. CASE ~irp \/ flags # "datagram" BY <1>2, <1>7, <2>1 DEF N!WskSocket
  <2>2. CASE irp /\ flags = "datagram"
    <3>1. wsk.sockets < 1 /\ N!Wsk([wsk EXCEPT !.sockets = @ + 1]) BY <1>7, <2>2 DEF N!WskSocket
    <3>2. WskOK([wsk EXCEPT !.sockets = @ + 1]) BY <1>4, <3>1 DEF WskOK
    <3> QED BY <1>3, <3>1, <3>2
  <2> QED BY <2>1, <2>2
<1> QED BY <1>5, <1>6, <1>7

\* Every call keeps the invariant of the network and respects the buffer.
LEMMA NetStep ==
  ASSUME NetInv(net, taken, wsk), N!Next
  PROVE  NetKept
<1>1. ASSUME N!Says PROVE NetKept BY <1>1, NetFails DEF N!Says
<1>2. CASE N!NextSockets
  <2>1. CASE \/ N!WSAStartup \/ N!inet_and_options \/ N!listen_select \/ N!inet_conversions
             \/ N!fd_set_and_shutdown \/ N!freeaddrinfo
    BY <1>1, <2>1 DEF N!WSAStartup, N!inet_and_options, N!listen_select, N!inet_conversions,
                      N!fd_set_and_shutdown, N!freeaddrinfo
  <2>2. CASE N!WSASocket \/ N!socket BY <2>2, NetSocketCalls
  <2>3. CASE \E n \in N!Rooms : N!gethostname(n) \/ N!getsockopt(n)
    <3>1. TRUE \in BOOLEAN OBVIOUS
    <3> QED BY <2>3, <3>1, NetAddressCalls
  <2>4. CASE \E b \in BOOLEAN : N!gethostbyname(b) \/ N!getaddrinfo(b)
    <3>1. 0 \in N!Rooms BY NetworkAssumption DEF N!Rooms
    <3> QED BY <2>4, <3>1, NetAddressCalls
  <2>5. CASE \E h \in N!Handles : \/ N!connect(h) \/ N!WSAConnect(h) \/ N!bind(h) \/ N!accept(h)
                                  \/ N!send(h) \/ N!closesocket(h) \/ N!ioctlsocket(h)
    BY <2>5, NetSocketCalls
  <2>6. CASE \E h \in N!Handles, n \in N!Rooms : N!getpeername(h, n) \/ N!getsockname(h, n)
    <3>1. TRUE \in BOOLEAN OBVIOUS
    <3> QED BY <2>6, <3>1, NetAddressCalls
  <2>7. CASE \E h \in N!Handles, n \in N!Rooms, peek \in BOOLEAN : N!recv(h, n, peek)
    BY <2>7, NetReceives
  <2> QED BY <1>2, <2>1, <2>2, <2>3, <2>4, <2>5, <2>6, <2>7 DEF N!NextSockets
<1>3. CASE N!NextInternet
  <2>1. CASE \/ N!InternetOptions \/ N!WinHttpProxyAndOptions \/ N!InternetErrorDlg_QueryOption
             \/ N!WinHttpReceiveResponse \/ N!URLDownloadToFile
    BY <1>1, <2>1 DEF N!InternetOptions, N!WinHttpProxyAndOptions,
       N!InternetErrorDlg_QueryOption,
                      N!WinHttpReceiveResponse, N!URLDownloadToFile
  <2>2. CASE \/ N!InternetOpen \/ N!WinHttpOpen
             \/ \E h \in N!Handles : \/ N!InternetConnect(h) \/ N!WinHttpConnect(h)
                                      \/ N!HttpOpenRequest(h) \/ N!WinHttpOpenRequest(h)
             \/ \E h \in N!Handles : N!HttpSendRequest(h) \/ N!WinHttpSendRequest(h)
             \/ \E h \in N!Handles : N!InternetCloseHandle(h) \/ N!WinHttpCloseHandle(h)
             \/ \E h \in N!Handles, b \in BOOLEAN : N!InternetOpenUrl(h, b)
    <3>1. TRUE \in BOOLEAN OBVIOUS
    <3> QED BY <2>2, <3>1, NetHandleCalls
  <2>3. CASE \E rooms \in [1 .. 2 -> N!Rooms] : N!InternetCrackUrl(rooms) \/ N!WinHttpCrackUrl(rooms)
    BY <2>3, NetCracks DEF N!InternetCrackUrl, N!WinHttpCrackUrl
  <2>4. CASE \/ \E h \in N!Handles : N!InternetQueryDataAvailable(h) \/ N!WinHttpQueryDataAvailable(h)
             \/ \E h \in N!Handles, n \in N!Rooms : N!InternetReadFile(h, n) \/ N!WinHttpReadData(h, n)
             \/ \E h \in N!Handles, n \in N!Rooms, header \in {"status", "length", "unknown"} :
                  N!HttpQueryInfo(h, header, n) \/ N!WinHttpQueryHeaders(h, header, n)
    <3>1. 0 \in N!Rooms BY NetworkAssumption DEF N!Rooms
    <3> QED BY <2>4, <3>1, NetRequestCalls
  <2>5. CASE \E n \in N!Rooms : N!URLDownloadToCacheFile(n)
    <3>1. TRUE \in BOOLEAN OBVIOUS
    <3> QED BY <2>5, <3>1, NetAddressCalls
  <2>6. CASE \E record \in {"a", "text", "other"}, b \in BOOLEAN : N!DnsQuery_(record, b)
    BY <1>1, <2>6, NetFails DEF N!DnsQuery_
  <2> QED BY <1>3, <2>1, <2>2, <2>3, <2>4, <2>5, <2>6 DEF N!NextInternet
<1>4. CASE N!NextKernelSockets
  <2>1. CASE N!WskClientCalls \/ N!WskSocketCalls \/ N!WskReleaseCalls
    BY <1>1, <2>1 DEF N!WskClientCalls, N!WskSocketCalls, N!WskReleaseCalls
  <2>2. CASE \E c \in 1 .. 2 : N!WskRegister(c) \/ N!WskCaptureProviderNPI(c)
    <3>1. TRUE \in BOOLEAN OBVIOUS
    <3> QED BY <2>2, <3>1, NetKernelCalls
  <2>3. CASE \E irp \in BOOLEAN, flags \in {"datagram", "stream"} : N!WskSocket(irp, flags)
    <3>1. 1 \in 1 .. 2 OBVIOUS
    <3> QED BY <2>3, <3>1, NetKernelCalls
  <2> QED BY <1>4, <2>1, <2>2, <2>3 DEF N!NextKernelSockets
<1> QED BY <1>2, <1>3, <1>4 DEF N!Next

\* The network starts without objects.
LEMMA NetStart == N!Init => NetInv(net, taken, wsk)
<1> SUFFICES ASSUME N!Init PROVE NetInv(net, taken, wsk) OBVIOUS
<1>1. PICK http \in BOOLEAN : net = [objs |-> <<>>, http |-> http] BY DEF N!Init
<1>2. taken = <<>> /\ wsk = [clients |-> <<>>, npi |-> 0, sockets |-> 0] BY DEF N!Init
<1>3. NetTree(net) BY <1>1 DEF NetTree, NetTables
<1>4. Account(net, taken) BY <1>1, <1>2 DEF Account
<1>5. WskOK(wsk) BY <1>2 DEF WskOK
<1> QED BY <1>3, <1>4, <1>5 DEF NetInv

\* The invariant is as strong as the properties.
LEMMA NetInvImplies ==
  ASSUME NetInv(net, taken, wsk)
  PROVE  N!TypeOK /\ N!ClosedTreeIsClosed /\ N!AnswersAreReadOnce
<1>1. NetTree(net) /\ Account(net, taken) /\ WskOK(wsk) BY DEF NetInv
<1>2. ASSUME NEW h \in DOMAIN net.objs
      PROVE  /\ net.objs[h].kind \in N!Kinds /\ net.objs[h].up \in 0 .. (h - 1)
             /\ net.objs[h].left \in N!NotLoaded .. Answer
             /\ net.objs[h].open /\ net.objs[h].up # 0 => net.objs[net.objs[h].up].open
  <2>1. net.objs[h] \in NetObject /\ h \in 1 .. Len(net.objs) /\ Len(net.objs) \in Nat BY <1>1, NetTypes
  <2>2. Placed(net.objs, h) BY <1>1 DEF NetTree
  <2>3. net.objs[h].kind \in N!Kinds BY <2>1 DEF NetObject
  <2>4. net.objs[h].up \in 0 .. (h - 1) BY <2>1, <2>2, <2>3 DEF Placed, N!Kinds
  <2>5. net.objs[h].left \in N!NotLoaded .. Answer BY <2>1, NetworkAssumption DEF NetObject, Lefts, N!NotLoaded
  <2> QED BY <2>2, <2>3, <2>4, <2>5 DEF Placed
<1>3. DOMAIN taken = DOMAIN net.objs BY <1>1 DEF Account
<1>4. wsk.npi \in 0 .. 2 /\ wsk.sockets \in 0 .. 1 BY <1>1 DEF WskOK
<1>5. N!TypeOK BY <1>2, <1>3, <1>4 DEF N!TypeOK
<1>6. N!ClosedTreeIsClosed BY <1>2 DEF N!ClosedTreeIsClosed
<1>7. N!AnswersAreReadOnce BY <1>1 DEF Account, N!AnswersAreReadOnce, N!NotLoaded
<1> QED BY <1>5, <1>6, <1>7

\* The invariant of the network holds whatever the guest calls (NetworkManager, WininetInstance).
THEOREM NetworkInvariance == N!Spec => []NetInv(net, taken, wsk)
<1>1. NetInv(net, taken, wsk) /\ [N!Next]_(N!vars) => NetInv(net, taken, wsk)'
  <2> SUFFICES ASSUME NetInv(net, taken, wsk), [N!Next]_(N!vars) PROVE NetInv(net, taken, wsk)' OBVIOUS
  <2>1. CASE N!Next BY <2>1, NetStep DEF NetKept
  <2>2. CASE UNCHANGED N!vars BY <2>2 DEF N!vars
  <2> QED BY <2>1, <2>2
<1> QED BY <1>1, NetStart, PTL DEF N!Spec

\* A handle below a closed internet handle is closed, and an answer is read once, for any number of objects
\* (close_wininet_object, recv, InternetReadFile).
THEOREM NetworkKeepsItsState == N!Spec => [](N!TypeOK /\ N!ClosedTreeIsClosed /\ N!AnswersAreReadOnce)
BY NetworkInvariance, NetInvImplies, PTL

\* No call of the network writes more than its buffer holds (recv, InternetReadFile, InternetCrackUrl).
THEOREM NetworkAnswersFit == N!Spec => N!NetworkRespectsTheBuffer
<1>1. NetInv(net, taken, wsk) /\ [N!Next]_(N!vars) => [net_res'.put <= net_res'.room]_(N!vars)
  BY NetStep DEF NetKept
<1> QED BY <1>1, NetworkInvariance, PTL DEF N!Spec, N!NetworkRespectsTheBuffer
-----------------------------------------------------------------------------
(***************************************************************************)
(* Virtual memory.  The pages of the engine are those of the allocations,  *)
(* which are disjoint, and a page has the protection the guest asked for   *)
(* last, or is the page whose guard was hit and not yet restored.          *)
(***************************************************************************)

\* An allocation.
MemMap == [base : Nat, size : Nat \ {0}, tag : V!Processes \cup {"VirtualAlloc"}, free : BOOLEAN]

\* The pages of the engine are those of the allocations, which do not overlap.
VmMap(ms, pm) ==
  /\ ms \in Seq(MemMap)
  /\ \A i, j \in DOMAIN ms : i # j => V!PagesOf(ms[i]) \cap V!PagesOf(ms[j]) = {}
  /\ DOMAIN pm = UNION {V!PagesOf(ms[i]) : i \in DOMAIN ms}
  /\ DOMAIN pm \subseteq V!Pages

\* A page has a protection.
Has(pm, gd, x, prot) ==
  IF prot.guard THEN x \in DOMAIN gd /\ gd[x] = prot.perm /\ pm[x] = "none"
  ELSE x \notin DOMAIN gd /\ pm[x] = prot.perm

Asked == [V!Pages -> [perm : Perms \cup {"free"}, guard : BOOLEAN]]

Pending(pm, gd, rd, ask) ==
  /\ rd.page # -1 => rd.page \in DOMAIN pm
  /\ \A x \in V!Pages :
       ask[x] # V!Free =>
         /\ x \in DOMAIN pm
         /\ IF rd.page = x THEN x \notin DOMAIN gd /\ rd.perms = ask[x].perm ELSE Has(pm, gd, x, ask[x])

VmInv(ms, pm, gd, rd, ask) ==
  VmMap(ms, pm) /\ DOMAIN gd \subseteq DOMAIN pm /\ ask \in Asked /\ Pending(pm, gd, rd, ask)

VmNow == VmInv(maps, perm, guard_pages, raised, page_asked)
VmKept == VmInv(maps', perm', guard_pages', raised', page_asked')

-----------------------------------------------------------------------------
\* A set of numbers has a least one, so that Min is what its name says.
LEMMA LeastOfNaturals ==
  ASSUME NEW S, S \subseteq Nat, S # {}
  PROVE  V!Min(S) \in S /\ \A y \in S : V!Min(S) <= y
BY LeastNatural DEF V!Min

\* The state t with a guard on the pages, that hides the permission p.
Guarded(t, pm, gd, pages, p) ==
  /\ DOMAIN t.perm = DOMAIN pm /\ DOMAIN t.guard = pages \cup DOMAIN gd
  /\ \A x \in DOMAIN pm : t.perm[x] = IF x \in pages THEN "none" ELSE pm[x]
  /\ \A x \in pages \cup DOMAIN gd : t.guard[x] = IF x \in pages THEN p ELSE gd[x]

\* set_guard_pages hides the permission of each page and leaves the others alone.
LEMMA SettingGuards ==
  ASSUME NEW pm, NEW gd, NEW pages, NEW p
  PROVE  Guarded(V!set_guard_pages([perm |-> pm, guard |-> gd], pages, p), pm, gd, pages, p)
<1> DEFINE gd2 == [x \in pages \cup DOMAIN gd |-> IF x \in pages THEN p ELSE gd[x]]
           t == V!set_guard_pages([perm |-> pm, guard |-> gd], pages, p)
           pm2 == [x \in DOMAIN pm |-> IF x \in pages THEN "none" ELSE pm[x]]
<1>1. [[perm |-> pm, guard |-> gd] EXCEPT !.guard = [x \in pages \cup DOMAIN @ |-> IF x \in pages THEN p ELSE @[x]]]
        = [perm |-> pm, guard |-> gd2]
  OBVIOUS
<1>2. t = [perm |-> pm2, guard |-> gd2]
  <2> HIDE DEF gd2
  <2>1. t = V!mem_protect([perm |-> pm, guard |-> gd2], pages, "none") BY <1>1 DEF V!set_guard_pages
  <2> QED BY <2>1 DEF V!mem_protect
<1> HIDE DEF t
<1>3. t.perm = pm2 /\ t.guard = gd2
  <2> HIDE DEF pm2, gd2
  <2> QED BY <1>2
<1>4. Guarded(t, pm, gd, pages, p) BY <1>3 DEF Guarded
<1> QED BY <1>4 DEF t

\* mem_protect sets what pages have, with or without a guard.
LEMMA ProtectedPages ==
  ASSUME NEW pm, NEW gd, NEW pages, NEW prot, pages \subseteq DOMAIN pm,
         NEW t, t = V!Protected([perm |-> pm, guard |-> gd], pages, prot)
  PROVE  /\ DOMAIN t.perm = DOMAIN pm
         /\ DOMAIN t.guard \subseteq DOMAIN gd \cup pages
         /\ \A x \in pages : Has(t.perm, t.guard, x, prot)
         /\ \A x \in DOMAIN pm \ pages : /\ t.perm[x] = pm[x] /\ (x \in DOMAIN t.guard <=> x \in DOMAIN gd)
                                         /\ x \in DOMAIN gd => t.guard[x] = gd[x]
<1> DEFINE cleared == [x \in DOMAIN gd \ pages |-> gd[x]]
           pm1 == [x \in DOMAIN pm |-> IF x \in pages THEN prot.perm ELSE pm[x]]
<1>1. V!clear_guard_pages([perm |-> pm, guard |-> gd], pages) = [perm |-> pm, guard |-> cleared]
  BY DEF V!clear_guard_pages, V!Restrict
<1>2. V!mem_protect([perm |-> pm, guard |-> cleared], pages, prot.perm) = [perm |-> pm1, guard |-> cleared]
  <2> HIDE DEF cleared
  <2> QED BY DEF V!mem_protect
<1>3. t = IF prot.guard THEN V!set_guard_pages([perm |-> pm1, guard |-> cleared], pages, prot.perm)
          ELSE [perm |-> pm1, guard |-> cleared]
  <2> HIDE DEF cleared, pm1
  <2> QED BY <1>1, <1>2 DEF V!Protected
<1>4. /\ DOMAIN pm1 = DOMAIN pm /\ \A x \in DOMAIN pm : pm1[x] = IF x \in pages THEN prot.perm ELSE pm[x]
      /\ DOMAIN cleared = DOMAIN gd \ pages /\ \A x \in DOMAIN cleared : cleared[x] = gd[x]
  OBVIOUS
<1> HIDE DEF cleared, pm1
<1>5. CASE prot.guard
  <2> DEFINE p == prot.perm
  <2>1. t = V!set_guard_pages([perm |-> pm1, guard |-> cleared], pages, p) BY <1>3, <1>5
  <2> HIDE DEF p
  <2>2. Guarded(t, pm1, cleared, pages, p) BY <2>1, SettingGuards
  <2> QED BY <1>4, <1>5, <2>2 DEF Has, Guarded, p
<1>6. CASE ~prot.guard
  <2>1. t.perm = pm1 /\ t.guard = cleared BY <1>3, <1>6
  <2> QED BY <1>4, <1>6, <2>1 DEF Has
<1> QED BY <1>5, <1>6

\* Protecting pages keeps the allocations and gives the pages what was asked.
LEMMA ProtectingPages ==
  ASSUME NEW ms, NEW pm, NEW gd, NEW rd, NEW ask, VmInv(ms, pm, gd, rd, ask), rd.page = -1,
         NEW pages, pages \subseteq DOMAIN pm, NEW prot \in V!Protections,
         NEW t, t = V!Protected([perm |-> pm, guard |-> gd], pages, prot),
         NEW ask2, ask2 = [x \in V!Pages |-> IF x \in pages THEN prot ELSE ask[x]]
  PROVE  VmInv(ms, t.perm, t.guard, rd, ask2)
<1>1. /\ DOMAIN t.perm = DOMAIN pm
      /\ DOMAIN t.guard \subseteq DOMAIN gd \cup pages
      /\ \A x \in pages : Has(t.perm, t.guard, x, prot)
      /\ \A x \in DOMAIN pm \ pages : /\ t.perm[x] = pm[x] /\ (x \in DOMAIN t.guard <=> x \in DOMAIN gd)
                                      /\ x \in DOMAIN gd => t.guard[x] = gd[x]
  BY ProtectedPages
<1>2. VmMap(ms, t.perm) BY <1>1 DEF VmInv, VmMap
<1>3. DOMAIN t.guard \subseteq DOMAIN t.perm BY <1>1 DEF VmInv
<1>4. ask2 \in Asked
  <2>1. prot \in [perm : Perms \cup {"free"}, guard : BOOLEAN] BY DEF V!Protections
  <2> QED BY <2>1 DEF VmInv, Asked
<1>5. ASSUME NEW x \in V!Pages, ask2[x] # V!Free PROVE x \in DOMAIN t.perm /\ Has(t.perm, t.guard, x, ask2[x])
  <2>1. CASE x \in pages BY <1>1, <2>1
  <2>2. CASE x \notin pages
    <3>1. ask2[x] = ask[x] BY <2>2
    <3>2. x \in DOMAIN pm /\ Has(pm, gd, x, ask[x])
      <4>1. -1 \notin V!Pages BY DEF V!Pages
      <4> QED BY <1>5, <3>1, <4>1 DEF VmInv, Pending
    <3> QED BY <1>1, <2>2, <3>1, <3>2 DEF Has
  <2> QED BY <2>1, <2>2
<1>6. -1 \notin V!Pages BY DEF V!Pages
<1>7. Pending(t.perm, t.guard, rd, ask2)
  <2> HIDE DEF VmInv
  <2> QED BY <1>5, <1>6 DEF Pending
<1> QED BY <1>2, <1>3, <1>4, <1>7 DEF VmInv

\* A new allocation of pages that were free, with or without a guard.
LEMMA MappingPages ==
  ASSUME NEW ms, NEW pm, NEW gd, NEW rd, NEW ask, VmInv(ms, pm, gd, rd, ask), rd.page = -1,
         NEW m \in MemMap, V!PagesOf(m) \cap DOMAIN pm = {}, V!PagesOf(m) \subseteq V!Pages,
         NEW prot \in V!Protections,
         NEW pm1, pm1 = [x \in V!PagesOf(m) \cup DOMAIN pm |-> IF x \in V!PagesOf(m) THEN prot.perm ELSE pm[x]],
         NEW t, t = IF prot.guard THEN V!set_guard_pages([perm |-> pm1, guard |-> gd], V!PagesOf(m), prot.perm)
                    ELSE [perm |-> pm1, guard |-> gd],
         NEW ask2, ask2 = [x \in V!Pages |-> IF x \in V!PagesOf(m) THEN prot ELSE ask[x]]
  PROVE  VmInv(Append(ms, m), t.perm, t.guard, rd, ask2)
<1> DEFINE pages == V!PagesOf(m)
           ms2 == Append(ms, m)
<1>1. VmMap(ms, pm) /\ DOMAIN gd \subseteq DOMAIN pm /\ ask \in Asked /\ Pending(pm, gd, rd, ask) BY DEF VmInv
<1>2. DOMAIN pm1 = pages \cup DOMAIN pm /\ pages \cap DOMAIN pm = {} /\ pages \subseteq V!Pages OBVIOUS
<1>3. \A x \in DOMAIN pm1 : pm1[x] = IF x \in pages THEN prot.perm ELSE pm[x] OBVIOUS
<1>4. /\ DOMAIN t.perm = pages \cup DOMAIN pm
      /\ DOMAIN t.guard \subseteq pages \cup DOMAIN gd
      /\ \A x \in pages : Has(t.perm, t.guard, x, prot)
      /\ \A x \in DOMAIN pm : /\ t.perm[x] = pm[x] /\ (x \in DOMAIN t.guard <=> x \in DOMAIN gd)
                              /\ x \in DOMAIN gd => t.guard[x] = gd[x]
  <2>1. \A x \in pages : x \notin DOMAIN gd BY <1>1, <1>2
  <2>2. CASE prot.guard
    <3> HIDE DEF pages
    <3> DEFINE p == prot.perm
    <3>1. t = V!set_guard_pages([perm |-> pm1, guard |-> gd], pages, p) BY <2>2 DEF pages
    <3> HIDE DEF p
    <3>2. Guarded(t, pm1, gd, pages, p) BY <3>1, SettingGuards
    <3> QED BY <1>1, <1>2, <1>3, <2>1, <2>2, <3>2 DEF Has, Guarded, p
  <2>3. CASE ~prot.guard
    <3>1. t.perm = pm1 /\ t.guard = gd BY <2>3
    <3> HIDE DEF pages
    <3> QED BY <1>2, <1>3, <2>1, <2>3, <3>1 DEF Has
  <2> QED BY <2>2, <2>3
<1> HIDE DEF pages
<1>5. VmMap(ms2, t.perm)
  <2>1. /\ ms \in Seq(MemMap) /\ ms2 \in Seq(MemMap) /\ Len(ms2) = Len(ms) + 1 /\ Len(ms) \in Nat
        /\ \A i \in 1 .. Len(ms2) : ms2[i] = IF i <= Len(ms) THEN ms[i] ELSE m
        /\ DOMAIN ms = 1 .. Len(ms) /\ DOMAIN ms2 = 1 .. Len(ms2)
    <3>1. ms \in Seq(MemMap) BY <1>1 DEF VmMap
    <3> QED BY <3>1, AppendProperties, LenProperties
  <2>2. ms2[Len(ms) + 1] = m /\ \A i \in DOMAIN ms : i \in DOMAIN ms2 /\ ms2[i] = ms[i] BY <2>1
  <2>3. \A i \in DOMAIN ms2 : i \in DOMAIN ms \/ i = Len(ms) + 1 BY <2>1
  <2>4. DOMAIN pm = UNION {V!PagesOf(ms[i]) : i \in DOMAIN ms} BY <1>1 DEF VmMap
  <2>5. \A i \in DOMAIN ms : V!PagesOf(ms[i]) \cap pages = {}
    <3>1. \A i \in DOMAIN ms : V!PagesOf(ms[i]) \subseteq DOMAIN pm BY <2>4
    <3> QED BY <3>1, <1>2
  <2>6. \A i, j \in DOMAIN ms2 : i # j => V!PagesOf(ms2[i]) \cap V!PagesOf(ms2[j]) = {}
    <3> SUFFICES ASSUME NEW i \in DOMAIN ms2, NEW j \in DOMAIN ms2, i # j
                 PROVE  V!PagesOf(ms2[i]) \cap V!PagesOf(ms2[j]) = {}
      OBVIOUS
    <3>1. CASE i \in DOMAIN ms /\ j \in DOMAIN ms BY <3>1, <2>2, <1>1 DEF VmMap
    <3>2. CASE i \in DOMAIN ms /\ j = Len(ms) + 1 BY <3>2, <2>2, <2>5 DEF pages
    <3>3. CASE j \in DOMAIN ms /\ i = Len(ms) + 1 BY <3>3, <2>2, <2>5 DEF pages
    <3> QED BY <3>1, <3>2, <3>3, <2>3
  <2>7. DOMAIN t.perm = UNION {V!PagesOf(ms2[i]) : i \in DOMAIN ms2}
    <3>1. Len(ms) + 1 \in DOMAIN ms2 BY <2>1
    <3>2. ASSUME NEW x \in pages PROVE x \in UNION {V!PagesOf(ms2[i]) : i \in DOMAIN ms2}
      <4>1. x \in V!PagesOf(ms2[Len(ms) + 1]) BY <2>2 DEF pages
      <4> QED BY <3>1, <4>1
    <3>3. ASSUME NEW x \in DOMAIN pm PROVE x \in UNION {V!PagesOf(ms2[i]) : i \in DOMAIN ms2}
      <4>1. PICK i \in DOMAIN ms : x \in V!PagesOf(ms[i]) BY <2>4
      <4> QED BY <4>1, <2>2
    <3>4. ASSUME NEW i \in DOMAIN ms2, NEW x \in V!PagesOf(ms2[i]) PROVE x \in pages \cup DOMAIN pm
      <4>1. CASE i \in DOMAIN ms
        <5>1. V!PagesOf(ms2[i]) = V!PagesOf(ms[i]) BY <4>1, <2>2
        <5> QED BY <4>1, <5>1, <2>4
      <4>2. CASE i = Len(ms) + 1
        <5>1. V!PagesOf(ms2[i]) = pages BY <4>2, <2>2 DEF pages
        <5> QED BY <5>1
      <4> QED BY <4>1, <4>2, <2>3
    <3> DEFINE all == UNION {V!PagesOf(ms2[i]) : i \in DOMAIN ms2}
    <3>5. \A x \in all : x \in pages \cup DOMAIN pm BY <3>4
    <3>6. pages \cup DOMAIN pm \subseteq all BY <3>2, <3>3
    <3> HIDE DEF all
    <3>7. DOMAIN t.perm = all BY <1>4, <3>5, <3>6
    <3> QED BY <3>7 DEF all
  <2>8. DOMAIN t.perm \subseteq V!Pages BY <1>1, <1>2, <1>4 DEF VmMap
  <2> QED BY <2>1, <2>6, <2>7, <2>8 DEF VmMap
<1>6. DOMAIN t.guard \subseteq DOMAIN t.perm BY <1>1, <1>4
<1>7. ask2 = [x \in V!Pages |-> IF x \in pages THEN prot ELSE ask[x]] BY DEF pages
<1>8. ask2 \in Asked
  <2>1. prot \in [perm : Perms \cup {"free"}, guard : BOOLEAN] BY DEF V!Protections
  <2> QED BY <1>1, <1>7, <2>1 DEF Asked
<1>9. -1 \notin V!Pages BY DEF V!Pages
<1>10. ASSUME NEW x \in V!Pages, ask2[x] # V!Free PROVE x \in DOMAIN t.perm /\ Has(t.perm, t.guard, x, ask2[x])
  <2>1. CASE x \in pages BY <1>4, <1>7, <2>1
  <2>2. CASE x \notin pages
    <3>1. ask2[x] = ask[x] BY <1>7, <2>2
    <3>2. x \in DOMAIN pm /\ Has(pm, gd, x, ask[x])
      BY <1>1, <1>9, <1>10, <3>1 DEF Pending
    <3> QED BY <1>4, <3>1, <3>2 DEF Has
  <2> QED BY <2>1, <2>2
<1>11. Pending(t.perm, t.guard, rd, ask2) BY <1>9, <1>10 DEF Pending
<1> QED BY <1>5, <1>6, <1>8, <1>11 DEF VmInv, ms2

-----------------------------------------------------------------------------
\* The allocation of an address is one of the list.
LEMMA TheMapOfAnAddress ==
  ASSUME VmMap(maps, perm), NEW a
  PROVE  /\ V!get_address_map(a) # 0 => /\ V!get_address_map(a) \in DOMAIN maps
                                       /\ a \in V!PagesOf(maps[V!get_address_map(a)])
         /\ V!get_address_map(a) = 0 => a \notin DOMAIN perm
<1> DEFINE found == {i \in DOMAIN maps : a \in V!PagesOf(maps[i])}
<1>1. maps \in Seq(MemMap) /\ DOMAIN perm = UNION {V!PagesOf(maps[i]) : i \in DOMAIN maps} BY DEF VmMap
<1>2. Len(maps) \in Nat /\ DOMAIN maps = 1 .. Len(maps) BY <1>1, LenProperties
<1>3. found \subseteq Nat /\ 0 \notin found BY <1>2
<1>4. V!get_address_map(a) = IF found = {} THEN 0 ELSE V!Min(found) BY DEF V!get_address_map
<1>5. CASE found = {}
  <2>1. a \notin DOMAIN perm BY <1>1, <1>5
  <2> HIDE DEF found
  <2> QED BY <1>4, <1>5, <2>1
<1>6. CASE found # {}
  <2>1. V!Min(found) \in found
    <3> HIDE DEF found
    <3> QED BY <1>3, <1>6, LeastOfNaturals
  <2>2. V!get_address_map(a) \in found /\ V!get_address_map(a) # 0
    <3> HIDE DEF found
    <3> QED BY <1>3, <1>4, <1>6, <2>1
  <2> QED BY <2>2
<1> QED BY <1>5, <1>6

\* The pages of an allocation are mapped.
LEMMA PagesOfAMap ==
  ASSUME VmMap(maps, perm), NEW i \in DOMAIN maps
  PROVE  maps[i] \in MemMap /\ V!PagesOf(maps[i]) \subseteq DOMAIN perm
<1>1. maps \in Seq(MemMap) /\ DOMAIN perm = UNION {V!PagesOf(maps[j]) : j \in DOMAIN maps} BY DEF VmMap
<1>2. i \in 1 .. Len(maps) BY <1>1, LenProperties
<1>3. maps[i] \in MemMap BY <1>1, <1>2, ElementOfSeq
<1> QED BY <1>1, <1>3

\* A range of pages of which none is mapped.
FreeRange(b, size) ==
  b \in Nat /\ V!Span(b, size) \cap DOMAIN perm = {} /\ V!Span(b, size) \subseteq V!Pages

\* get_valid_ranges finds free pages.
LEMMA ValidRanges ==
  ASSUME NEW a \in Nat, NEW size \in Nat, V!get_valid_ranges(a, size) # -1
  PROVE  FreeRange(V!get_valid_ranges(a, size), size)
<1> DEFINE fits == {b \in a .. (NumPages - size) : V!Span(b, size) \cap (DOMAIN perm \cup Reserved) = {}}
<1>1. V!get_valid_ranges(a, size) = V!Min(fits) /\ fits # {} BY DEF V!get_valid_ranges, V!NoPage
<1>2. fits \subseteq Nat BY MemoryAssumption
<1>3. V!Min(fits) \in fits
  <2> HIDE DEF fits
  <2> QED BY <1>1, <1>2, LeastOfNaturals
<1> DEFINE b == V!Min(fits)
<1>4. b \in a .. (NumPages - size) /\ V!Span(b, size) \cap DOMAIN perm = {} BY <1>3
<1> HIDE DEF b
<1>5. V!Span(b, size) \subseteq V!Pages BY <1>4, MemoryAssumption DEF V!Span, V!Pages
<1>6. FreeRange(b, size) BY <1>4, <1>5, MemoryAssumption DEF FreeRange
<1> QED BY <1>1, <1>6 DEF b

-----------------------------------------------------------------------------
\* A call that fails leaves the memory alone.
LEMMA VmFails ==
  ASSUME VmNow, NEW e, V!Fails(e)
  PROVE  VmKept
BY DEF VmNow, VmKept, V!Fails

\* A call that protects pages of one allocation.
LEMMA VmProtects ==
  ASSUME VmNow, raised.page = -1, NEW pages, pages \subseteq DOMAIN perm, NEW prot \in V!Protections,
         V!Becomes(V!Protected(V!Now, pages, prot)), V!Asks(pages, prot), UNCHANGED <<maps, raised>>
  PROVE  VmKept
<1> DEFINE t == V!Protected([perm |-> perm, guard |-> guard_pages], pages, prot)
           ask2 == [x \in V!Pages |-> IF x \in pages THEN prot ELSE page_asked[x]]
<1>1. VmInv(maps, perm, guard_pages, raised, page_asked) BY DEF VmNow
<1>2. VmInv(maps, t.perm, t.guard, raised, ask2) BY <1>1, ProtectingPages
<1>3. perm' = t.perm /\ guard_pages' = t.guard /\ page_asked' = ask2 BY DEF V!Becomes, V!Now, V!Asks
<1> HIDE DEF t, ask2
<1> QED BY <1>2, <1>3 DEF VmKept

\* A call that maps free pages.
LEMMA VmMaps ==
  ASSUME VmNow, raised.page = -1, NEW base, NEW size \in Nat \ {0}, FreeRange(base, size),
         NEW prot \in V!Protections, NEW tag \in V!Processes \cup {"VirtualAlloc"}, NEW guards \in BOOLEAN,
         V!Map(base, size, prot, tag, guards)
  PROVE  VmKept
<1> DEFINE pages == V!Span(base, size)
           m == [base |-> base, size |-> size, tag |-> tag, free |-> FALSE]
           p == [perm |-> prot.perm, guard |-> prot.guard /\ guards]
           pm1 == [x \in pages \cup DOMAIN perm |-> IF x \in pages THEN p.perm ELSE perm[x]]
           t == IF p.guard THEN V!set_guard_pages([perm |-> pm1, guard |-> guard_pages], pages, p.perm)
                ELSE [perm |-> pm1, guard |-> guard_pages]
           ask2 == [x \in V!Pages |-> IF x \in pages THEN p ELSE page_asked[x]]
<1>1. VmInv(maps, perm, guard_pages, raised, page_asked) BY DEF VmNow
<1>2. m \in MemMap /\ V!PagesOf(m) = pages BY DEF MemMap, V!PagesOf, FreeRange
<1>3. pages \cap DOMAIN perm = {} /\ pages \subseteq V!Pages BY DEF FreeRange
<1>4. prot.perm \in Perms /\ prot.guard \in BOOLEAN /\ prot = [perm |-> prot.perm, guard |-> prot.guard] BY DEF V!Protections
<1>5. p \in V!Protections /\ p.perm = prot.perm BY <1>4 DEF V!Protections
<1>6. [prot EXCEPT !.guard = @ /\ guards] = p
  <2>1. [prot EXCEPT !.guard = @ /\ guards] = [prot EXCEPT !.guard = prot.guard /\ guards] OBVIOUS
  <2>2. \A q : [prot EXCEPT !.guard = q] = [perm |-> prot.perm, guard |-> q] BY <1>4
  <2> QED BY <2>1, <2>2, Zenon
<1>7. /\ maps' = Append(maps, m) /\ raised' = raised
      /\ V!Becomes(t) /\ V!Asks(pages, p)
  <2> DEFINE mapped == [perm |-> [x \in pages \cup DOMAIN perm |-> IF x \in pages THEN prot.perm ELSE perm[x]],
                        guard |-> guard_pages]
  <2>1. mapped = [perm |-> pm1, guard |-> guard_pages] BY <1>5
  <2> HIDE DEF pm1, mapped, p
  <2>2. /\ maps' = Append(maps, m) /\ raised' = raised /\ V!Asks(pages, p)
        /\ V!Becomes(IF p.guard THEN V!set_guard_pages(mapped, pages, p.perm) ELSE mapped)
    BY <1>6 DEF V!Map, mapped
  <2> QED BY <2>1, <2>2
<1>8. perm' = t.perm /\ guard_pages' = t.guard /\ page_asked' = ask2 BY <1>7 DEF V!Becomes, V!Asks
<1> HIDE DEF p, m
<1>9. VmInv(Append(maps, m), t.perm, t.guard, raised, ask2)
  <2> HIDE DEF pages
  <2>1. m \in MemMap /\ V!PagesOf(m) = pages /\ pages \cap DOMAIN perm = {} /\ pages \subseteq V!Pages BY <1>2, <1>3
  <2> QED BY <1>1, <1>5, <2>1, MappingPages
<1> HIDE DEF pages, t, ask2
<1> QED BY <1>7, <1>8, <1>9 DEF VmKept

\* Freeing an allocation unmaps its pages and no others.
LEMMA FreeingAMap ==
  ASSUME VmMap(maps, perm), NEW i \in DOMAIN maps, maps' = [maps EXCEPT ![i].free = TRUE]
  PROVE  VmMap(maps', perm)
<1> DEFINE m == [base |-> maps[i].base, size |-> maps[i].size, tag |-> maps[i].tag, free |-> TRUE]
<1>1. maps \in Seq(MemMap) /\ maps[i] \in MemMap /\ i \in 1 .. Len(maps) /\ DOMAIN maps = 1 .. Len(maps)
  <2>1. maps \in Seq(MemMap) BY DEF VmMap
  <2> QED BY <2>1, PagesOfAMap, LenProperties
<1>2. [maps[i] EXCEPT !.free = TRUE] = m
  <2>1. maps[i] = [base |-> maps[i].base, size |-> maps[i].size, tag |-> maps[i].tag, free |-> maps[i].free]
    BY <1>1 DEF MemMap
  <2>2. \A q : [maps[i] EXCEPT !.free = q] = [base |-> maps[i].base, size |-> maps[i].size, tag |-> maps[i].tag, free |-> q]
    BY <2>1
  <2> QED BY <2>2, Zenon
<1>3. m \in MemMap /\ V!PagesOf(m) = V!PagesOf(maps[i]) BY <1>1 DEF MemMap, V!PagesOf
<1> HIDE DEF m
<1>4. maps' = [maps EXCEPT ![i] = m]
  <2>1. maps' = [maps EXCEPT ![i] = [maps[i] EXCEPT !.free = TRUE]] OBVIOUS
  <2> QED BY <1>2, <2>1
<1>5. /\ maps' \in Seq(MemMap) /\ Len(maps') = Len(maps)
      /\ \A j \in 1 .. Len(maps) : maps'[j] = IF j = i THEN m ELSE maps[j]
  <2> DEFINE ms == [maps EXCEPT ![i] = m]
  <2>1. /\ ms \in Seq(MemMap) /\ Len(ms) = Len(maps)
        /\ \A j \in 1 .. Len(maps) : ms[j] = IF j = i THEN m ELSE maps[j]
    BY <1>1, <1>3, ExceptSeq
  <2> HIDE DEF ms
  <2> QED BY <1>4, <2>1 DEF ms
<1>6. DOMAIN maps' = DOMAIN maps BY <1>1, <1>5, LenProperties
<1>7. \A j \in DOMAIN maps : V!PagesOf(maps'[j]) = V!PagesOf(maps[j]) BY <1>1, <1>3, <1>5
<1>8. DOMAIN perm = UNION {V!PagesOf(maps'[j]) : j \in DOMAIN maps'}
  <2>1. DOMAIN perm = UNION {V!PagesOf(maps[j]) : j \in DOMAIN maps} BY DEF VmMap
  <2>2. ASSUME NEW x \in DOMAIN perm PROVE \E j \in DOMAIN maps' : x \in V!PagesOf(maps'[j])
    <3>1. PICK j \in DOMAIN maps : x \in V!PagesOf(maps[j]) BY <2>1
    <3> QED BY <3>1, <1>6, <1>7
  <2>3. ASSUME NEW j \in DOMAIN maps', NEW x \in V!PagesOf(maps'[j]) PROVE x \in DOMAIN perm
    <3>1. x \in V!PagesOf(maps[j]) /\ j \in DOMAIN maps BY <1>6, <1>7
    <3> QED BY <2>1, <3>1
  <2> DEFINE all == UNION {V!PagesOf(maps'[j]) : j \in DOMAIN maps'}
  <2>4. \A x \in all : x \in DOMAIN perm BY <2>3
  <2>5. \A x \in DOMAIN perm : x \in all BY <2>2
  <2> HIDE DEF all
  <2>6. DOMAIN perm = all BY <2>4, <2>5
  <2> QED BY <2>6 DEF all
<1>9. \A j, k \in DOMAIN maps' : j # k => V!PagesOf(maps'[j]) \cap V!PagesOf(maps'[k]) = {}
  BY <1>6, <1>7 DEF VmMap
<1> QED BY <1>5, <1>8, <1>9 DEF VmMap

\* VirtualFree.
LEMMA VmFrees ==
  ASSUME VmNow, raised.page = -1, NEW a, NEW size, V!VirtualFree(a, size)
  PROVE  VmKept
<1> DEFINE found == {i \in DOMAIN maps : maps[i].base = a}
           i == V!Min(found)
           pages == V!Span(a, IF size = 0 THEN maps[i].size ELSE size)
           gd == [x \in DOMAIN guard_pages \ pages |-> guard_pages[x]]
<1>1. VmMap(maps, perm) /\ DOMAIN guard_pages \subseteq DOMAIN perm /\ page_asked \in Asked
      /\ Pending(perm, guard_pages, raised, page_asked)
  BY DEF VmNow, VmInv
<1>2. CASE found = {} BY <1>2, VmFails DEF V!VirtualFree
<1>3. CASE found # {}
  <2>1. i \in DOMAIN maps
    <3>1. maps \in Seq(MemMap) BY <1>1 DEF VmMap
    <3>2. DOMAIN maps \subseteq Nat
      <4>1. DOMAIN maps = 1 .. Len(maps) BY <3>1, LenProperties
      <4> QED BY <4>1
    <3>3. found \subseteq Nat BY <3>2
    <3>4. V!Min(found) \in found
      <4> HIDE DEF found
      <4> QED BY <1>3, <3>3, LeastOfNaturals
    <3> QED BY <3>4
  <2>2. /\ maps' = [maps EXCEPT ![i].free = TRUE]
        /\ V!Becomes(V!clear_guard_pages(V!Now, pages))
        /\ V!Asks(pages, V!Free) /\ raised' = raised
    BY <1>3 DEF V!VirtualFree
  <2> HIDE DEF i, pages
  <2>3. VmMap(maps', perm) BY <1>1, <2>1, <2>2, FreeingAMap
  <2>4. V!clear_guard_pages(V!Now, pages) = [perm |-> perm, guard |-> gd]
    BY DEF V!clear_guard_pages, V!Restrict, V!Now
  <2>5. perm' = perm /\ guard_pages' = gd
    <3> HIDE DEF gd
    <3> QED BY <2>2, <2>4 DEF V!Becomes
  <2>6. page_asked' = [x \in V!Pages |-> IF x \in pages THEN V!Free ELSE page_asked[x]] BY <2>2 DEF V!Asks
  <2>7. page_asked' \in Asked BY <1>1, <2>6 DEF Asked, V!Free
  <2>8. DOMAIN guard_pages' \subseteq DOMAIN perm BY <1>1, <2>5
  <2>9. -1 \notin V!Pages BY DEF V!Pages
  <2>10. ASSUME NEW x \in V!Pages, page_asked'[x] # V!Free
         PROVE  x \in DOMAIN perm /\ Has(perm, guard_pages', x, page_asked'[x])
    <3>1. x \notin pages /\ page_asked'[x] = page_asked[x] BY <2>6, <2>10
    <3>2. x \in DOMAIN perm /\ Has(perm, guard_pages, x, page_asked[x]) BY <1>1, <2>9, <2>10, <3>1 DEF Pending
    <3>3. /\ x \in DOMAIN guard_pages' <=> x \in DOMAIN guard_pages
          /\ x \in DOMAIN guard_pages => guard_pages'[x] = guard_pages[x]
      BY <2>5, <3>1
    <3> QED BY <3>1, <3>2, <3>3 DEF Has
  <2>11. Pending(perm, guard_pages', raised, page_asked') BY <2>9, <2>10 DEF Pending
  <2> QED BY <2>2, <2>3, <2>5, <2>7, <2>8, <2>11 DEF VmKept, VmInv
<1> QED BY <1>2, <1>3

\* An access to a guard page takes the guard off and raises.
LEMMA VmRaises ==
  ASSUME VmNow, raised.page = -1, NEW a \in V!Pages, V!_raise_protection_fault(a)
  PROVE  VmKept
<1>1. CASE a \notin DOMAIN guard_pages BY <1>1, VmFails DEF V!_raise_protection_fault
<1>2. CASE a \in DOMAIN guard_pages
  <2>1. VmMap(maps, perm) /\ DOMAIN guard_pages \subseteq DOMAIN perm /\ page_asked \in Asked
        /\ Pending(perm, guard_pages, raised, page_asked)
    BY DEF VmNow, VmInv
  <2>2. /\ guard_pages' = [x \in DOMAIN guard_pages \ {a} |-> guard_pages[x]]
        /\ raised' = [page |-> a, perms |-> guard_pages[a]]
        /\ UNCHANGED <<maps, perm, page_asked>>
    BY <1>2 DEF V!_raise_protection_fault, V!Restrict
  <2>3. DOMAIN guard_pages' = DOMAIN guard_pages \ {a} /\ raised'.page = a /\ raised'.perms = guard_pages[a] BY <2>2
  <2>4. -1 \notin V!Pages BY DEF V!Pages
  <2>5. ASSUME NEW x \in V!Pages, page_asked[x] # V!Free
        PROVE  /\ x \in DOMAIN perm
               /\ IF raised'.page = x THEN x \notin DOMAIN guard_pages' /\ raised'.perms = page_asked[x].perm
                  ELSE Has(perm, guard_pages', x, page_asked[x])
    <3>1. x \in DOMAIN perm /\ Has(perm, guard_pages, x, page_asked[x]) BY <2>1, <2>4, <2>5 DEF Pending
    <3>2. CASE x = a BY <1>2, <2>3, <3>1, <3>2 DEF Has
    <3>3. CASE x # a
      <4>1. /\ x \in DOMAIN guard_pages' <=> x \in DOMAIN guard_pages
            /\ x \in DOMAIN guard_pages => guard_pages'[x] = guard_pages[x]
        BY <2>2, <3>3
      <4> QED BY <2>3, <3>1, <3>3, <4>1 DEF Has
    <3> QED BY <3>2, <3>3
  <2>6. Pending(perm, guard_pages', raised', page_asked) BY <1>2, <2>1, <2>3, <2>5 DEF Pending
  <2>7. DOMAIN guard_pages' \subseteq DOMAIN perm BY <2>1, <2>3
  <2> QED BY <2>1, <2>2, <2>6, <2>7 DEF VmKept, VmInv
<1> QED BY <1>1, <1>2

\* The exception of a guard page reaches the guest with the page restored.
LEMMA VmDispatches ==
  ASSUME VmNow, raised.page # -1, V!_dispatch_cpu_exception
  PROVE  VmKept
<1> DEFINE a == raised.page
           pm == [x \in DOMAIN perm |-> IF x \in {a} THEN raised.perms ELSE perm[x]]
           o == [perm |-> page_asked[a].perm, guard |-> FALSE]
<1>1. VmMap(maps, perm) /\ DOMAIN guard_pages \subseteq DOMAIN perm /\ page_asked \in Asked
      /\ Pending(perm, guard_pages, raised, page_asked)
  BY DEF VmNow, VmInv
<1>2. a \in DOMAIN perm /\ a \in V!Pages BY <1>1 DEF Pending, VmMap
<1>3. V!mem_protect(V!Now, {a}, raised.perms) = [perm |-> pm, guard |-> guard_pages] BY DEF V!mem_protect, V!Now
<1>4. perm' = pm /\ guard_pages' = guard_pages
  <2> HIDE DEF pm
  <2> QED BY <1>3 DEF V!_dispatch_cpu_exception, V!Becomes
<1>5. maps' = maps /\ raised'.page = -1 BY DEF V!_dispatch_cpu_exception, V!Nothing, V!NoPage
<1>6. page_asked[a] = [perm |-> page_asked[a].perm, guard |-> page_asked[a].guard] /\ page_asked[a].perm \in Perms \cup {"free"}
      /\ page_asked[a].guard \in BOOLEAN
  BY <1>1, <1>2 DEF Asked
<1>7. page_asked' = [page_asked EXCEPT ![a] = o]
  <2>1. \A q : [page_asked[a] EXCEPT !.guard = q] = [perm |-> page_asked[a].perm, guard |-> q] BY <1>6
  <2>2. [page_asked[a] EXCEPT !.guard = FALSE] = o BY <2>1, Zenon
  <2>3. page_asked' = [page_asked EXCEPT ![a] = [page_asked[a] EXCEPT !.guard = FALSE]]
    BY DEF V!_dispatch_cpu_exception
  <2> HIDE DEF o
  <2> QED BY <2>2, <2>3
<1>8. o \in [perm : Perms \cup {"free"}, guard : BOOLEAN] BY <1>6
<1>9. page_asked[a] = V!Free => o = V!Free BY DEF V!Free
<1>10. o.perm = page_asked[a].perm /\ ~o.guard OBVIOUS
<1> HIDE DEF o, a
<1>11. page_asked' \in Asked BY <1>1, <1>2, <1>7, <1>8 DEF Asked
<1>12. page_asked'[a] = o /\ \A x \in V!Pages : x # a => page_asked'[x] = page_asked[x] BY <1>1, <1>2, <1>7 DEF Asked
<1>13. DOMAIN pm = DOMAIN perm /\ pm[a] = raised.perms /\ \A x \in DOMAIN perm : x # a => pm[x] = perm[x] BY <1>2
<1> HIDE DEF pm
<1>14. ASSUME NEW x \in V!Pages, page_asked'[x] # V!Free
       PROVE  x \in DOMAIN pm /\ Has(pm, guard_pages, x, page_asked'[x])
  <2>1. CASE x = a
    <3>1. page_asked[a] # V!Free BY <1>9, <1>12, <1>14, <2>1
    <3>2. a \notin DOMAIN guard_pages /\ raised.perms = page_asked[a].perm BY <1>1, <1>2, <3>1 DEF Pending, a
    <3> QED BY <1>2, <1>10, <1>12, <1>13, <2>1, <3>2 DEF Has
  <2>2. CASE x # a
    <3>1. x \in DOMAIN perm /\ Has(perm, guard_pages, x, page_asked[x]) BY <1>1, <1>12, <1>14, <2>2 DEF Pending, a
    <3> QED BY <1>12, <1>13, <2>2, <3>1 DEF Has
  <2> QED BY <2>1, <2>2
<1>15. -1 \notin V!Pages BY DEF V!Pages
<1>16. Pending(pm, guard_pages, raised', page_asked') BY <1>5, <1>14, <1>15 DEF Pending
<1>17. VmMap(maps, pm) BY <1>1, <1>13 DEF VmMap
<1> QED BY <1>1, <1>4, <1>5, <1>11, <1>13, <1>16, <1>17 DEF VmKept, VmInv

-----------------------------------------------------------------------------
\* The calls.
LEMMA VmAllocates ==
  ASSUME VmNow, raised.page = -1, NEW process \in V!Processes, NEW a \in V!Pages \cup {-1},
         NEW size \in 1 .. MaxPages, NEW commit \in BOOLEAN, NEW prot \in V!Protections,
         V!VirtualAlloc(a, size, commit, prot) \/ V!VirtualAllocEx(process, a, size, commit, prot)
  PROVE  VmKept
<1> DEFINE start == IF a = -1 THEN virtual_mem_base ELSE a
           base == V!get_valid_ranges(start, size)
           m == maps[V!get_address_map(a)]
<1>1. VmMap(maps, perm) BY DEF VmNow, VmInv
<1>2. start \in Nat /\ size \in Nat \ {0} BY MemoryAssumption DEF V!Pages
<1>3. ASSUME NEW e, V!Fails(e) PROVE VmKept BY <1>3, VmFails
<1>4. ASSUME V!get_address_map(a) # 0, V!commit_pages(m, a, size, prot) PROVE VmKept
  <2> DEFINE pages == V!Span(a, size) \cap V!PagesOf(m)
  <2>1. pages \subseteq DOMAIN perm
    <3>1. V!get_address_map(a) \in DOMAIN maps BY <1>1, <1>4, TheMapOfAnAddress
    <3> QED BY <1>1, <3>1, PagesOfAMap
  <2>2. /\ V!Becomes(V!Protected(V!Now, pages, prot)) /\ V!Asks(pages, prot)
        /\ UNCHANGED <<maps, raised>>
    BY <1>4 DEF V!commit_pages
  <2> HIDE DEF pages
  <2> QED BY <2>1, <2>2, VmProtects
<1>5. base # -1 => FreeRange(base, size)
  <2> HIDE DEF start
  <2> QED BY <1>2, ValidRanges
<1>6. ASSUME base # -1, NEW tag \in V!Processes \cup {"VirtualAlloc"}, NEW guards \in BOOLEAN,
             V!Map(base, size, prot, tag, guards)
      PROVE  VmKept
  <2> HIDE DEF base
  <2> QED BY <1>2, <1>5, <1>6, VmMaps
<1>7. V!IsTagged(a, "VirtualAlloc") \/ V!IsTagged(a, process) => V!get_address_map(a) # 0 BY DEF V!IsTagged
<1>8. CASE V!VirtualAlloc(a, size, commit, prot)
  <2>1. \/ V!IsTagged(a, "VirtualAlloc") /\ V!commit_pages(m, a, size, prot)
        \/ \E e : V!Fails(e)
        \/ base # -1 /\ V!Map(base, size, prot, "VirtualAlloc", TRUE)
    BY <1>8 DEF V!VirtualAlloc, V!NoPage
  <2>2. TRUE \in BOOLEAN OBVIOUS
  <2> HIDE DEF base, m
  <2> QED BY <1>3, <1>4, <1>6, <1>7, <2>1, <2>2
<1>9. CASE V!VirtualAllocEx(process, a, size, commit, prot)
  <2> DEFINE guards == process = "current"
  <2>1. \/ V!IsTagged(a, process) /\ V!commit_pages(m, a, size, prot)
        \/ \E e : V!Fails(e)
        \/ base # -1 /\ V!Map(base, size, prot, process, guards)
    BY <1>9 DEF V!VirtualAllocEx, V!NoPage
  <2>2. guards \in BOOLEAN OBVIOUS
  <2> HIDE DEF base, m, guards
  <2> QED BY <1>3, <1>4, <1>6, <1>7, <2>1, <2>2
<1> QED BY <1>8, <1>9

\* VirtualProtect and VirtualProtectEx.
LEMMA VmChanges ==
  ASSUME VmNow, raised.page = -1, NEW process, NEW a \in V!Pages, NEW size, size \in 1 .. MaxPages,
         NEW prot \in V!Protections, NEW old,
         V!VirtualProtect(a, size, prot, old) \/ V!VirtualProtectEx(process, a, size, prot, old)
  PROVE  VmKept
<1> DEFINE pages == V!Span(a, size)
           out == pages \ DOMAIN perm
<1>1. VmMap(maps, perm) BY DEF VmNow, VmInv
<1>2. CASE \E e : V!Fails(e) BY <1>2, VmFails
<1>3. CASE /\ V!get_address_map(a) # 0 /\ V!get_first_unmapped(a, size) = a
           /\ V!Becomes(V!Protected(V!Now, pages, prot)) /\ V!Asks(pages, prot)
           /\ UNCHANGED <<maps, raised>>
  <2>1. a \in DOMAIN perm
    <3>1. V!get_address_map(a) \in DOMAIN maps /\ a \in V!PagesOf(maps[V!get_address_map(a)])
      BY <1>1, <1>3, TheMapOfAnAddress
    <3> QED BY <1>1, <3>1, PagesOfAMap
  <2>2. a = IF out = {} THEN a ELSE V!Min(out) BY <1>3 DEF V!get_first_unmapped
  <2>3. out \subseteq Nat BY MemoryAssumption DEF V!Span, V!Pages
  <2>4. out = {}
    <3>1. SUFFICES ASSUME out # {} PROVE FALSE OBVIOUS
    <3>2. V!Min(out) \in out
      <4> HIDE DEF out
      <4> QED BY <2>3, <3>1, LeastOfNaturals
    <3> QED BY <2>1, <2>2, <3>1, <3>2
  <2>5. pages \subseteq DOMAIN perm BY <2>4
  <2> HIDE DEF pages
  <2> QED BY <1>3, <2>5, VmProtects
<1>4. V!VirtualProtect(a, size, prot, old) \/ \E e : V!Fails(e) BY DEF V!VirtualProtectEx
<1> QED BY <1>2, <1>3, <1>4 DEF V!VirtualProtect

\* The calls that only ask.
LEMMA VmAsks ==
  ASSUME VmNow, NEW process, NEW a, NEW size, NEW buffer,
         \/ V!IsBadReadPtr(a, size) \/ V!IsBadWritePtr(a, size) \/ V!IsBadStringPtr(a, size)
         \/ V!VirtualQuery(a, buffer) \/ V!VirtualQueryEx(process, a, buffer)
         \/ V!ReadProcessMemory(process, a, size, buffer)
  PROVE  VmKept
<1>1. \E e : V!Fails(e)
  <2>1. CASE V!IsBadReadPtr(a, size) \/ V!IsBadWritePtr(a, size) BY <2>1 DEF V!IsBadReadPtr, V!IsBadWritePtr
  <2>2. CASE V!IsBadStringPtr(a, size) BY <2>2 DEF V!IsBadStringPtr
  <2>3. CASE V!VirtualQuery(a, buffer) \/ V!VirtualQueryEx(process, a, buffer)
    BY <2>3 DEF V!VirtualQuery, V!VirtualQueryEx
  <2>4. CASE V!ReadProcessMemory(process, a, size, buffer) BY <2>4 DEF V!ReadProcessMemory
  <2> QED BY <2>1, <2>2, <2>3, <2>4
<1> QED BY <1>1, VmFails

\* Accesses of the guest.
LEMMA VmAccesses ==
  ASSUME VmNow, raised.page = -1, NEW a \in V!Pages, NEW access, NEW dispatch, V!Access(a, access, dispatch)
  PROVE  VmKept
<1>1. V!_raise_protection_fault(a) \/ \E e : V!Fails(e)
  <2>1. CASE V!Allows(perm[a], access) BY <2>1 DEF V!Access
  <2>2. CASE ~V!Allows(perm[a], access)
    <3>1. V!_hook_mem_unmapped(a, access, dispatch) BY <2>2 DEF V!Access
    <3> QED BY <3>1 DEF V!_hook_mem_unmapped, V!_handle_prot_fetch, V!_handle_prot_write
  <2> QED BY <2>1, <2>2
<1> QED BY <1>1, VmFails, VmRaises

\* Every call and every access keeps the invariant of the memory.
LEMMA VmStep ==
  ASSUME VmNow, V!Next
  PROVE  VmKept
<1>1. CASE raised.page # -1 BY <1>1, VmDispatches DEF V!Next, V!NoPage
<1>2. CASE raised.page = -1
  <2>1. V!Calls BY <1>2 DEF V!Next, V!NoPage
  <2>2. "current" \in V!Processes BY DEF V!Processes
  <2>3. CASE \E a \in V!Pages \cup {V!NoPage}, n \in 1 .. MaxPages, commit \in BOOLEAN, prot \in V!Protections :
               \/ V!VirtualAlloc(a, n, commit, prot)
               \/ \E process \in V!Processes : V!VirtualAllocEx(process, a, n, commit, prot)
               \/ V!VirtualAllocExNuma("current", a, n, commit, prot)
    BY <1>2, <2>2, <2>3, VmAllocates DEF V!VirtualAllocExNuma, V!NoPage
  <2>4. CASE \E a \in V!Pages, n \in 1 .. MaxPages, prot \in V!Protections, old \in BOOLEAN :
               \/ V!VirtualProtect(a, n, prot, old)
               \/ \E process \in V!Processes : V!VirtualProtectEx(process, a, n, prot, old)
    BY <1>2, <2>4, VmChanges
  <2>5. CASE \E a \in V!Pages, n \in 0 .. MaxPages :
               \/ V!VirtualFree(a, n) \/ V!IsBadReadPtr(a, n) \/ V!IsBadWritePtr(a, n) \/ V!IsBadStringPtr(a, n)
    BY <1>2, <2>5, VmFrees, VmAsks
  <2>6. CASE \E a \in V!Pages, buffer \in BOOLEAN :
               \/ V!VirtualQuery(a, buffer)
               \/ \E process \in V!Processes : V!VirtualQueryEx(process, a, buffer)
               \/ \E process \in V!Processes, n \in 1 .. MaxPages : V!ReadProcessMemory(process, a, n, buffer)
    BY <2>6, VmAsks
  <2>7. CASE \E a \in V!Pages, access \in {"read", "write", "fetch"}, dispatch \in BOOLEAN : V!Access(a, access, dispatch)
    BY <1>2, <2>7, VmAccesses
  <2> QED BY <2>1, <2>3, <2>4, <2>5, <2>6, <2>7 DEF V!Calls
<1> QED BY <1>1, <1>2

\* No page is mapped at the start.
LEMMA VmStart == V!Init => VmNow
<1> SUFFICES ASSUME V!Init PROVE VmNow OBVIOUS
<1>1. maps = <<>> /\ perm = <<>> /\ guard_pages = <<>> /\ raised = V!Nothing
      /\ page_asked = [x \in V!Pages |-> V!Free]
  BY DEF V!Init
<1>2. VmMap(maps, perm) BY <1>1 DEF VmMap
<1>3. DOMAIN guard_pages = {} BY <1>1
<1>4. page_asked \in Asked BY <1>1 DEF Asked, V!Free
<1>5. raised.page = -1 BY <1>1 DEF V!Nothing, V!NoPage
<1>6. Pending(perm, guard_pages, raised, page_asked) BY <1>1, <1>5 DEF Pending
<1> QED BY <1>2, <1>3, <1>4, <1>6 DEF VmNow, VmInv

\* The invariant is as strong as the properties.
LEMMA VmInvImplies == VmNow => V!TypeOK /\ V!PagesAreAsAsked
<1> SUFFICES ASSUME VmNow PROVE V!TypeOK /\ V!PagesAreAsAsked OBVIOUS
<1>1. VmMap(maps, perm) /\ DOMAIN guard_pages \subseteq DOMAIN perm /\ Pending(perm, guard_pages, raised, page_asked)
  BY DEF VmNow, VmInv
<1>2. V!TypeOK BY <1>1 DEF VmMap, V!TypeOK
<1>3. V!PagesAreAsAsked BY <1>1 DEF Pending, Has, V!PagesAreAsAsked
<1> QED BY <1>2, <1>3

\* The invariant of virtual memory holds whatever the guest calls.
THEOREM MemoryInvariance == V!Spec => []VmNow
<1>1. VmNow /\ [V!Next]_(V!vars) => VmNow'
  <2> SUFFICES ASSUME VmNow, [V!Next]_(V!vars) PROVE VmNow' OBVIOUS
  <2>1. CASE V!Next BY <2>1, VmStep DEF VmKept, VmNow
  <2>2. CASE UNCHANGED V!vars BY <2>2 DEF V!vars, VmNow
  <2> QED BY <2>1, <2>2
<1> QED BY <1>1, VmStart, PTL DEF V!Spec

\* A page has the protection that the guest asked for last, also after a guard page was hit, for any number of
\* pages and allocations (set_guard_pages, mem_protect, VirtualProtect, VirtualFree).
THEOREM MemoryIsAsAsked == V!Spec => [](V!TypeOK /\ V!PagesAreAsAsked)
BY MemoryInvariance, VmInvImplies, PTL
-----------------------------------------------------------------------------
(***************************************************************************)
(* Services of a process.  The newest entry of a live heap block in the    *)
(* list of allocations has the size asked for; a name has one atom, with   *)
(* the count of its additions; no buffer of an enumeration outlives it.    *)
(***************************************************************************)

\* What the emulator maps for the guest, besides heap blocks.
Tags == {"heap", "emu", "environment", "none"}
Mapping == [tag : Tags, size : Nat, free : BOOLEAN]

\* The newest entry of an address in the list of allocations has a size.
Newest(s, a, n) ==
  \E i \in DOMAIN s : s[i][1] = a /\ s[i][2] = n /\ \A j \in DOMAIN s : s[j][1] = a => j <= i

\* The mappings are at slots.
MapsOK(m) ==
  /\ m = [a \in DOMAIN m |-> m[a]] /\ DOMAIN m \subseteq P!Slots
  /\ \A a \in DOMAIN m : m[a] \in Mapping

HeapBlock(m, a) == a \in DOMAIN m /\ ~m[a].free /\ m[a].tag = "heap"

HeapOK(h, ask) ==
  /\ h = [maps |-> h.maps, allocs |-> h.allocs, heaps |-> h.heaps, keep |-> h.keep]
  /\ MapsOK(h.maps)
  /\ h.allocs \in Seq(P!Slots \X Nat)
  /\ ask \in [P!Slots -> Int]
  /\ \A a \in P!Slots : HeapBlock(h.maps, a) => Newest(h.allocs, a, ask[a])

-----------------------------------------------------------------------------
\* A mapping whose `free` is set.
LEMMA RecordOfAMapping ==
  ASSUME NEW r \in Mapping, NEW q
  PROVE  [r EXCEPT !.free = q] = [tag |-> r.tag, size |-> r.size, free |-> q]
BY DEF Mapping

\* t is h with a new mapping at a slot.
NewMapping(h, t, slot, tag) ==
  /\ t = [maps |-> t.maps, allocs |-> h.allocs, heaps |-> h.heaps, keep |-> h.keep]
  /\ MapsOK(t.maps)
  /\ \A a \in P!Slots : HeapBlock(t.maps, a) => (a = slot /\ tag = "heap") \/ (a # slot /\ HeapBlock(h.maps, a))

\* mem_alloc adds a mapping at a free slot.
LEMMA MappingABlock ==
  ASSUME NEW h, NEW ask, HeapOK(h, ask), NEW slot \in P!Slots, slot \notin DOMAIN h.maps,
         NEW tag \in Tags, NEW n \in Nat
  PROVE  NewMapping(h, P!mem_alloc(h, slot, tag, n), slot, tag)
<1> DEFINE o == [tag |-> tag, size |-> n + 1, free |-> FALSE]
           m == [a \in DOMAIN h.maps \cup {slot} |->
                     IF a = slot THEN [tag |-> tag, size |-> n + 1, free |-> FALSE] ELSE h.maps[a]]
           t == P!mem_alloc(h, slot, tag, n)
<1>1. t = [h EXCEPT !.maps = m] BY DEF P!mem_alloc
<1>2. h = [maps |-> h.maps, allocs |-> h.allocs, heaps |-> h.heaps, keep |-> h.keep] BY DEF HeapOK
<1>3. t = [maps |-> m, allocs |-> h.allocs, heaps |-> h.heaps, keep |-> h.keep] /\ t.maps = m
  <2> HIDE DEF m, t
  <2> QED BY <1>1, <1>2
<1>4. DOMAIN m = DOMAIN h.maps \cup {slot} /\ m[slot] = o /\ \A a \in DOMAIN h.maps : m[a] = h.maps[a] OBVIOUS
<1>5. o \in Mapping /\ o.tag = tag BY DEF Mapping
<1>6. m = [a \in DOMAIN m |-> m[a]] OBVIOUS
<1> HIDE DEF m, o, t
<1>7. MapsOK(m) BY <1>4, <1>5, <1>6 DEF MapsOK, HeapOK
<1>8. \A a \in P!Slots : HeapBlock(m, a) => (a = slot /\ tag = "heap") \/ (a # slot /\ HeapBlock(h.maps, a))
  BY <1>4, <1>5 DEF HeapBlock
<1>9. NewMapping(h, t, slot, tag) BY <1>3, <1>7, <1>8 DEF NewMapping
<1> QED BY <1>9 DEF t

\* A mapping that is no heap block disturbs no block.
LEMMA MappingOther ==
  ASSUME NEW h, NEW ask, HeapOK(h, ask), NEW slot \in P!Slots, slot \notin DOMAIN h.maps,
         NEW tag \in Tags, tag # "heap", NEW n \in Nat
  PROVE  /\ HeapOK(P!mem_alloc(h, slot, tag, n), ask)
         /\ HeapOK([P!mem_alloc(h, slot, tag, n) EXCEPT !.heaps = slot], ask)
<1> DEFINE t == P!mem_alloc(h, slot, tag, n)
           u == [maps |-> t.maps, allocs |-> h.allocs, heaps |-> slot, keep |-> h.keep]
<1>1. NewMapping(h, t, slot, tag) BY MappingABlock
<1> HIDE DEF t
<1>2. t = [maps |-> t.maps, allocs |-> h.allocs, heaps |-> h.heaps, keep |-> h.keep] BY <1>1 DEF NewMapping
<1>3. t.allocs = h.allocs /\ t.heaps = h.heaps /\ t.keep = h.keep BY <1>2
<1>4. [t EXCEPT !.heaps = slot] = u BY <1>2
<1>5. MapsOK(t.maps) /\ \A a \in P!Slots : HeapBlock(t.maps, a) => HeapBlock(h.maps, a) BY <1>1 DEF NewMapping
<1>6. HeapOK(t, ask) BY <1>2, <1>3, <1>5 DEF HeapOK
<1>7. u = [maps |-> u.maps, allocs |-> u.allocs, heaps |-> u.heaps, keep |-> u.keep]
      /\ u.maps = t.maps /\ u.allocs = h.allocs
  OBVIOUS
<1> HIDE DEF u
<1>8. HeapOK(u, ask) BY <1>5, <1>7 DEF HeapOK
<1> QED BY <1>4, <1>6, <1>8 DEF t

\* heap_alloc adds a block and its entry, which is then the newest of its address.
LEMMA AllocatingABlock ==
  ASSUME NEW h, NEW ask, HeapOK(h, ask), NEW slot \in P!Slots, slot \notin DOMAIN h.maps, NEW n \in Nat
  PROVE  HeapOK(P!heap_alloc(h, slot, n), [ask EXCEPT ![slot] = n])
<1> DEFINE t == P!mem_alloc(h, slot, "heap", n)
           o == <<slot, n>>
           s == Append(h.allocs, o)
           u == [maps |-> t.maps, allocs |-> s, heaps |-> h.heaps, keep |-> h.keep]
           ask2 == [ask EXCEPT ![slot] = n]
<1>1. NewMapping(h, t, slot, "heap")
  <2> DEFINE tag == "heap"
  <2>1. tag \in Tags BY DEF Tags
  <2> HIDE DEF tag
  <2>2. NewMapping(h, P!mem_alloc(h, slot, tag, n), slot, tag) BY <2>1, MappingABlock
  <2> QED BY <2>2 DEF tag
<1>2. P!heap_alloc(h, slot, n) = [t EXCEPT !.allocs = Append(t.allocs, o)] BY DEF P!heap_alloc
<1> HIDE DEF t
<1>3. t = [maps |-> t.maps, allocs |-> h.allocs, heaps |-> h.heaps, keep |-> h.keep] BY <1>1 DEF NewMapping
<1>4. MapsOK(t.maps) /\ \A a \in P!Slots : HeapBlock(t.maps, a) => a = slot \/ HeapBlock(h.maps, a)
  BY <1>1 DEF NewMapping
<1>5. P!heap_alloc(h, slot, n) = u
  <2>1. t.allocs = h.allocs BY <1>3
  <2>2. P!heap_alloc(h, slot, n) = [t EXCEPT !.allocs = s] BY <1>2, <2>1
  <2> HIDE DEF s
  <2> QED BY <1>3, <2>2
<1>6. o \in P!Slots \X Nat /\ o[1] = slot /\ o[2] = n OBVIOUS
<1> HIDE DEF o
<1> DEFINE l == Len(h.allocs)
<1>7. h.allocs \in Seq(P!Slots \X Nat) /\ l \in Nat /\ DOMAIN h.allocs = 1 .. l
  <2>1. h.allocs \in Seq(P!Slots \X Nat) BY DEF HeapOK
  <2> QED BY <2>1, LenProperties
<1>8. /\ s \in Seq(P!Slots \X Nat) /\ DOMAIN s = 1 .. (l + 1)
      /\ s[l + 1] = o /\ \A i \in 1 .. l : s[i] = h.allocs[i]
  <2>1. /\ s \in Seq(P!Slots \X Nat) /\ Len(s) = l + 1
        /\ \A i \in 1 .. l : s[i] = h.allocs[i]
        /\ s[l + 1] = o
    BY <1>6, <1>7, AppendProperties
  <2> HIDE DEF s, l
  <2> QED BY <2>1, LenProperties
<1> HIDE DEF s, l
<1>9. Newest(s, slot, n)
  <2>1. l + 1 \in DOMAIN s /\ \A j \in DOMAIN s : j <= l + 1 BY <1>7, <1>8
  <2> QED BY <1>6, <1>8, <2>1 DEF Newest
<1>10. ASSUME NEW a \in P!Slots, a # slot, NEW k, Newest(h.allocs, a, k) PROVE Newest(s, a, k)
  <2>1. PICK i \in DOMAIN h.allocs : /\ h.allocs[i][1] = a /\ h.allocs[i][2] = k
                                    /\ \A j \in DOMAIN h.allocs : h.allocs[j][1] = a => j <= i
    BY <1>10 DEF Newest
  <2>2. i \in DOMAIN s /\ s[i] = h.allocs[i] BY <1>7, <1>8
  <2>3. ASSUME NEW j \in DOMAIN s, s[j][1] = a PROVE j <= i
    <3>1. j # l + 1 BY <1>6, <1>8, <1>10, <2>3
    <3>2. j \in DOMAIN h.allocs BY <1>7, <1>8, <3>1
    <3>3. s[j] = h.allocs[j] BY <1>7, <1>8, <3>2
    <3> QED BY <2>1, <2>3, <3>2, <3>3
  <2> QED BY <2>1, <2>2, <2>3 DEF Newest
<1>11. /\ ask2 \in [P!Slots -> Int] /\ ask2[slot] = n
       /\ \A a \in P!Slots : a # slot => ask2[a] = ask[a]
  BY DEF HeapOK
<1> HIDE DEF ask2
<1>12. ASSUME NEW a \in P!Slots, HeapBlock(t.maps, a) PROVE Newest(s, a, ask2[a])
  <2>1. CASE a = slot BY <1>9, <1>11, <2>1
  <2>2. CASE a # slot
    <3>1. Newest(h.allocs, a, ask[a]) BY <1>4, <1>12, <2>2 DEF HeapOK
    <3> QED BY <1>10, <1>11, <2>2, <3>1
  <2> QED BY <2>1, <2>2
<1>13. /\ u = [maps |-> u.maps, allocs |-> u.allocs, heaps |-> u.heaps, keep |-> u.keep]
       /\ u.maps = t.maps /\ u.allocs = s
  OBVIOUS
<1> HIDE DEF u
<1>14. HeapOK(u, ask2) BY <1>4, <1>8, <1>11, <1>12, <1>13 DEF HeapOK
<1> QED BY <1>5, <1>14 DEF ask2

\* Freeing a mapping makes no block.
LEMMA FreeingABlock ==
  ASSUME NEW h, NEW ask, HeapOK(h, ask), NEW a
  PROVE  HeapOK(P!mem_free(h, a), ask)
<1> DEFINE o == [tag |-> h.maps[a].tag, size |-> h.maps[a].size, free |-> TRUE]
           m == [h.maps EXCEPT ![a] = o]
           freed == [maps |-> m, allocs |-> h.allocs, heaps |-> h.heaps, keep |-> h.keep]
           gone == {b \in P!Mapped(h) : P!Block(b) = P!Block(a)}
           left == [x \in P!Mapped(h) \ gone |-> m[x]]
           rest == [maps |-> left, allocs |-> h.allocs, heaps |-> h.heaps, keep |-> h.keep]
           t == P!mem_free(h, a)
<1>1. /\ h = [maps |-> h.maps, allocs |-> h.allocs, heaps |-> h.heaps, keep |-> h.keep]
      /\ MapsOK(h.maps)
  BY DEF HeapOK
<1>2. CASE a \notin P!Mapped(h)
  <2>1. t = h BY <1>2 DEF P!mem_free
  <2> HIDE DEF t
  <2>2. HeapOK(t, ask) BY <2>1
  <2> QED BY <2>2 DEF t
<1>3. CASE a \in P!Mapped(h)
  <2>1. a \in DOMAIN h.maps /\ h.maps[a] \in Mapping BY <1>1, <1>3 DEF P!Mapped, MapsOK
  <2>2. [h.maps[a] EXCEPT !.free = TRUE] = o
    <3>1. \A q : [h.maps[a] EXCEPT !.free = q] = [tag |-> h.maps[a].tag, size |-> h.maps[a].size, free |-> q]
      BY <2>1, RecordOfAMapping
    <3> QED BY <3>1, Zenon
  <2>3. o \in Mapping /\ o.free = TRUE BY <2>1 DEF Mapping
  <2>4. [h EXCEPT !.maps[a].free = TRUE] = freed
    <3>1. [h EXCEPT !.maps[a].free = TRUE] = [h EXCEPT !.maps = [h.maps EXCEPT ![a] = [h.maps[a] EXCEPT !.free = TRUE]]] OBVIOUS
    <3> HIDE DEF o
    <3>2. [h EXCEPT !.maps[a].free = TRUE] = [h EXCEPT !.maps = m] BY <2>2, <3>1
    <3> HIDE DEF m
    <3> QED BY <1>1, <3>2
  <2> HIDE DEF o
  <2>5. DOMAIN m = DOMAIN h.maps /\ m[a] = o /\ \A x \in DOMAIN h.maps : x # a => m[x] = h.maps[x] BY <2>1
  <2>6. m = [x \in DOMAIN m |-> m[x]] OBVIOUS
  <2> HIDE DEF m
  <2>7. MapsOK(m) BY <1>1, <2>3, <2>5, <2>6 DEF MapsOK
  <2>8. \A x \in P!Slots : HeapBlock(m, x) => HeapBlock(h.maps, x) BY <2>3, <2>5 DEF HeapBlock
  <2>9. DOMAIN left \subseteq DOMAIN m /\ (\A x \in DOMAIN left : left[x] = m[x]) /\ left = [x \in DOMAIN left |-> left[x]]
    BY <2>5 DEF P!Mapped
  <2>10. t = freed \/ t = rest
    <3> HIDE DEF t
    <3>1. [freed EXCEPT !.maps = P!Restrict(@, P!Mapped(h) \ gone)] = rest
      <4>1. P!Restrict(freed.maps, P!Mapped(h) \ gone) = left BY DEF P!Restrict
      <4>2. [freed EXCEPT !.maps = P!Restrict(@, P!Mapped(h) \ gone)] = [freed EXCEPT !.maps = P!Restrict(freed.maps, P!Mapped(h) \ gone)] OBVIOUS
      <4> HIDE DEF left, gone
      <4> QED BY <4>1, <4>2
    <3> HIDE DEF freed, rest, gone
    <3>2. t = freed \/ t = [freed EXCEPT !.maps = P!Restrict(@, P!Mapped(h) \ gone)]
      BY <1>3, <2>4 DEF t, P!mem_free, gone
    <3> QED BY <3>1, <3>2
  <2>11. /\ freed = [maps |-> freed.maps, allocs |-> freed.allocs, heaps |-> freed.heaps, keep |-> freed.keep]
         /\ freed.maps = m /\ freed.allocs = h.allocs
    OBVIOUS
  <2>12. /\ rest = [maps |-> rest.maps, allocs |-> rest.allocs, heaps |-> rest.heaps, keep |-> rest.keep]
         /\ rest.maps = left /\ rest.allocs = h.allocs
    <3> HIDE DEF left
    <3> QED OBVIOUS
  <2> HIDE DEF freed, rest, left, t
  <2>13. MapsOK(left) BY <2>7, <2>9 DEF MapsOK
  <2>14. \A x \in P!Slots : HeapBlock(left, x) => HeapBlock(h.maps, x) BY <2>8, <2>9 DEF HeapBlock
  <2>15. HeapOK(freed, ask) BY <2>7, <2>8, <2>11 DEF HeapOK
  <2>16. HeapOK(rest, ask) BY <2>12, <2>13, <2>14 DEF HeapOK
  <2>17. HeapOK(t, ask) BY <2>10, <2>15, <2>16
  <2> QED BY <2>17 DEF t
<1> QED BY <1>2, <1>3

\* heap_free frees a block, or nothing.
LEMMA FreeingAHeapBlock ==
  ASSUME NEW h, NEW ask, HeapOK(h, ask), NEW a
  PROVE  HeapOK(P!heap_free(h, a), ask)
BY FreeingABlock DEF P!heap_free

\* heap_size answers with the newest entry of the address, which is the size that was asked for.
LEMMA HeapBlocksAreAsAsked ==
  ASSUME NEW h, NEW ask, HeapOK(h, ask), NEW a \in P!Slots, P!IsHeapBlock(h, a)
  PROVE  P!heap_size(h, a) = ask[a]
<1> DEFINE E == P!Entries(h, a)
           last(i) == i \in E /\ \A j \in E : j <= i
<1>1. HeapBlock(h.maps, a) BY DEF HeapBlock, P!IsHeapBlock, P!Mapped
<1>2. h.allocs \in Seq(P!Slots \X Nat) /\ DOMAIN h.allocs \subseteq Int
  <2>1. h.allocs \in Seq(P!Slots \X Nat) BY DEF HeapOK
  <2>2. DOMAIN h.allocs = 1 .. Len(h.allocs) /\ Len(h.allocs) \in Nat BY <2>1, LenProperties
  <2> QED BY <2>1, <2>2
<1>3. PICK i \in DOMAIN h.allocs : /\ h.allocs[i][1] = a /\ h.allocs[i][2] = ask[a]
                                  /\ \A j \in DOMAIN h.allocs : h.allocs[j][1] = a => j <= i
  BY <1>1 DEF HeapOK, Newest
<1>4. last(i) BY <1>3 DEF P!Entries
<1>5. \A k : last(k) => k = i BY <1>2, <1>4 DEF P!Entries
<1>6. (CHOOSE k \in E : \A j \in E : j <= k) = i
  <2> HIDE DEF E
  <2> QED BY <1>4, <1>5
<1> QED BY <1>3, <1>6 DEF P!heap_size, P!IsHeapBlock

-----------------------------------------------------------------------------
\* The calls of the heap.
HeapKept == HeapOK(heap', heap_asked') /\ P!OtherThanHeap

\* A block of n bytes, and then a block that goes.
Allocates(n) ==
  \/ \E slot \in P!Unmapped(heap), b \in Int :
       /\ \/ heap' = P!heap_alloc(heap, slot, n)
          \/ heap' = P!heap_free(P!heap_alloc(heap, slot, n), b)
       /\ heap_asked' = [heap_asked EXCEPT ![slot] = n] /\ P!OtherThanHeap
  \/ \E e : P!Fails(e)

\* A call that fails leaves the heap alone.
LEMMA HeapFails ==
  ASSUME HeapOK(heap, heap_asked), NEW e, P!Fails(e)
  PROVE  HeapKept
BY DEF HeapKept, P!Fails

\* A call that gives the heap another good state.
LEMMA HeapTurns ==
  ASSUME NEW h, HeapOK(h, heap_asked), NEW e, P!Heap(h, e)
  PROVE  HeapKept
BY DEF HeapKept, P!Heap

\* A call that allocates, and then frees an older block or the new one.
LEMMA HeapAllocates ==
  ASSUME HeapOK(heap, heap_asked), NEW n \in Nat, Allocates(n)
  PROVE  HeapKept
<1>1. CASE \E e : P!Fails(e) BY <1>1, HeapFails
<1>2. CASE \E slot \in P!Unmapped(heap), b \in Int :
             /\ \/ heap' = P!heap_alloc(heap, slot, n)
                \/ heap' = P!heap_free(P!heap_alloc(heap, slot, n), b)
             /\ heap_asked' = [heap_asked EXCEPT ![slot] = n] /\ P!OtherThanHeap
  <2>1. PICK slot \in P!Unmapped(heap), b \in Int :
             /\ \/ heap' = P!heap_alloc(heap, slot, n)
                \/ heap' = P!heap_free(P!heap_alloc(heap, slot, n), b)
             /\ heap_asked' = [heap_asked EXCEPT ![slot] = n] /\ P!OtherThanHeap
    BY <1>2
  <2> DEFINE t == P!heap_alloc(heap, slot, n)
             ask == [heap_asked EXCEPT ![slot] = n]
  <2>2. HeapOK(t, ask)
    <3>1. slot \in P!Slots /\ slot \notin DOMAIN heap.maps BY DEF P!Unmapped, P!Mapped
    <3> QED BY <3>1, AllocatingABlock
  <2> HIDE DEF t, ask
  <2>3. HeapOK(P!heap_free(t, b), ask) BY <2>2, FreeingAHeapBlock
  <2>4. (heap' = t \/ heap' = P!heap_free(t, b)) /\ heap_asked' = ask BY <2>1 DEF t, ask
  <2> QED BY <2>1, <2>2, <2>3, <2>4 DEF HeapKept
<1> QED BY <1>1, <1>2 DEF Allocates

\* The allocating functions allocate and free nothing.
LEMMA AllocMeans ==
  ASSUME NEW n, P!Alloc(n)
  PROVE  Allocates(n)
BY DEF P!Alloc, P!AllocThen, Allocates

\* So do those that copy a text.
LEMMA NewTextMeans ==
  ASSUME NEW n, P!NewText(n)
  PROVE  Allocates(n)
BY DEF P!NewText, P!AllocThen, Allocates

\* realloc allocates first and frees then, or frees only.
LEMMA ReallocMeans ==
  ASSUME NEW a \in Int, NEW n, P!realloc(a, n)
  PROVE  Allocates(n) \/ \E e : P!Heap(P!heap_free(heap, a), e)
<1>1. CASE a # 0 /\ n = 0 BY <1>1 DEF P!realloc
<1>2. CASE ~(a # 0 /\ n = 0)
  <2>1. \/ P!AllocThen(n, "raises", LAMBDA h, slot : IF slot = a THEN P!heap_free(h, a) ELSE h)
        \/ P!AllocThen(n, "address", LAMBDA h, slot : P!heap_free(h, a))
    BY <1>2 DEF P!realloc
  <2>2. CASE P!AllocThen(n, "raises", LAMBDA h, slot : IF slot = a THEN P!heap_free(h, a) ELSE h)
    BY <2>2 DEF P!AllocThen, Allocates
  <2>3. CASE P!AllocThen(n, "address", LAMBDA h, slot : P!heap_free(h, a))
    BY <2>3 DEF P!AllocThen, Allocates
  <2> QED BY <2>1, <2>2, <2>3
<1> QED BY <1>1, <1>2

\* CoTaskMemRealloc allocates first and frees then, or frees only.
LEMMA CoTaskMemReallocMeans ==
  ASSUME NEW a \in Int, NEW n, P!CoTaskMemRealloc(a, n)
  PROVE  Allocates(n) \/ (n = 0 /\ Allocates(1)) \/ \E e : P!Heap(P!heap_free(heap, a), e)
<1>1. CASE a = 0 BY <1>1, AllocMeans DEF P!CoTaskMemRealloc, P!CoTaskMemAlloc
<1>2. CASE a # 0 /\ n = 0 BY <1>2 DEF P!CoTaskMemRealloc
<1>3. CASE a # 0 /\ n # 0
  <2>1. \/ P!AllocThen(n, "null", LAMBDA h, slot : P!heap_free(h, slot))
        \/ P!Fails("raises")
        \/ P!AllocThen(n, "address", LAMBDA h, slot : P!heap_free(h, a))
    BY <1>3 DEF P!CoTaskMemRealloc
  <2>2. CASE P!AllocThen(n, "null", LAMBDA h, slot : P!heap_free(h, slot))
    <3>1. P!Unmapped(heap) \subseteq Int BY DEF P!Unmapped, P!Slots
    <3> QED BY <2>2, <3>1 DEF P!AllocThen, Allocates
  <2>3. CASE P!AllocThen(n, "address", LAMBDA h, slot : P!heap_free(h, a))
    BY <2>3 DEF P!AllocThen, Allocates
  <2>4. CASE P!Fails("raises") BY <2>4 DEF Allocates
  <2> QED BY <2>1, <2>2, <2>3, <2>4
<1> QED BY <1>1, <1>2, <1>3

\* RtlReAllocateHeap allocates first and frees then.
LEMMA RtlReAllocateHeapMeans ==
  ASSUME NEW a \in Int, NEW n, NEW b, P!RtlReAllocateHeap(a, n, b)
  PROVE  Allocates(n)
<1>1. P!Fails("null") \/ P!AllocThen(n, "address", LAMBDA h, slot : P!heap_free(h, a))
  BY DEF P!RtlReAllocateHeap
<1>2. CASE P!Fails("null") BY <1>2 DEF Allocates
<1>3. CASE P!AllocThen(n, "address", LAMBDA h, slot : P!heap_free(h, a)) BY <1>3 DEF P!AllocThen, Allocates
<1> QED BY <1>1, <1>2, <1>3

\* What the calls of the heap come down to.
LEMMA HeapSteps ==
  ASSUME HeapOK(heap, heap_asked)
  PROVE  /\ \A e : P!Fails(e) => HeapKept
         /\ \A a, e : P!Heap(P!heap_free(heap, a), e) => HeapKept
         /\ \A a, e : P!Heap(P!mem_free(heap, a), e) => HeapKept
         /\ \A n \in Nat : Allocates(n) \/ P!Alloc(n) \/ P!NewText(n) => HeapKept
         /\ 0 \in Nat /\ 1 \in Nat /\ P!Bytes \subseteq Nat
         /\ 0 .. MaxSlots \subseteq Int /\ P!Slots \subseteq Int
<1>1. \A e : P!Fails(e) => HeapKept BY HeapFails
<1>2. \A a, e : P!Heap(P!heap_free(heap, a), e) => HeapKept BY HeapTurns, FreeingAHeapBlock
<1>3. \A a, e : P!Heap(P!mem_free(heap, a), e) => HeapKept BY HeapTurns, FreeingABlock
<1>4. \A n \in Nat : Allocates(n) \/ P!Alloc(n) \/ P!NewText(n) => HeapKept
  BY HeapAllocates, AllocMeans, NewTextMeans
<1>5. P!Bytes \subseteq Nat /\ P!Slots \subseteq Int BY RegistryAssumption DEF P!Bytes, P!Slots
<1> QED BY <1>1, <1>2, <1>3, <1>4, <1>5

\* The heap calls of the C run-time library.
LEMMA CrtHeapCalls ==
  ASSUME HeapOK(heap, heap_asked), P!NextCrtHeap
  PROVE  HeapKept
<1>1. /\ \A e : P!Fails(e) => HeapKept
      /\ \A a, e : P!Heap(P!heap_free(heap, a), e) => HeapKept
      /\ \A n \in Nat : Allocates(n) \/ P!Alloc(n) \/ P!NewText(n) => HeapKept
      /\ 0 \in Nat /\ 1 \in Nat /\ P!Bytes \subseteq Nat /\ 0 .. MaxSlots \subseteq Int
  BY HeapSteps
<1>2. ASSUME NEW a \in 0 .. MaxSlots, NEW n \in P!Bytes, P!realloc(a, n) PROVE HeapKept
  BY <1>1, <1>2, ReallocMeans
<1>3. CASE P!_Cnd_init BY <1>1, <1>3 DEF P!_Cnd_init
<1>4. CASE \E n \in P!Bytes : P!malloc(n) \/ P!operator_new(n) BY <1>1, <1>4 DEF P!malloc, P!operator_new
<1>5. CASE \E a \in 0 .. MaxSlots : P!free(a) \/ P!operator_delete(a) \/ P!_Cnd_destroy(a)
  BY <1>1, <1>5 DEF P!free, P!operator_delete, P!_Cnd_destroy
<1>6. CASE \E n \in P!Bytes, b \in BOOLEAN : P!calloc(n, b) \/ P!malloc_crt(n, b)
  BY <1>1, <1>6 DEF P!calloc, P!malloc_crt, P!malloc
<1>7. CASE \E n \in {0}, b \in BOOLEAN : P!_strdup(b, n) \/ P!_wcsdup(b, n) \/ P!getenv(b, n)
  BY <1>1, <1>7 DEF P!_strdup, P!_wcsdup, P!getenv
<1>8. CASE \E b \in BOOLEAN, found \in BOOLEAN : P!dupenv(b, found, 0) \/ P!std_exception_copy(b, found)
  BY <1>1, <1>8 DEF P!dupenv, P!std_exception_copy
<1>9. CASE \/ \E a \in 0 .. MaxSlots, n \in P!Bytes : P!realloc(a, n) \/ P!realloc_crt(a, n)
           \/ \E a \in 0 .. MaxSlots, n \in P!Bytes, b \in BOOLEAN : P!_recalloc(a, n, b)
  BY <1>1, <1>2, <1>9 DEF P!realloc_crt, P!_recalloc
<1>10. CASE \E a \in P!Slots, b \in BOOLEAN : P!std_exception_destroy(b, a)
  BY <1>1, <1>10 DEF P!std_exception_destroy
<1> QED BY <1>3, <1>4, <1>5, <1>6, <1>7, <1>8, <1>9, <1>10 DEF P!NextCrtHeap

\* The calls of the heap keep every live block at the size asked for.
LEMMA HeapCalls ==
  ASSUME HeapOK(heap, heap_asked), P!NextHeap
  PROVE  HeapKept
<1>1. /\ \A e : P!Fails(e) => HeapKept
      /\ \A a, e : P!Heap(P!heap_free(heap, a), e) => HeapKept
      /\ \A a, e : P!Heap(P!mem_free(heap, a), e) => HeapKept
      /\ \A n \in Nat : Allocates(n) \/ P!Alloc(n) \/ P!NewText(n) => HeapKept
      /\ 0 \in Nat /\ 1 \in Nat /\ P!Bytes \subseteq Nat /\ 0 .. MaxSlots \subseteq Int /\ P!Slots \subseteq Int
  BY HeapSteps
<1>2. \A slot \in P!Unmapped(heap) : slot \in P!Slots /\ slot \notin DOMAIN heap.maps BY DEF P!Unmapped, P!Mapped
<1>3. ASSUME P!create_heap PROVE HeapKept
  <2>1. PICK slot \in P!Unmapped(heap) : P!Heap([P!mem_alloc(heap, slot, "emu", 1) EXCEPT !.heaps = slot], "address")
    BY <1>3 DEF P!create_heap
  <2> DEFINE tag == "emu"
             h == [P!mem_alloc(heap, slot, tag, 1) EXCEPT !.heaps = slot]
  <2>2. tag \in Tags /\ tag # "heap" BY DEF Tags
  <2>3. P!Heap(h, "address") BY <2>1
  <2> HIDE DEF tag
  <2>4. HeapOK(h, heap_asked) BY <1>1, <1>2, <2>2, MappingOther
  <2> HIDE DEF h
  <2> QED BY <2>3, <2>4, HeapTurns
<1>4. ASSUME NEW tag \in Tags, tag # "heap", NEW e, P!Maps(tag, e) PROVE HeapKept
  <2>1. CASE P!Fails("raises") BY <1>1, <2>1
  <2>2. CASE \E slot \in P!Unmapped(heap) : P!Heap(P!mem_alloc(heap, slot, tag, 1), e)
    <3>1. PICK slot \in P!Unmapped(heap) : P!Heap(P!mem_alloc(heap, slot, tag, 1), e) BY <2>2
    <3> DEFINE h == P!mem_alloc(heap, slot, tag, 1)
    <3>2. HeapOK(h, heap_asked) BY <1>1, <1>2, <1>4, MappingOther
    <3> HIDE DEF h
    <3> QED BY <3>1, <3>2, HeapTurns DEF h
  <2> QED BY <1>4, <2>1, <2>2 DEF P!Maps
<1>5. CASE P!NextCrtHeap BY <1>5, CrtHeapCalls
<1>6. CASE P!HeapCreate \/ P!GetProcessHeap BY <1>1, <1>3, <1>6 DEF P!HeapCreate, P!GetProcessHeap
<1>7. CASE P!GetEnvironmentStrings \/ P!SysAllocString
  <2>1. P!Maps("environment", "address") \/ P!Maps("none", "address")
    BY <1>7 DEF P!GetEnvironmentStrings, P!SysAllocString
  <2>2. \A tag \in {"environment", "none"} : tag \in Tags /\ tag # "heap" BY DEF Tags
  <2>3. \E tag \in {"environment", "none"} : P!Maps(tag, "address") BY <2>1
  <2> QED BY <1>4, <2>2, <2>3
<1>8. CASE P!LockAndUnlock BY <1>1, <1>8 DEF P!LockAndUnlock
<1>9. CASE \E n \in P!Bytes : \/ P!GlobalAlloc(n) \/ P!LocalAlloc(n) \/ P!HeapAlloc(n) \/ P!GdipAlloc(n)
                             \/ P!CoTaskMemAlloc(n) \/ P!IMalloc_Alloc(n)
  BY <1>1, <1>9 DEF P!GlobalAlloc, P!LocalAlloc, P!HeapAlloc, P!GdipAlloc, P!CoTaskMemAlloc,
     P!IMalloc_Alloc
<1>10. CASE \E a \in P!Slots : \/ P!GlobalSize(a) \/ P!HeapSize(a) \/ P!RtlSizeHeap(a) \/ P!IMalloc_GetSize(a)
                              \/ P!IMalloc_DidAlloc(a) \/ P!GlobalFlags(a)
  BY <1>1, <1>10 DEF P!GlobalSize, P!HeapSize, P!RtlSizeHeap, P!IMalloc_GetSize,
     P!IMalloc_DidAlloc, P!GlobalFlags, P!Size
<1>11. CASE \E a \in P!Slots : \/ P!HeapFree(a) \/ P!LocalFree(a) \/ P!GlobalFree(a) \/ P!CoTaskMemFree(a)
                              \/ P!IMalloc_Free(a) \/ P!GdipFree(a)
  BY <1>1, <1>11 DEF P!HeapFree, P!LocalFree, P!GlobalFree, P!CoTaskMemFree, P!IMalloc_Free,
     P!GdipFree, P!Free
<1>12. CASE \E a \in P!Slots : P!FreeEnvironmentStrings(a) \/ P!SysFreeString(a)
  BY <1>1, <1>12 DEF P!FreeEnvironmentStrings, P!SysFreeString
<1>13. CASE \E a \in 0 .. MaxSlots, n \in P!Bytes : P!HeapReAlloc(a, n) \/ P!LocalReAlloc(a, n)
  BY <1>1, <1>13 DEF P!HeapReAlloc, P!LocalReAlloc
<1>14. CASE \E a \in 0 .. MaxSlots, n \in P!Bytes : P!CoTaskMemRealloc(a, n) \/ P!IMalloc_Realloc(a, n)
  BY <1>1, <1>14, CoTaskMemReallocMeans DEF P!IMalloc_Realloc
<1>15. CASE \E a \in P!Slots, n \in P!Bytes, b \in BOOLEAN : P!RtlReAllocateHeap(a, n, b)
  BY <1>1, <1>15, RtlReAllocateHeapMeans
<1> QED BY <1>5, <1>6, <1>7, <1>8, <1>9, <1>10, <1>11, <1>12, <1>13, <1>14, <1>15 DEF P!NextHeap

-----------------------------------------------------------------------------
\* Local atoms.
AtomsOK(s, n) ==
  /\ s = [table |-> s.table, next |-> s.next] /\ s.next \in Nat \ {0}
  /\ DOMAIN s.table \subseteq 1 .. (s.next - 1)
  /\ \A a \in DOMAIN s.table : s.table[a] \in [name : AtomNames, cnt : Nat \ {0}]
  /\ n \in [AtomNames -> Nat]
  /\ \A a, b \in DOMAIN s.table : s.table[a].name = s.table[b].name => a = b
  /\ \A a \in DOMAIN s.table : s.table[a].cnt = n[s.table[a].name]
  /\ \A x \in AtomNames : n[x] > 0 => \E a \in DOMAIN s.table : s.table[a].name = x

\* get_local_atom finds the atom of a name, or 0 when the name has none.
LEMMA FindingAnAtom ==
  ASSUME NEW s, NEW n, AtomsOK(s, n), NEW x
  PROVE  /\ P!get_local_atom(s, x) = 0 => \A a \in DOMAIN s.table : s.table[a].name # x
         /\ P!get_local_atom(s, x) # 0 => /\ P!get_local_atom(s, x) \in DOMAIN s.table
                                         /\ s.table[P!get_local_atom(s, x)].name = x
<1> DEFINE A == {a \in DOMAIN s.table : s.table[a].name = x}
<1>1. P!get_local_atom(s, x) = IF A = {} THEN 0 ELSE CHOOSE a \in A : TRUE
  BY DEF P!get_local_atom, P!find_local_atom, P!Named
<1>2. 0 \notin A BY DEF AtomsOK
<1>3. A # {} => (CHOOSE a \in A : TRUE) \in A
  <2> HIDE DEF A
  <2> QED OBVIOUS
<1> QED BY <1>1, <1>2, <1>3

\* add_local_atom makes the atom of a name or counts it up.
LEMMA AddingAnAtom ==
  ASSUME NEW s, NEW n, AtomsOK(s, n), NEW x \in AtomNames
  PROVE  AtomsOK(P!add_local_atom(s, x), [n EXCEPT ![x] = @ + 1])
<1> DEFINE a == P!get_local_atom(s, x)
           n2 == [n EXCEPT ![x] = @ + 1]
           s2 == P!add_local_atom(s, x)
           first == [name |-> x, cnt |-> 1]
           longer == [b \in DOMAIN s.table \cup {s.next} |->
                        IF b = s.next THEN [name |-> x, cnt |-> 1] ELSE s.table[b]]
           more == [name |-> s.table[a].name, cnt |-> s.table[a].cnt + 1]
           again == [s.table EXCEPT ![a] = more]
<1>1. /\ s = [table |-> s.table, next |-> s.next] /\ s.next \in Nat \ {0}
      /\ DOMAIN s.table \subseteq 1 .. (s.next - 1)
      /\ \A b \in DOMAIN s.table : s.table[b] \in [name : AtomNames, cnt : Nat \ {0}]
      /\ n \in [AtomNames -> Nat]
      /\ \A b, c \in DOMAIN s.table : s.table[b].name = s.table[c].name => b = c
      /\ \A b \in DOMAIN s.table : s.table[b].cnt = n[s.table[b].name]
      /\ \A y \in AtomNames : n[y] > 0 => \E b \in DOMAIN s.table : s.table[b].name = y
  BY DEF AtomsOK
<1>2. n2 \in [AtomNames -> Nat] /\ n2[x] = n[x] + 1 /\ \A y \in AtomNames : y # x => n2[y] = n[y]
  BY <1>1
<1>3. CASE a = 0
  <2>1. \A b \in DOMAIN s.table : s.table[b].name # x BY <1>3, FindingAnAtom
  <2>2. n[x] = 0 BY <1>1, <2>1
  <2>3. s2 = [table |-> longer, next |-> s.next + 1] BY <1>3 DEF P!add_local_atom
  <2>4. /\ DOMAIN longer = DOMAIN s.table \cup {s.next} /\ longer[s.next] = first
        /\ \A b \in DOMAIN s.table : longer[b] = s.table[b]
    <3>1. s.next \notin DOMAIN s.table BY <1>1
    <3> QED BY <3>1
  <2>5. first \in [name : AtomNames, cnt : Nat \ {0}] /\ first.name = x /\ first.cnt = 1 OBVIOUS
  <2> HIDE DEF longer, first, n2, s2
  <2>6. s2 = [table |-> s2.table, next |-> s2.next] /\ s2.table = longer /\ s2.next = s.next + 1
    BY <2>3
  <2>7. s2.next \in Nat \ {0} /\ DOMAIN longer \subseteq 1 .. (s2.next - 1)
    <3>1. DOMAIN s.table \subseteq 1 .. s.next /\ s.next \in 1 .. s.next BY <1>1
    <3> QED BY <1>1, <2>4, <2>6, <3>1
  <2>8. \A b \in DOMAIN longer : longer[b] \in [name : AtomNames, cnt : Nat \ {0}] BY <1>1, <2>4, <2>5
  <2>9. \A b, c \in DOMAIN longer : longer[b].name = longer[c].name => b = c BY <1>1, <2>1, <2>4, <2>5
  <2>10. \A b \in DOMAIN longer : longer[b].cnt = n2[longer[b].name] BY <1>1, <1>2, <2>1, <2>2, <2>4, <2>5
  <2>11. \A y \in AtomNames : n2[y] > 0 => \E b \in DOMAIN longer : longer[b].name = y
    BY <1>1, <1>2, <2>4, <2>5
  <2>12. AtomsOK(s2, n2) BY <1>2, <2>6, <2>7, <2>8, <2>9, <2>10, <2>11 DEF AtomsOK
  <2> QED BY <2>12 DEF s2, n2
<1>4. CASE a # 0
  <2>1. a \in DOMAIN s.table /\ s.table[a].name = x BY <1>4, FindingAnAtom
  <2>2. s2 = [s EXCEPT !.table = again]
    <3>1. s2 = [s EXCEPT !.table[a].cnt = @ + 1] BY <1>4 DEF P!add_local_atom
    <3>2. s.table[a] \in [name : AtomNames, cnt : Nat \ {0}] BY <1>1, <2>1
    <3> HIDE DEF a, s2
    <3>3. [s.table[a] EXCEPT !.cnt = s.table[a].cnt + 1] = more BY <3>2
    <3>4. [s EXCEPT !.table[a].cnt = @ + 1]
            = [s EXCEPT !.table = [s.table EXCEPT ![a] = [s.table[a] EXCEPT !.cnt = s.table[a].cnt + 1]]]
      OBVIOUS
    <3> HIDE DEF more
    <3> QED BY <3>1, <3>3, <3>4
  <2>3. more \in [name : AtomNames, cnt : Nat \ {0}] /\ more.name = x /\ more.cnt = s.table[a].cnt + 1
    <3>1. s.table[a] \in [name : AtomNames, cnt : Nat \ {0}] BY <1>1, <2>1
    <3> HIDE DEF a
    <3> QED BY <2>1, <3>1
  <2> HIDE DEF a, more
  <2>4. DOMAIN again = DOMAIN s.table /\ again[a] = more /\ \A b \in DOMAIN s.table : b # a => again[b] = s.table[b]
    BY <2>1
  <2> HIDE DEF again, n2, s2
  <2>5. s2 = [table |-> s2.table, next |-> s2.next] /\ s2.table = again /\ s2.next = s.next
    BY <1>1, <2>2
  <2>6. \A b \in DOMAIN again : again[b] \in [name : AtomNames, cnt : Nat \ {0}] /\ again[b].name = s.table[b].name
    BY <1>1, <2>1, <2>3, <2>4
  <2>7. \A b, c \in DOMAIN again : again[b].name = again[c].name => b = c BY <1>1, <2>4, <2>6
  <2>8. \A b \in DOMAIN again : again[b].cnt = n2[again[b].name]
    <3>1. again[a].cnt = n2[again[a].name] BY <1>1, <1>2, <2>1, <2>3, <2>4
    <3>2. ASSUME NEW b \in DOMAIN s.table, b # a PROVE again[b].cnt = n2[again[b].name]
      <4>1. s.table[b].name # x /\ s.table[b].name \in AtomNames BY <1>1, <2>1, <3>2
      <4> QED BY <1>1, <1>2, <2>4, <3>2, <4>1
    <3> QED BY <2>4, <3>1, <3>2
  <2>9. \A y \in AtomNames : n2[y] > 0 => \E b \in DOMAIN again : again[b].name = y
    BY <1>1, <1>2, <2>1, <2>4, <2>6
  <2>10. AtomsOK(s2, n2) BY <1>1, <1>2, <2>4, <2>5, <2>6, <2>7, <2>8, <2>9 DEF AtomsOK
  <2> QED BY <2>10 DEF s2, n2
<1> QED BY <1>3, <1>4

\* delete_local_atom counts an atom down, and removes it with its last count.
LEMMA DeletingAnAtom ==
  ASSUME NEW s, NEW n, AtomsOK(s, n), NEW a \in DOMAIN s.table
  PROVE  AtomsOK(P!delete_local_atom(s, a), [n EXCEPT ![P!get_local_atom_name(s, a)] = @ - 1])
<1> DEFINE x == s.table[a].name
           n2 == [n EXCEPT ![x] = @ - 1]
           s2 == P!delete_local_atom(s, a)
           shorter == [b \in DOMAIN s.table \ {a} |-> s.table[b]]
           less == [name |-> s.table[a].name, cnt |-> s.table[a].cnt - 1]
           still == [s.table EXCEPT ![a] = less]
<1>1. /\ s = [table |-> s.table, next |-> s.next] /\ s.next \in Nat \ {0}
      /\ DOMAIN s.table \subseteq 1 .. (s.next - 1)
      /\ \A b \in DOMAIN s.table : s.table[b] \in [name : AtomNames, cnt : Nat \ {0}]
      /\ n \in [AtomNames -> Nat]
      /\ \A b, c \in DOMAIN s.table : s.table[b].name = s.table[c].name => b = c
      /\ \A b \in DOMAIN s.table : s.table[b].cnt = n[s.table[b].name]
      /\ \A y \in AtomNames : n[y] > 0 => \E b \in DOMAIN s.table : s.table[b].name = y
  BY DEF AtomsOK
<1>2. s.table[a] \in [name : AtomNames, cnt : Nat \ {0}] /\ x \in AtomNames /\ n[x] = s.table[a].cnt BY <1>1
<1>3. n2 \in [AtomNames -> Nat] /\ n2[x] = n[x] - 1 /\ \A y \in AtomNames : y # x => n2[y] = n[y]
  <2> HIDE DEF x
  <2> QED BY <1>1, <1>2
<1>4. P!get_local_atom_name(s, a) = x BY DEF P!get_local_atom_name
<1>5. \A b \in DOMAIN s.table : b # a => s.table[b].name # x /\ s.table[b].name \in AtomNames BY <1>1
<1>6. CASE s.table[a].cnt = 1
  <2>1. s2 = [s EXCEPT !.table = shorter] BY <1>6 DEF P!delete_local_atom, P!Restrict
  <2>2. DOMAIN shorter = DOMAIN s.table \ {a} /\ \A b \in DOMAIN shorter : shorter[b] = s.table[b] OBVIOUS
  <2>3. n2[x] = 0 BY <1>2, <1>3, <1>6
  <2> HIDE DEF shorter, n2, s2, x
  <2>4. s2 = [table |-> s2.table, next |-> s2.next] /\ s2.table = shorter /\ s2.next = s.next BY <1>1, <2>1
  <2>5. \A b \in DOMAIN shorter : shorter[b].cnt = n2[shorter[b].name] BY <1>1, <1>3, <1>5, <2>2
  <2>6. \A y \in AtomNames : n2[y] > 0 => \E b \in DOMAIN shorter : shorter[b].name = y
    <3>1. ASSUME NEW y \in AtomNames, n2[y] > 0 PROVE \E b \in DOMAIN shorter : shorter[b].name = y
      <4>1. y # x /\ n[y] > 0 BY <1>3, <2>3, <3>1
      <4>2. PICK b \in DOMAIN s.table : s.table[b].name = y BY <1>1, <4>1
      <4>3. b # a BY <4>1, <4>2 DEF x
      <4> QED BY <2>2, <4>2, <4>3
    <3> QED BY <3>1
  <2>7. AtomsOK(s2, n2) BY <1>1, <1>3, <2>2, <2>4, <2>5, <2>6 DEF AtomsOK
  <2> QED BY <1>4, <2>7 DEF s2, n2
<1>7. CASE s.table[a].cnt # 1
  <2>1. s2 = [s EXCEPT !.table = still]
    <3>1. s2 = [s EXCEPT !.table[a].cnt = @ - 1] BY <1>7 DEF P!delete_local_atom
    <3> HIDE DEF s2
    <3>2. [s.table[a] EXCEPT !.cnt = s.table[a].cnt - 1] = less BY <1>2
    <3>3. [s EXCEPT !.table[a].cnt = @ - 1]
            = [s EXCEPT !.table = [s.table EXCEPT ![a] = [s.table[a] EXCEPT !.cnt = s.table[a].cnt - 1]]]
      OBVIOUS
    <3> HIDE DEF less
    <3> QED BY <3>1, <3>2, <3>3
  <2>2. less \in [name : AtomNames, cnt : Nat \ {0}] /\ less.name = x /\ less.cnt = s.table[a].cnt - 1
    BY <1>2, <1>7
  <2> HIDE DEF less
  <2>3. DOMAIN still = DOMAIN s.table /\ still[a] = less /\ \A b \in DOMAIN s.table : b # a => still[b] = s.table[b]
    OBVIOUS
  <2>4. x = s.table[a].name OBVIOUS
  <2> HIDE DEF still, n2, s2, x
  <2>5. s2 = [table |-> s2.table, next |-> s2.next] /\ s2.table = still /\ s2.next = s.next
    BY <1>1, <2>1
  <2>6. \A b \in DOMAIN still : still[b] \in [name : AtomNames, cnt : Nat \ {0}] /\ still[b].name = s.table[b].name
    BY <1>1, <2>2, <2>3, <2>4
  <2>7. \A b, c \in DOMAIN still : still[b].name = still[c].name => b = c BY <1>1, <2>3, <2>6
  <2>8. \A b \in DOMAIN still : still[b].cnt = n2[still[b].name]
    <3>1. still[a].cnt = n2[still[a].name] BY <1>2, <1>3, <2>2, <2>3
    <3>2. ASSUME NEW b \in DOMAIN s.table, b # a PROVE still[b].cnt = n2[still[b].name]
      BY <1>1, <1>3, <1>5, <2>3, <3>2
    <3> QED BY <2>3, <3>1, <3>2
  <2>9. \A y \in AtomNames : n2[y] > 0 => \E b \in DOMAIN still : still[b].name = y
    <3>1. ASSUME NEW y \in AtomNames, n2[y] > 0 PROVE \E b \in DOMAIN still : still[b].name = y
      <4>1. n[y] > 0 BY <1>1, <1>2, <1>3, <3>1
      <4> QED BY <1>1, <2>3, <2>6, <4>1
    <3> QED BY <3>1
  <2>10. AtomsOK(s2, n2) BY <1>1, <1>3, <2>3, <2>5, <2>6, <2>7, <2>8, <2>9 DEF AtomsOK
  <2> QED BY <1>4, <2>10 DEF s2, n2
<1> QED BY <1>6, <1>7

\* A service that is not the heap, the atoms, the enumeration or the one-time initialization.
Apart == UNCHANGED <<heap, heap_asked, atoms, adds, enum, once>>

\* The calls of thread and fiber local storage.
LEMMA LocalCalls ==
  ASSUME P!NextLocal
  PROVE  Apart
<1>1. \A l, e : P!Local(l, e) => Apart BY DEF P!Local, Apart
<1>2. CASE P!FlsAlloc \/ P!FlsFreeTlsFree BY <1>1, <1>2 DEF P!FlsAlloc, P!FlsFreeTlsFree
<1>3. CASE \E t \in Threads : P!TlsAlloc(t) BY <1>1, <1>3 DEF P!TlsAlloc
<1>4. CASE \E t \in Threads, i \in 0 .. TLS_SLOT_COUNT, v \in 0 .. 1 : P!TlsSetValue(t, i, v) \/ P!FlsSetValue(t, i, v)
  BY <1>1, <1>4 DEF P!TlsSetValue, P!FlsSetValue
<1>5. CASE \E t \in Threads, i \in 0 .. TLS_SLOT_COUNT :
             P!TlsGetValue(t, i) \/ P!FlsGetValue(t, i) \/ P!FlsGetValue2(t, i)
  BY <1>1, <1>5 DEF P!TlsGetValue, P!FlsGetValue, P!FlsGetValue2
<1> QED BY <1>2, <1>3, <1>4, <1>5 DEF P!NextLocal

\* COM initialization.
LEMMA ComCalls ==
  ASSUME P!NextCom
  PROVE  Apart
<1>1. \A c, e : P!Com(c, e) => Apart BY DEF P!Com, Apart
<1>2. \A t, m : P!co_initialize(t, m) => Apart BY <1>1 DEF P!co_initialize
<1>3. \A t : P!co_uninitialize(t) => Apart BY <1>1 DEF P!co_uninitialize
<1> QED
  BY <1>2, <1>3 DEF P!NextCom, P!CoInitialize, P!OleInitialize, P!CoUninitialize,
     P!OleUninitialize, P!CoInitializeEx

\* The calls of vectored handlers.
LEMMA HandlerCalls ==
  ASSUME P!NextHandlers
  PROVE  Apart
<1>1. \A v, e : P!Handlers(v, e) => Apart BY DEF P!Handlers, Apart
<1> QED
  BY <1>1 DEF P!NextHandlers, P!AddVectoredContinueHandler, P!RemoveVectoredExceptionHandler,
                    P!RtlRemoveVectoredExceptionHandler, P!AddVectoredExceptionHandler, P!RtlAddVectoredExceptionHandler

\* The time functions of the C run-time library.
LEMMA CrtTimeCalls ==
  ASSUME P!NextCrtTime
  PROVE  Apart
<1>1. \A c, e : P!Clock(c, e) => Apart BY DEF P!Clock, Apart
<1>2. \A n, e : P!Ticks(n, e) => Apart BY <1>1 DEF P!Ticks
<1>3. P!get_clock_ticks => Apart BY <1>2 DEF P!get_clock_ticks, P!get_system_time, P!get_tick_count
<1> QED
  BY <1>1, <1>2, <1>3 DEF P!NextCrtTime, P!time, P!_Xtime_get_ticks, P!make_time, P!_strtime,
     P!_strdate, P!localtime,
             P!gmtime, P!write_struct_tm, P!write_struct_tm_s, P!_Cnd_timedwait

\* The clock and the interlocked words.
LEMMA ClockCalls ==
  ASSUME P!NextClock
  PROVE  Apart
<1>1. \A c, e : P!Clock(c, e) => Apart BY DEF P!Clock, Apart
<1>2. \A n, e : P!Ticks(n, e) => Apart BY <1>1 DEF P!Ticks
<1>3. \A w, e : P!Interlocked(w, e) => Apart BY DEF P!Interlocked, Apart
<1>4. CASE P!NextCrtTime BY <1>4, CrtTimeCalls
<1>5. CASE P!GetTickCount \/ P!GetTickCount64 \/ P!GetSystemTimeAsFileTime \/ P!GetSystemTime
           \/ P!GetSystemTimePreciseAsFileTime \/ P!QueryPerformanceCounter \/ P!GetSystemTimes
  BY <1>1, <1>2, <1>5 DEF P!GetTickCount, P!GetTickCount64, P!GetSystemTimeAsFileTime,
     P!GetSystemTime,
       P!GetSystemTimePreciseAsFileTime, P!QueryPerformanceCounter, P!GetSystemTimes, P!get_system_time, P!get_tick_count,
       P!get_performance_counter
<1>6. CASE P!InterlockedIncrement \/ P!InterlockedDecrement
           \/ (\E v \in 0 .. (Word - 1) : P!InterlockedExchangeAdd(v) \/ P!InterlockedExchange(v))
           \/ (\E v \in 0 .. (Word - 1), cmp \in 0 .. (Word - 1) : P!InterlockedCompareExchange(v, cmp))
  BY <1>3, <1>6 DEF P!InterlockedIncrement, P!InterlockedDecrement, P!InterlockedExchangeAdd,
     P!InterlockedExchange,
       P!InterlockedCompareExchange
<1>7. CASE \/ \E ms \in 0 .. 2, b \in BOOLEAN : P!Sleep(ms, b)
           \/ \E size \in BOOLEAN, eq \in BOOLEAN, ms \in 0 .. 2, b \in BOOLEAN : P!WaitOnAddress(size, eq, ms, b)
  BY <1>1, <1>2, <1>7 DEF P!Sleep, P!WaitOnAddress, P!advance_clock
<1> QED BY <1>4, <1>5, <1>6, <1>7 DEF P!NextClock

-----------------------------------------------------------------------------
AtomsKept == AtomsOK(atoms', adds') /\ UNCHANGED <<heap, heap_asked, enum, once>>

\* The calls of local atoms keep the counts.
LEMMA AtomCalls ==
  ASSUME AtomsOK(atoms, adds), P!NextAtoms
  PROVE  AtomsKept
<1>1. \A s, e : P!Atoms(s, e) => atoms' = s /\ UNCHANGED <<heap, heap_asked, enum, once>> BY DEF P!Atoms
<1>2. \A e : P!AtomFails(e) => AtomsKept BY <1>1 DEF P!AtomFails, AtomsKept
<1>3. CASE P!GlobalAddAtomA BY <1>2, <1>3 DEF P!GlobalAddAtomA
<1>4. ASSUME NEW n \in AtomNames, P!AddAtom(n) PROVE AtomsKept
  <2>1. CASE P!AtomFails("invalid") \/ P!AtomFails("integer") BY <1>2, <2>1
  <2>2. CASE P!Atoms(P!add_local_atom(atoms, n), "atom") /\ adds' = [adds EXCEPT ![n] = @ + 1]
    <3> DEFINE s2 == P!add_local_atom(atoms, n)
               n2 == [adds EXCEPT ![n] = @ + 1]
    <3>1. AtomsOK(s2, n2) BY AddingAnAtom
    <3>2. P!Atoms(s2, "atom") /\ adds' = n2 BY <2>2
    <3> HIDE DEF s2, n2
    <3> QED BY <1>1, <3>1, <3>2 DEF AtomsKept
  <2> QED BY <1>4, <2>1, <2>2 DEF P!AddAtom
<1>5. ASSUME NEW n \in AtomNames, P!FindAtom(n) PROVE AtomsKept BY <1>2, <1>5 DEF P!FindAtom
<1>6. ASSUME NEW a, P!GetAtomName(a) PROVE AtomsKept BY <1>2, <1>6 DEF P!GetAtomName
<1>7. ASSUME NEW a, P!DeleteAtom(a) PROVE AtomsKept
  <2>1. CASE a \notin DOMAIN atoms.table BY <1>2, <1>7, <2>1 DEF P!DeleteAtom
  <2>2. CASE a \in DOMAIN atoms.table
    <3>1. /\ P!Atoms(P!delete_local_atom(atoms, a), "deleted")
          /\ adds' = [adds EXCEPT ![P!get_local_atom_name(atoms, a)] = @ - 1]
      BY <1>7, <2>2 DEF P!DeleteAtom
    <3> DEFINE s2 == P!delete_local_atom(atoms, a)
               n2 == [adds EXCEPT ![P!get_local_atom_name(atoms, a)] = @ - 1]
    <3>2. AtomsOK(s2, n2) BY <2>2, DeletingAnAtom
    <3>3. P!Atoms(s2, "deleted") /\ adds' = n2 BY <3>1
    <3> HIDE DEF s2, n2
    <3> QED BY <1>1, <3>2, <3>3 DEF AtomsKept
  <2> QED BY <2>1, <2>2
<1> QED BY <1>3, <1>4, <1>5, <1>6, <1>7 DEF P!NextAtoms

\* The cardinality in the instance is that of the standard module.
LEMMA SameCardinality ==
  ASSUME NEW S
  PROVE  P!Cardinality(S) = Cardinality(S)
BY Zenon DEF P!Cardinality, Cardinality

\* A name has at most one atom, and has it while it was added more often than deleted.
LEMMA OneAtomOfAName ==
  ASSUME NEW s, NEW n, AtomsOK(s, n), NEW x \in AtomNames
  PROVE  P!Cardinality(P!Named(s, x)) <= 1 /\ (n[x] > 0 <=> P!Named(s, x) # {})
<1> DEFINE A == {a \in DOMAIN s.table : s.table[a].name = x}
<1>1. P!Named(s, x) = A BY DEF P!Named
<1>2. n[x] > 0 <=> A # {} BY DEF AtomsOK
<1>3. \A a, b \in A : a = b BY DEF AtomsOK
<1> HIDE DEF A
<1>4. Cardinality(A) <= 1
  <2>1. CASE A = {} BY <2>1, FS_EmptySet
  <2>2. CASE A # {}
    <3>1. PICK a : a \in A BY <2>2
    <3>2. A = {a} BY <1>3, <3>1
    <3> QED BY <3>2, FS_Singleton
  <2> QED BY <2>1, <2>2
<1> QED BY <1>1, <1>2, <1>4, SameCardinality

-----------------------------------------------------------------------------
\* The enumeration of resources.
EnumOK(e) == e = [left |-> e.left, buffers |-> e.buffers] /\ e.left \in Int /\ (e.left = 0 => e.buffers = 0)

EnumKept == EnumOK(enum') /\ UNCHANGED <<heap, heap_asked, atoms, adds, once>>

\* The calls of resources leave no buffer when an enumeration ends.
LEMMA ResourceCalls ==
  ASSUME EnumOK(enum), P!NextResources
  PROVE  EnumKept
<1>1. \A s, e : P!Enum(s, e) => enum' = s /\ UNCHANGED <<heap, heap_asked, atoms, adds, once>> BY DEF P!Enum
<1>2. \A e : P!Enum(enum, e) => EnumKept BY <1>1 DEF EnumKept
<1>3. \A l, b, e : l \in Int /\ (l = 0 => b = 0) /\ P!Enum([left |-> l, buffers |-> b], e) => EnumKept
  BY <1>1 DEF EnumKept, EnumOK
<1>4. ASSUME NEW m, NEW any, NEW type, NEW name, NEW ids \in 0 .. MaxIds, NEW named, P!EnumStart(m, any, type, name, ids, named)
      PROVE EnumKept
  BY <1>2, <1>3, <1>4 DEF P!EnumStart
<1>5. ASSUME NEW go, NEW named, P!EnumReturns(go, named) PROVE EnumKept
  <2>1. enum.left \in Int BY DEF EnumOK
  <2>2. P!enum_resources(go, named) /\ enum.left > 0 BY <1>5 DEF P!EnumReturns
  <2>3. enum.left # 1 => enum.left - 1 \in Int /\ enum.left - 1 # 0 BY <2>1, <2>2
  <2>4. CASE ~go \/ enum.left = 1
    <3>1. \E e : P!Enum([left |-> 0, buffers |-> 0], e) BY <2>2, <2>4 DEF P!enum_resources
    <3> QED BY <1>3, <3>1
  <2>5. CASE go /\ enum.left # 1
    <3> DEFINE b == IF named THEN 1 ELSE 0
               l == enum.left - 1
    <3>1. P!Enum([left |-> l, buffers |-> b], "call") BY <2>2, <2>5 DEF P!enum_resources
    <3>2. l \in Int /\ l # 0 BY <2>3, <2>5
    <3> HIDE DEF b, l
    <3> QED BY <1>3, <3>1, <3>2
  <2> QED BY <2>4, <2>5
<1>6. CASE P!EnumEnds BY <1>3, <1>6 DEF P!EnumEnds
<1>7. CASE P!LockAndFreeResource BY <1>2, <1>7 DEF P!LockAndFreeResource
<1>8. CASE \/ \E m \in P!Modules : P!LoadResource(m)
           \/ \E b \in BOOLEAN : P!SizeofResource(b) \/ P!LdrAccessResource(b)
  BY <1>2, <1>8 DEF P!LoadResource, P!SizeofResource, P!LdrAccessResource
<1>9. CASE \E m \in P!Modules, type \in BOOLEAN, name \in BOOLEAN :
             P!FindResource(m, type, name) \/ P!FindResourceEx(m, type, name) \/ P!LdrFindResource_U(m, type, name)
  BY <1>2, <1>9 DEF P!FindResource, P!FindResourceEx, P!LdrFindResource_U
<1>10. CASE \E m \in P!Modules, any \in BOOLEAN, type \in BOOLEAN, b \in BOOLEAN, ids \in 0 .. MaxIds :
              \/ P!EnumResourceTypes(m, any, ids, b) \/ P!EnumResourceNames(m, any, type, ids, b)
              \/ P!EnumResourceLanguages(m, any, type, b, ids)
  BY <1>4, <1>10 DEF P!EnumResourceTypes, P!EnumResourceNames, P!EnumResourceLanguages
<1>11. CASE \E go \in BOOLEAN, named \in BOOLEAN : P!EnumReturns(go, named) BY <1>5, <1>11
<1> QED BY <1>6, <1>7, <1>8, <1>9, <1>10, <1>11 DEF P!NextResources

-----------------------------------------------------------------------------
\* One-time initialization.
OnceKept == (once = 2 => once' = 2) /\ UNCHANGED <<heap, heap_asked, atoms, adds, enum>>

\* The calls of one-time initialization do not undo a complete one.
LEMMA OnceCalls ==
  ASSUME P!NextOnce
  PROVE  OnceKept
<1>1. \A s, e : P!Once(s, e) => once' = s /\ UNCHANGED <<heap, heap_asked, atoms, adds, enum>> BY DEF P!Once
<1>2. ASSUME P!InitOnceExecuteOnce PROVE OnceKept BY <1>1, <1>2 DEF P!InitOnceExecuteOnce, OnceKept
<1>3. ASSUME NEW a, NEW b, P!InitOnceBeginInitialize(a, b) PROVE OnceKept
  BY <1>1, <1>3 DEF P!InitOnceBeginInitialize, OnceKept
<1>4. ASSUME NEW a, NEW b, P!InitOnceComplete(a, b) PROVE OnceKept
  BY <1>1, <1>4 DEF P!InitOnceComplete, OnceKept
<1> QED BY <1>2, <1>3, <1>4 DEF P!NextOnce

-----------------------------------------------------------------------------
PsInv == HeapOK(heap, heap_asked) /\ AtomsOK(atoms, adds) /\ EnumOK(enum)

\* A new process has no block, no atom and no enumeration.
LEMMA PsStart ==
  ASSUME P!Init
  PROVE  PsInv
<1>1. DOMAIN <<>> = {} /\ <<>> = [a \in DOMAIN <<>> |-> <<>>[a]] OBVIOUS
<1>2. HeapOK(heap, heap_asked)
  <2>1. PICK keep \in BOOLEAN : heap = [maps |-> <<>>, allocs |-> <<>>, heaps |-> 0, keep |-> keep] BY DEF P!Init
  <2>2. heap = [maps |-> heap.maps, allocs |-> heap.allocs, heaps |-> heap.heaps, keep |-> heap.keep]
        /\ heap.maps = <<>> /\ heap.allocs = <<>>
    BY <2>1
  <2>3. heap_asked \in [P!Slots -> Int] BY DEF P!Init, P!None
  <2>4. MapsOK(heap.maps) BY <1>1, <2>2 DEF MapsOK
  <2>5. \A a \in P!Slots : ~HeapBlock(heap.maps, a) BY <1>1, <2>2 DEF HeapBlock
  <2>6. heap.allocs \in Seq(P!Slots \X Nat) BY <2>2
  <2> QED BY <2>2, <2>3, <2>4, <2>5, <2>6 DEF HeapOK
<1>3. AtomsOK(atoms, adds)
  <2>1. atoms = [table |-> <<>>, next |-> 1] /\ adds = [n \in AtomNames |-> 0] BY DEF P!Init
  <2>2. atoms = [table |-> atoms.table, next |-> atoms.next] /\ atoms.next = 1 /\ atoms.table = <<>> BY <2>1
  <2> QED BY <1>1, <2>1, <2>2 DEF AtomsOK
<1>4. EnumOK(enum) BY DEF P!Init, EnumOK
<1> QED BY <1>2, <1>3, <1>4 DEF PsInv

\* Every call keeps the invariant of the services of a process.
LEMMA PsStep ==
  ASSUME PsInv, [P!Next]_(P!vars)
  PROVE  PsInv' /\ (once = 2 => once' = 2)
<1>1. HeapOK(heap, heap_asked) /\ AtomsOK(atoms, adds) /\ EnumOK(enum) BY DEF PsInv
<1>2. CASE P!NextHeap
  <2>1. HeapOK(heap', heap_asked') /\ UNCHANGED <<atoms, adds, enum, once>>
    BY <1>1, <1>2, HeapCalls DEF HeapKept, P!OtherThanHeap
  <2> QED BY <1>1, <2>1 DEF PsInv
<1>3. CASE P!NextAtoms BY <1>1, <1>3, AtomCalls DEF PsInv, AtomsKept
<1>4. CASE P!NextResources BY <1>1, <1>4, ResourceCalls DEF PsInv, EnumKept
<1>5. CASE P!NextOnce BY <1>1, <1>5, OnceCalls DEF PsInv, OnceKept
<1>6. CASE P!NextLocal \/ P!NextCom \/ P!NextHandlers \/ P!NextClock
  <2>1. Apart BY <1>6, LocalCalls, ComCalls, HandlerCalls, ClockCalls
  <2> QED BY <1>1, <2>1 DEF PsInv, Apart
<1>7. CASE UNCHANGED P!vars BY <1>1, <1>7 DEF PsInv, P!vars
<1> QED BY <1>2, <1>3, <1>4, <1>5, <1>6, <1>7 DEF P!Next

\* The invariant is as strong as the properties.
LEMMA PsInvImplies ==
  ASSUME PsInv
  PROVE  P!HeapSizeIsRequested /\ P!AtomsAreCounted /\ P!NoEnumBufferLeft
<1>1. P!HeapSizeIsRequested BY HeapBlocksAreAsAsked DEF PsInv, P!HeapSizeIsRequested
<1>2. P!AtomsAreCounted
  <2>1. \A x \in AtomNames : P!Cardinality(P!Named(atoms, x)) <= 1 /\ (adds[x] > 0 <=> P!Named(atoms, x) # {})
    BY OneAtomOfAName DEF PsInv
  <2>2. \A a \in DOMAIN atoms.table : atoms.table[a].cnt = adds[atoms.table[a].name] BY DEF PsInv, AtomsOK
  <2> QED BY <2>1, <2>2, Zenon DEF P!AtomsAreCounted
<1>3. P!NoEnumBufferLeft BY DEF PsInv, EnumOK, P!NoEnumBufferLeft
<1> QED BY <1>1, <1>2, <1>3

\* The invariant of the services of a process holds whatever the guest calls.
THEOREM ProcessInvariance == P!Spec => []PsInv
<1>1. P!Init => PsInv BY PsStart
<1>2. PsInv /\ [P!Next]_(P!vars) => PsInv' BY PsStep
<1> QED BY <1>1, <1>2, PTL DEF P!Spec

\* The size of a live heap block is the size that was asked for, whatever was allocated at the address before
\* and whichever function frees or reallocates; a name has one atom with the count of its additions; no buffer
\* of an enumeration outlives it (heap_alloc, heap_size, add_local_atom, delete_local_atom, enum_resources).
THEOREM ProcessKeepsItsState ==
  P!Spec => [](P!HeapSizeIsRequested /\ P!AtomsAreCounted /\ P!NoEnumBufferLeft)
<1>1. PsInv => P!HeapSizeIsRequested /\ P!AtomsAreCounted /\ P!NoEnumBufferLeft BY PsInvImplies
<1> QED BY <1>1, ProcessInvariance, PTL

\* No call undoes a complete one-time initialization (InitOnceComplete, InitOnceBeginInitialize).
THEOREM OnceStaysComplete == P!Spec => P!CompleteIsFinal
<1>1. PsInv /\ [P!Next]_(P!vars) => [once = 2 => once' = 2]_(P!vars) BY PsStep
<1> QED BY <1>1, ProcessInvariance, PTL DEF P!Spec, P!CompleteIsFinal
==============================================================================
