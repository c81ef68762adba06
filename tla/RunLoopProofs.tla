---------------------------- MODULE RunLoopProofs ----------------------------
(***************************************************************************)
(* Proofs about the run loop, for all processes, modules, runs and limits; *)
(* first what Keep returns and which startup initializers a process gets.  *)
(***************************************************************************)
EXTENDS RunLoop, WellFoundedInduction, TLAPS

\* Induction over the natural numbers, for a set of numbers.
LEMMA NatSetInduction ==
  ASSUME NEW S, 0 \in S, \A n \in Nat : n \in S => n + 1 \in S
  PROVE  Nat \subseteq S
<1> DEFINE T == Nat \ S
           R == OpToRel(<, Nat)
<1>1. SUFFICES ASSUME T # {} PROVE FALSE
  OBVIOUS
<1>2. IsWellFoundedOn(R, Nat)
  BY NatLessThanWellFounded
<1>3. PICK x \in T : \A y \in T : ~ (<<y, x>> \in R)
  <2> HIDE DEF R, T
  <2>1. T \subseteq Nat BY DEF T
  <2> QED BY <1>1, <1>2, <2>1, WFMin
<1>4. x # 0 /\ x \in Nat
  OBVIOUS
<1>5. x - 1 \in T
  BY <1>4
<1>6. <<x - 1, x>> \in R
  BY <1>4 DEF OpToRel
<1> QED BY <1>3, <1>5, <1>6

\* A sequence whose elements are pairwise related, in their order.
Related(q, R) == \A i, j \in DOMAIN q : i < j => <<q[i], q[j]>> \in R

\* One element is added behind related ones.
LEMMA AppendRelated ==
  ASSUME NEW A, NEW R, NEW q \in Seq(A), NEW x \in A, Related(q, R),
         \A i \in DOMAIN q : <<q[i], x>> \in R
  PROVE  /\ Append(q, x) \in Seq(A) /\ Related(Append(q, x), R)
         /\ Range(Append(q, x)) = Range(q) \cup {x}
BY DEF Related, Range

\* Element i of the function that Keep is defined with, from the elements before it.
KeptAt(f, s, S, i) ==
  IF i = 0 THEN <<>> ELSE IF s[i] \in S THEN Append(f[i - 1], s[i]) ELSE f[i - 1]
IsKept(f, s, S, n) == f = [i \in 0 .. n |-> KeptAt(f, s, S, i)]

\* That function exists.
LEMMA KeptExists ==
  ASSUME NEW s, NEW S, NEW len \in Nat
  PROVE  \E f : IsKept(f, s, S, len)
<1> DEFINE T == {n \in Nat : \E f : IsKept(f, s, S, n)}
<1>1. 0 \in T
  <2>1. IsKept([i \in 0 .. 0 |-> <<>>], s, S, 0)
    BY DEF IsKept, KeptAt
  <2> QED BY <2>1
<1>2. ASSUME NEW n \in Nat, n \in T
      PROVE  n + 1 \in T
  <2>1. PICK f : IsKept(f, s, S, n)
    BY <1>2
  <2> DEFINE g == [i \in 0 .. n + 1 |-> IF i = n + 1 THEN KeptAt(f, s, S, n + 1) ELSE f[i]]
  <2>2. \A i \in 0 .. n : g[i] = f[i] /\ f[i] = KeptAt(f, s, S, i)
    BY <2>1 DEF IsKept
  <2>3. \A i \in 0 .. n + 1 : g[i] = KeptAt(g, s, S, i)
    <3> TAKE i \in 0 .. n + 1
    <3>1. KeptAt(g, s, S, i) = KeptAt(f, s, S, i)
      BY <2>2 DEF KeptAt
    <3>2. g[i] = KeptAt(f, s, S, i)
      <4>1. CASE i = n + 1
        BY <4>1
      <4>2. CASE i \in 0 .. n
        BY <4>2, <2>2
      <4> QED BY <4>1, <4>2
    <3> HIDE DEF g
    <3> QED BY <3>1, <3>2
  <2>4. g = [i \in 0 .. n + 1 |-> KeptAt(g, s, S, i)]
    <3>1. g = [i \in 0 .. n + 1 |-> g[i]]
      OBVIOUS
    <3> HIDE DEF g
    <3> QED BY <3>1, <2>3
  <2>5. IsKept(g, s, S, n + 1)
    BY <2>4 DEF IsKept
  <2> QED BY <2>5
<1>3. Nat \subseteq T
  <2> HIDE DEF T
  <2> QED BY <1>1, <1>2, NatSetInduction
<1> QED BY <1>3

\* Keep returns the elements of s that are in S, and keeps their order: what is
\* related by R stays so.
LEMMA KeepLemma ==
  ASSUME NEW A, NEW R, NEW S, NEW s \in Seq(A), Related(s, R)
  PROVE  /\ Keep(s, S) \in Seq(A)
         /\ Range(Keep(s, S)) = Range(s) \cap S
         /\ Related(Keep(s, S), R)
<1> DEFINE f == CHOOSE g : IsKept(g, s, S, Len(s))
           Good(i) == /\ f[i] \in Seq(A) /\ Related(f[i], R)
                      /\ Range(f[i]) = {s[j] : j \in 1 .. i} \cap S
           T == {i \in Nat : i <= Len(s) => Good(i)}
<1>1. IsKept(f, s, S, Len(s))
  <2>1. Len(s) \in Nat
    OBVIOUS
  <2>2. \E g : IsKept(g, s, S, Len(s))
    BY <2>1, KeptExists
  <2> QED BY <2>2
<1>2. Keep(s, S) = f[Len(s)]
  BY DEF Keep, IsKept, KeptAt
<1> HIDE DEF f
<1>3. \A i \in 0 .. Len(s) : f[i] = KeptAt(f, s, S, i)
  BY <1>1 DEF IsKept
<1>4. 0 \in T
  <2>1. f[0] = <<>>
    BY <1>3 DEF KeptAt
  <2>2. Range(<<>>) = {} /\ Related(<<>>, R)
    BY DEF Range, Related
  <2>3. {s[j] : j \in 1 .. 0} = {}
    OBVIOUS
  <2>4. Good(0)
    BY <2>1, <2>2, <2>3
  <2> QED BY <2>4
<1>5. ASSUME NEW n \in Nat, n \in T
      PROVE  n + 1 \in T
  <2>1. SUFFICES ASSUME n + 1 <= Len(s)
                 PROVE  Good(n + 1)
    OBVIOUS
  <2>2. Good(n)
    BY <1>5, <2>1
  <2>3. n + 1 \in 1 .. Len(s) /\ s[n + 1] \in A
    BY <2>1
  <2>4. {s[j] : j \in 1 .. n + 1} = {s[j] : j \in 1 .. n} \cup {s[n + 1]}
    OBVIOUS
  <2>5. f[n + 1] = IF s[n + 1] \in S THEN Append(f[n], s[n + 1]) ELSE f[n]
    <3>1. f[n + 1] = KeptAt(f, s, S, n + 1)
      BY <1>3, <2>3
    <3> QED BY <3>1 DEF KeptAt
  <2>6. CASE s[n + 1] \in S
    <3>1. \A k \in DOMAIN f[n] : <<f[n][k], s[n + 1]>> \in R
      <4> TAKE k \in DOMAIN f[n]
      <4>1. PICK j \in 1 .. n : f[n][k] = s[j]
        BY <2>2 DEF Range
      <4>2. j \in DOMAIN s /\ n + 1 \in DOMAIN s /\ j < n + 1
        BY <2>1
      <4> QED BY <4>1, <4>2 DEF Related
    <3> DEFINE old == f[n]
               new == s[n + 1]
    <3>2. /\ old \in Seq(A) /\ Related(old, R) /\ new \in A
          /\ \A k \in DOMAIN old : <<old[k], new>> \in R
      BY <2>2, <2>3, <3>1
    <3> HIDE DEF old, new
    <3>3. /\ Append(old, new) \in Seq(A) /\ Related(Append(old, new), R)
          /\ Range(Append(old, new)) = Range(old) \cup {new}
      BY <3>2, AppendRelated
    <3> QED BY <2>2, <2>4, <2>5, <2>6, <3>3 DEF old, new
  <2>7. CASE s[n + 1] \notin S
    BY <2>2, <2>4, <2>5, <2>7
  <2> QED BY <2>6, <2>7
<1>6. Nat \subseteq T
  <2> HIDE DEF T
  <2> QED BY <1>4, <1>5, NatSetInduction
<1>7. Good(Len(s))
  <2>1. Len(s) \in Nat
    OBVIOUS
  <2>2. Len(s) \in T
    BY <2>1, <1>6
  <2> QED BY <2>1, <2>2
<1>9. Range(s) = {s[j] : j \in 1 .. Len(s)}
  BY DEF Range
<1> QED BY <1>2, <1>7, <1>9

-----------------------------------------------------------------------------
\* Which run may come before which in the queue: an initializer comes before
\* what is no initializer, and a TLS callback before the DllMain of its module.
MayPrecede ==
  {w \in Runs \X Runs :
     /\ w[1] # w[2]
     /\ w[2] \in InitRuns =>
          /\ w[1] \in InitRuns
          /\ ~(w[1].proc = w[2].proc /\ w[1].mod = w[2].mod /\ w[1].fn = 2)}
InOrder(q) == Related(q, MayPrecede)

\* The initializers of one module in one process.
OfModule(r) == {s \in InitRuns : s.proc = r.proc /\ s.mod = r.mod}

\* The queue without the initializers of one module.
LEMMA WithoutModuleLemma ==
  ASSUME NEW q \in Seq(Runs), NEW r
  PROVE  /\ WithoutModule(q, r) \in Seq(Runs)
         /\ Range(WithoutModule(q, r)) = Range(q) \ OfModule(r)
         /\ InOrder(q) => InOrder(WithoutModule(q, r))
<1> DEFINE S == Runs \ OfModule(r)
           All == Runs \X Runs
<1>1. WithoutModule(q, r) = Keep(q, S)
  BY DEF WithoutModule, OfModule
<1>2. Range(q) \cap S = Range(q) \ OfModule(r)
  BY DEF Range
<1>3. Related(q, All)
  BY DEF Related
<1> HIDE DEF S, All
<1>4. Keep(q, S) \in Seq(Runs) /\ Range(Keep(q, S)) = Range(q) \cap S
  BY <1>3, KeepLemma, ZenonT(60)
<1>5. InOrder(q) => InOrder(Keep(q, S))
  BY KeepLemma DEF InOrder
<1> QED BY <1>1, <1>2, <1>4, <1>5

\* The queue without one run, which is what SuspendThread leaves.
LEMMA WithoutRunLemma ==
  ASSUME NEW q \in Seq(Runs), NEW t
  PROVE  /\ Keep(q, Runs \ {t}) \in Seq(Runs)
         /\ Range(Keep(q, Runs \ {t})) = Range(q) \ {t}
         /\ InOrder(q) => InOrder(Keep(q, Runs \ {t}))
<1> DEFINE S == Runs \ {t}
           All == Runs \X Runs
<1>1. Range(q) \cap S = Range(q) \ {t}
  BY DEF Range
<1>2. Related(q, All)
  BY DEF Related
<1> HIDE DEF S, All
<1>3. Keep(q, S) \in Seq(Runs) /\ Range(Keep(q, S)) = Range(q) \cap S
  BY <1>2, KeepLemma, ZenonT(60)
<1>4. InOrder(q) => InOrder(Keep(q, S))
  BY KeepLemma DEF InOrder
<1> QED BY <1>1, <1>3, <1>4 DEF S

\* The first run of a queue, and the runs after it.
LEMMA HeadLemma ==
  ASSUME NEW q \in Seq(Runs), q # <<>>
  PROVE  /\ Head(q) \in Runs /\ Tail(q) \in Seq(Runs)
         /\ Range(q) = {Head(q)} \cup Range(Tail(q))
         /\ InOrder(q) => /\ InOrder(Tail(q))
                          /\ \A r \in Range(Tail(q)) : <<Head(q), r>> \in MayPrecede
<1>1. Head(q) \in Runs /\ Tail(q) \in Seq(Runs)
  OBVIOUS
<1>2. /\ Len(q) \in Nat \ {0} /\ DOMAIN q = 1 .. Len(q) /\ DOMAIN Tail(q) = 1 .. Len(q) - 1
      /\ q[1] = Head(q)
      /\ \A i \in 1 .. Len(q) - 1 : Tail(q)[i] = q[i + 1]
  OBVIOUS
<1>3. Range(q) = {Head(q)} \cup Range(Tail(q))
  <2>1. \A i \in DOMAIN q : i = 1 \/ (i - 1 \in DOMAIN Tail(q) /\ q[i] = Tail(q)[i - 1])
    BY <1>2
  <2>2. \A i \in DOMAIN Tail(q) : i + 1 \in DOMAIN q /\ Tail(q)[i] = q[i + 1]
    BY <1>2
  <2>3. 1 \in DOMAIN q
    BY <1>2
  <2>4. \A x \in Range(q) : x \in {Head(q)} \cup Range(Tail(q))
    BY <1>2, <2>1 DEF Range
  <2>5. Range(Tail(q)) \subseteq Range(q)
    BY <2>2 DEF Range
  <2>6. Head(q) \in Range(q)
    BY <1>2, <2>3 DEF Range
  <2> QED BY <2>4, <2>5, <2>6
<1>4. ASSUME InOrder(q)
      PROVE  /\ InOrder(Tail(q))
             /\ \A r \in Range(Tail(q)) : <<Head(q), r>> \in MayPrecede
  <2>1. \A i, j \in 1 .. Len(q) : i < j => <<q[i], q[j]>> \in MayPrecede
    BY <1>2, <1>4 DEF InOrder, Related
  <2>2. \A i, j \in 1 .. Len(q) - 1 : i < j => <<Tail(q)[i], Tail(q)[j]>> \in MayPrecede
    <3> TAKE i, j \in 1 .. Len(q) - 1
    <3>1. i < j => <<q[i + 1], q[j + 1]>> \in MayPrecede
      BY <1>2, <2>1
    <3> QED BY <1>2, <3>1
  <2>3. \A i \in 1 .. Len(q) - 1 : <<Head(q), Tail(q)[i]>> \in MayPrecede
    <3> TAKE i \in 1 .. Len(q) - 1
    <3>1. <<q[1], q[i + 1]>> \in MayPrecede
      BY <1>2, <2>1
    <3> QED BY <1>2, <3>1
  <2> QED BY <1>2, <2>2, <2>3 DEF InOrder, Related, Range
<1> QED BY <1>1, <1>3, <1>4

\* Runs are put behind others.
LEMMA ConcatLemma ==
  ASSUME NEW q \in Seq(Runs), NEW s \in Seq(Runs)
  PROVE  /\ q \o s \in Seq(Runs)
         /\ Range(q \o s) = Range(q) \cup Range(s)
         /\ s # <<>> => q \o s # <<>>
         /\ InOrder(q) /\ InOrder(s)
            /\ (\A a \in Range(q), b \in Range(s) : <<a, b>> \in MayPrecede)
              => InOrder(q \o s)
<1>1. /\ q \o s \in Seq(Runs) /\ Len(q) \in Nat /\ Len(s) \in Nat
      /\ DOMAIN q = 1 .. Len(q) /\ DOMAIN s = 1 .. Len(s)
      /\ DOMAIN (q \o s) = 1 .. Len(q) + Len(s)
      /\ \A i \in 1 .. Len(q) : (q \o s)[i] = q[i]
      /\ \A i \in 1 .. Len(s) : (q \o s)[i + Len(q)] = s[i]
  OBVIOUS
<1>2. \A i \in DOMAIN (q \o s) :
        \/ i \in DOMAIN q /\ (q \o s)[i] = q[i]
        \/ i > Len(q) /\ i - Len(q) \in DOMAIN s /\ (q \o s)[i] = s[i - Len(q)]
  <2> TAKE i \in DOMAIN (q \o s)
  <2>1. CASE i <= Len(q)
    BY <1>1, <2>1
  <2>2. CASE i > Len(q)
    <3>1. i - Len(q) \in 1 .. Len(s)
      BY <1>1, <2>2
    <3>2. (q \o s)[(i - Len(q)) + Len(q)] = s[i - Len(q)]
      BY <1>1, <3>1
    <3>3. (i - Len(q)) + Len(q) = i
      BY <1>1
    <3> QED BY <1>1, <2>2, <3>1, <3>2, <3>3
  <2> QED BY <1>1, <2>1, <2>2
<1> DEFINE c == q \o s
<1>3. Range(c) = Range(q) \cup Range(s)
  <2>1. Range(c) \subseteq Range(q) \cup Range(s)
    BY <1>2 DEF Range
  <2>2. Range(q) \subseteq Range(c)
    BY <1>1 DEF Range
  <2>3. \A i \in DOMAIN s : i + Len(q) \in DOMAIN c /\ c[i + Len(q)] = s[i]
    BY <1>1
  <2>4. Range(s) \subseteq Range(c)
    BY <2>3 DEF Range
  <2> QED BY <2>1, <2>2, <2>4
<1>4. s # <<>> => c # <<>>
  OBVIOUS
<1>5. ASSUME InOrder(q), InOrder(s), \A a \in Range(q), b \in Range(s) : <<a, b>> \in MayPrecede
      PROVE  InOrder(c)
  <2> SUFFICES ASSUME NEW i \in DOMAIN c, NEW j \in DOMAIN c, i < j
               PROVE  <<c[i], c[j]>> \in MayPrecede
    BY DEF InOrder, Related
  <2>1. i \in Nat /\ j \in Nat
    BY <1>1
  <2>2. CASE i \in DOMAIN q /\ c[i] = q[i] /\ j \in DOMAIN q /\ c[j] = q[j]
    BY <1>5, <2>2 DEF InOrder, Related
  <2>3. CASE i \in DOMAIN q /\ c[i] = q[i] /\ j - Len(q) \in DOMAIN s /\ c[j] = s[j - Len(q)]
    BY <1>5, <2>3 DEF Range
  <2>4. CASE /\ i - Len(q) \in DOMAIN s /\ c[i] = s[i - Len(q)]
             /\ j - Len(q) \in DOMAIN s /\ c[j] = s[j - Len(q)]
    <3>1. i - Len(q) < j - Len(q)
      BY <1>1, <2>1
    <3> QED BY <1>5, <2>4, <3>1 DEF InOrder, Related
  <2>5. CASE i > Len(q) /\ j \in DOMAIN q
    BY <1>1, <2>1, <2>5
  <2> QED BY <1>2, <2>2, <2>3, <2>4, <2>5
<1> QED BY <1>1, <1>3, <1>4, <1>5

\* One run is put behind a queue.
LEMMA AppendLemma ==
  ASSUME NEW q \in Seq(Runs), NEW t \in Runs
  PROVE  /\ Append(q, t) \in Seq(Runs)
         /\ Range(Append(q, t)) = Range(q) \cup {t}
         /\ InOrder(q) /\ (\A a \in Range(q) : <<a, t>> \in MayPrecede) => InOrder(Append(q, t))
<1>1. Append(q, t) \in Seq(Runs) /\ Range(Append(q, t)) = Range(q) \cup {t}
  <2> DEFINE All == Runs \X Runs
  <2>1. Related(q, All) /\ \A i \in DOMAIN q : <<q[i], t>> \in All
    BY DEF Related
  <2> HIDE DEF All
  <2> QED BY <2>1, AppendRelated
<1>2. ASSUME InOrder(q), \A a \in Range(q) : <<a, t>> \in MayPrecede
      PROVE  InOrder(Append(q, t))
  <2>1. Related(q, MayPrecede) /\ \A i \in DOMAIN q : <<q[i], t>> \in MayPrecede
    BY <1>2 DEF InOrder, Range
  <2> QED BY <2>1, AppendRelated DEF InOrder
<1> QED BY <1>1, <1>2

\* A queue without runs.
LEMMA EmptyLemma == <<>> \in Seq(Runs) /\ Range(<<>>) = {} /\ InOrder(<<>>)
BY DEF Range, InOrder, Related

\* A queue in which no run waits is empty.
LEMMA EmptyRange ==
  ASSUME NEW q \in Seq(Runs), Range(q) = {}
  PROVE  q = <<>>
<1>1. Len(q) \in Nat /\ DOMAIN q = 1 .. Len(q)
  OBVIOUS
<1>2. 1 \notin DOMAIN q
  BY DEF Range
<1>3. Len(q) = 0
  BY <1>1, <1>2
<1> QED BY <1>3

\* The candidates of a process are its initializers, TLS callbacks first.
LEMMA CandidatesLemma ==
  ASSUME NEW p \in Range(Processes)
  PROVE  /\ Candidates(p) \in Seq(Range(Candidates(p)))
         /\ \A r \in InitRuns : r.proc = p => r \in Range(Candidates(p))
         /\ \A r \in Range(Candidates(p)) : r.proc = p
         /\ \A i, j \in DOMAIN Candidates(p) :
              i < j /\ Candidates(p)[i].mod = Candidates(p)[j].mod =>
                Candidates(p)[i].fn < Candidates(p)[j].fn
<1>1. Len(Modules) \in Nat /\ DOMAIN Modules = 1 .. Len(Modules)
  BY ObjectsAssumption
<1> DEFINE n == 2 * Len(Modules)
<1>2. n \in Nat /\ DOMAIN Candidates(p) = 1 .. n
  BY <1>1 DEF Candidates
<1>3. \A k \in 1 .. n : /\ (k + 1) \div 2 \in DOMAIN Modules /\ k = 2 * ((k + 1) \div 2) - (k % 2)
                          /\ k % 2 \in {0, 1}
  BY <1>1
<1>4. \A k \in 1 .. n : Candidates(p)[k] = InitRun(p, Modules[(k + 1) \div 2], 2 - (k % 2))
  BY <1>1 DEF Candidates
<1>5. Candidates(p) \in Seq(Range(Candidates(p)))
  BY <1>1 DEF Candidates, Range
<1>6. ASSUME NEW r \in InitRuns, r.proc = p
      PROVE  r \in Range(Candidates(p))
  <2>1. PICK m \in Range(Modules), f \in {1, 2} : r = InitRun(p, m, f)
    BY <1>6, ObjectsAssumption DEF InitRuns, InitRun
  <2>2. PICK i \in DOMAIN Modules : m = Modules[i]
    BY DEF Range
  <2> DEFINE k == 2 * i - (2 - f)
  <2>3. k \in 1 .. n /\ (k + 1) \div 2 = i /\ 2 - (k % 2) = f
    BY <1>1, <2>2
  <2>4. Candidates(p)[k] = r
    BY <1>4, <2>1, <2>2, <2>3
  <2> QED BY <1>2, <2>3, <2>4 DEF Range
<1>7. \A r \in Range(Candidates(p)) : r.proc = p
  BY <1>2, <1>4 DEF Range, InitRun
<1>8. ASSUME NEW k \in 1 .. n
      PROVE  /\ Candidates(p)[k].mod = Modules[(k + 1) \div 2]
             /\ Candidates(p)[k].fn = 2 - (k % 2)
  <2> DEFINE m == Modules[(k + 1) \div 2]
             f == 2 - (k % 2)
  <2>1. Candidates(p)[k] = InitRun(p, m, f)
    BY <1>4
  <2> HIDE DEF m, f
  <2>2. InitRun(p, m, f).mod = m /\ InitRun(p, m, f).fn = f
    BY DEF InitRun
  <2>3. Candidates(p)[k].mod = m /\ Candidates(p)[k].fn = f
    BY <2>1, <2>2
  <2> QED BY <2>3 DEF m, f
<1>9. ASSUME NEW i \in 1 .. n, NEW j \in 1 .. n, i < j, Candidates(p)[i].mod = Candidates(p)[j].mod
      PROVE  Candidates(p)[i].fn < Candidates(p)[j].fn
  <2>1. Modules[(i + 1) \div 2] = Modules[(j + 1) \div 2]
    BY <1>8, <1>9
  <2>2. (i + 1) \div 2 = (j + 1) \div 2
    BY <1>3, <2>1, ObjectsAssumption DEF IsInjective
  <2>3. i % 2 = 1 /\ j % 2 = 0
    BY <1>3, <1>9, <2>2
  <2> QED BY <1>8, <2>3
<1> QED BY <1>2, <1>5, <1>6, <1>7, <1>9

\* A process gets the initializers of the modules that it did not initialize,
\* in an order in which they may run.
LEMMA InitializersLemma ==
  ASSUME NEW p \in Range(Processes)
  PROVE  /\ Initializers(p) \in Seq(Runs) /\ InOrder(Initializers(p))
         /\ Range(Initializers(p)) = {r \in InitRuns : r.proc = p /\ load[p][r.mod] = "none"}
<1> DEFINE c == Candidates(p)
           R == {w \in Range(c) \X Range(c) : w[1].mod = w[2].mod => w[1].fn < w[2].fn}
           S == {r \in InitRuns : load[p][r.mod] = "none"}
           q == Keep(c, S)
<1>1. /\ c \in Seq(Range(c))
      /\ \A r \in InitRuns : r.proc = p => r \in Range(c)
      /\ \A r \in Range(c) : r.proc = p
      /\ \A i, j \in DOMAIN c : i < j /\ c[i].mod = c[j].mod => c[i].fn < c[j].fn
  BY CandidatesLemma
<1> HIDE DEF c
<1>2. Related(c, R)
  BY <1>1 DEF Related, Range
<1> HIDE DEF R, S
<1>3. /\ q \in Seq(Range(c)) /\ Range(q) = Range(c) \cap S /\ Related(q, R)
  <2> DEFINE A == Range(c)
  <2>1. c \in Seq(A) /\ Related(c, R)
    BY <1>1, <1>2
  <2> HIDE DEF A
  <2>2. Keep(c, S) \in Seq(A) /\ Range(Keep(c, S)) = Range(c) \cap S /\ Related(Keep(c, S), R)
    BY <2>1, KeepLemma, ZenonT(60)
  <2> QED BY <2>2 DEF A
<1>4. Initializers(p) = q
  BY DEF Initializers, c, S
<1> HIDE DEF q
<1>5. Range(q) = {r \in InitRuns : r.proc = p /\ load[p][r.mod] = "none"}
  BY <1>1, <1>3 DEF S
<1>6. \A i \in DOMAIN q : q[i] \in InitRuns /\ q[i] \in Runs
  BY <1>5 DEF Range, Runs
<1>7. q \in Seq(Runs)
  BY <1>3, <1>6
<1>8. ASSUME NEW i \in DOMAIN q, NEW j \in DOMAIN q, i < j
      PROVE  <<q[i], q[j]>> \in MayPrecede
  <2>1. q[i].fn \in {1, 2} /\ q[j].fn \in {1, 2}
    BY <1>6 DEF InitRuns, InitRun
  <2>2. q[i].mod = q[j].mod => q[i].fn < q[j].fn
    BY <1>3, <1>8 DEF Related, R
  <2>3. q[i] # q[j] /\ ~(q[i].mod = q[j].mod /\ q[i].fn = 2)
    BY <2>1, <2>2
  <2> QED BY <1>6, <2>3 DEF MayPrecede
<1>9. InOrder(q)
  BY <1>8 DEF InOrder, Related
<1> QED BY <1>4, <1>5, <1>7, <1>9
-----------------------------------------------------------------------------

\* Where a call of _execute_current_run is open, or ended and not yet handled.
Called == InCall \cup {"after", "except"}
\* Where the loop of _execute_current_run is in its body.
Body == InCall \ {"loop", "finish"}

LoadStates == {"none", "initializing", "ready", "init_error"}
Loads == [Range(Processes) -> [Range(Modules) -> LoadStates]]

\* What an initializer run is made of.
LEMMA InitRunType ==
  ASSUME NEW r \in InitRuns
  PROVE  /\ r \in Runs /\ r.proc \in Range(Processes) /\ r.mod \in Range(Modules)
         /\ r.fn \in {1, 2} /\ r = InitRun(r.proc, r.mod, r.fn)
         /\ r.fn = 1 => r.mod \in HasTls
BY ObjectsAssumption DEF InitRuns, InitRun, Runs

\* What CompleteRun does: whether the initializer failed, and the queue that is left.
Completes(e, q, sus, ld, failed, rest) ==
  /\ rest \in Seq(Runs) /\ (InOrder(q) => InOrder(rest))
  /\ Range(rest) = IF failed THEN Range(q) \ OfModule(curr) ELSE Range(q)
  /\ failed => curr \in InitRuns
  /\ curr \in InitRuns /\ e[curr] # "none" => failed
  /\ err' = IF failed /\ e[curr] = "none"
            THEN [e EXCEPT ![curr] = "dll_initialization_failed"] ELSE e
  /\ load' = IF failed THEN [ld EXCEPT ![curr.proc][curr.mod] = "init_error"]
             ELSE IF curr \in InitRuns /\ IsLast(curr)
             THEN [ld EXCEPT ![curr.proc][curr.mod] = "ready"] ELSE ld
  /\ completed' = [completed EXCEPT ![curr] = @ + 1]
  /\ frames' = [frames EXCEPT ![curr] = 0]
  /\ exit' = NoExit
  /\ suspended' = sus
  /\ \/ /\ rest = <<>>
        /\ emuComplete' = TRUE /\ runComplete' = TRUE
        /\ queue' = <<>> /\ curr' = curr /\ reported' = reported
     \/ /\ rest # <<>>
        /\ emuComplete' = emuComplete /\ runComplete' = FALSE
        /\ queue' = Tail(rest) /\ curr' = Head(rest) /\ reported' = reported \cup {Head(rest)}

\* CompleteRun does what Completes says.
LEMMA CompleteRunLemma ==
  ASSUME NEW e, NEW q \in Seq(Runs), NEW sus, NEW ld, CompleteRun(e, q, sus, ld)
  PROVE  \E failed \in BOOLEAN, rest \in Seq(Runs) : Completes(e, q, sus, ld, failed, rest)
<1>1. PICK accepted \in BOOLEAN :
        LET failed == curr \in InitRuns /\ (e[curr] # "none" \/ ~accepted)
            rest == IF failed THEN WithoutModule(q, curr) ELSE q
        IN Completes(e, q, sus, ld, failed, rest)
  <2>1. /\ WithoutModule(q, curr) \in Seq(Runs)
        /\ Range(WithoutModule(q, curr)) = Range(q) \ OfModule(curr)
        /\ InOrder(q) => InOrder(WithoutModule(q, curr))
    BY WithoutModuleLemma
  <2> QED BY <2>1, ZenonT(60) DEF CompleteRun, Completes
<1> DEFINE failed == curr \in InitRuns /\ (e[curr] # "none" \/ ~accepted)
           rest == IF failed THEN WithoutModule(q, curr) ELSE q
<1>2. failed \in BOOLEAN /\ rest \in Seq(Runs)
  BY WithoutModuleLemma
<1>3. Completes(e, q, sus, ld, failed, rest)
  BY <1>1
<1> QED BY <1>2, <1>3

-----------------------------------------------------------------------------
(* Types. *)

\* The types of what CompleteRun changes.
RunTypes ==
  /\ queue \in Seq(Runs) /\ suspended \subseteq Threads
  /\ curr \in Runs /\ reported \subseteq Runs
  /\ err \in [Runs -> Errors]
  /\ completed \in [Runs -> Nat] /\ frames \in [Runs -> Nat]
  /\ load \in Loads
  /\ exit \in [kind : ExitKinds, run : Runs \cup {NoRun}]
  /\ runComplete \in BOOLEAN /\ emuComplete \in BOOLEAN

\* The runs that a process starts with are runs.
LEMMA EntryRunsType ==
  ASSUME NEW p \in Range(Processes)
  PROVE  EntryRuns[p] \in Seq(Runs)
<1>1. EntryRuns[p] \in Seq(Range(EntryRuns[p]))
  BY ObjectsAssumption
<1>2. Range(EntryRuns[p]) \subseteq Runs
  BY DEF Runs, MainRuns
<1> QED BY <1>1, <1>2

\* TypeOK, and a run is current and a call has its run while the loop runs.
TypeInv ==
  /\ TypeOK
  /\ pc \in Called \cup {"outer"} => curr \in Runs
  /\ pc \in Called => origin \in Runs

\* Types of the exits, of the cancelled load states and of the errors.
LEMMA NoExitType == NoExit \in [kind : ExitKinds, run : Runs \cup {NoRun}]
BY DEF NoExit, ExitKinds

\* An exit of a run.
LEMMA ExitType ==
  ASSUME NEW kind \in ExitKinds, NEW r \in Runs
  PROVE  Exit(kind, r) \in [kind : ExitKinds, run : Runs \cup {NoRun}]
BY DEF Exit

\* The load states after cancelling.
LEMMA CanceledType ==
  ASSUME NEW rs, load \in Loads
  PROVE  Canceled(rs) \in Loads
BY DEF Canceled, Loads, LoadStates

\* The errors after one is set.
LEMMA ErrorType ==
  ASSUME NEW r \in Runs, NEW e \in Errors, err \in [Runs -> Errors]
  PROVE  SetError(r, e) \in [Runs -> Errors] /\ FirstError(r, e) \in [Runs -> Errors]
BY DEF SetError, FirstError

\* CompleteRun keeps the types.
LEMMA CompleteRunType ==
  ASSUME TypeOK, curr \in Runs,
         NEW e \in [Runs -> Errors], NEW q \in Seq(Runs), NEW sus \in SUBSET Threads, NEW ld \in Loads,
         CompleteRun(e, q, sus, ld)
  PROVE  RunTypes'
<1>1. PICK failed \in BOOLEAN, rest \in Seq(Runs) : Completes(e, q, sus, ld, failed, rest)
  BY CompleteRunLemma
<1>2. queue' \in Seq(Runs) /\ curr' \in Runs /\ reported' \subseteq Runs
  <2>1. CASE rest = <<>>
    BY <1>1, <2>1, EmptyLemma DEF Completes, TypeOK
  <2>2. CASE rest # <<>>
    BY <1>1, <2>2, HeadLemma DEF Completes, TypeOK
  <2> QED BY <2>1, <2>2
<1>3. err' \in [Runs -> Errors]
  BY <1>1 DEF Completes, Errors
<1>4. completed' \in [Runs -> Nat] /\ frames' \in [Runs -> Nat]
  BY <1>1, SMTT(60) DEF Completes, TypeOK
<1>5. load' \in Loads
  <2>1. curr \in InitRuns => curr.proc \in Range(Processes) /\ curr.mod \in Range(Modules)
    BY InitRunType
  <2> QED BY <1>1, <2>1 DEF Completes, Loads, LoadStates
<1>6. exit' \in [kind : ExitKinds, run : Runs \cup {NoRun}]
  BY <1>1, NoExitType DEF Completes
<1>7. suspended' \subseteq Threads
  BY <1>1 DEF Completes
<1>8. runComplete' \in BOOLEAN /\ emuComplete' \in BOOLEAN
  BY <1>1 DEF Completes, TypeOK
<1> QED BY <1>2, <1>3, <1>4, <1>5, <1>6, <1>7, <1>8 DEF RunTypes

\* A limit keeps the types.
LEMMA StopAtLimitType ==
  ASSUME TypeOK, curr \in Runs, NEW kind, StopAtLimit(kind)
  PROVE  RunTypes' /\ exhausted' \in BOOLEAN
<1>1. FirstError(curr, "limit") \in [Runs -> Errors]
  BY ErrorType DEF TypeOK, Errors
<1>2. load \in Loads /\ Canceled(Pending) \in Loads
  BY CanceledType DEF TypeOK, Loads, LoadStates
<1>3. /\ exhausted' \in BOOLEAN
      /\ \/ CompleteRun(FirstError(curr, "limit"), <<>>, {}, Canceled(Pending))
         \/ CompleteRun(FirstError(curr, "limit"), queue, suspended, load)
  BY Zenon DEF StopAtLimit, TypeOK
<1>4. <<>> \in Seq(Runs) /\ {} \in SUBSET Threads
  OBVIOUS
<1>5. queue \in Seq(Runs) /\ suspended \in SUBSET Threads
  BY DEF TypeOK
<1> QED BY <1>1, <1>2, <1>3, <1>4, <1>5, CompleteRunType

\* What TypeInv says of the arguments of CompleteRun.
LEMMA ArgumentTypes ==
  ASSUME TypeInv
  PROVE  /\ err \in [Runs -> Errors] /\ queue \in Seq(Runs) /\ suspended \in SUBSET Threads
         /\ load \in Loads /\ Canceled(Pending) \in Loads
         /\ <<>> \in Seq(Runs) /\ {} \in SUBSET Threads
         /\ \A r \in Runs, e \in Errors : SetError(r, e) \in [Runs -> Errors]
<1>1. /\ err \in [Runs -> Errors] /\ queue \in Seq(Runs) /\ suspended \in SUBSET Threads
      /\ load \in Loads
  BY DEF TypeInv, TypeOK, Loads, LoadStates
<1>2. Canceled(Pending) \in Loads
  BY <1>1, CanceledType
<1>3. \A r \in Runs, e \in Errors : SetError(r, e) \in [Runs -> Errors]
  BY <1>1, ErrorType
<1> QED BY <1>1, <1>2, <1>3

\* A count of frames stays one, whatever part of the frames stays.
LEMMA FramesTypes ==
  ASSUME frames \in [Runs -> Nat], curr \in Runs
  PROVE  /\ \A n \in 0 .. frames[curr] : KeepFrames(n) => frames' \in [Runs -> Nat]
         /\ DispatchFrame => frames' \in [Runs -> Nat]
<1>1. frames[curr] \in Nat OBVIOUS
<1>2. \A n \in 0 .. frames[curr] : n \in Nat /\ n + 1 \in Nat BY <1>1
<1>3. \A n \in Nat : KeepFrames(n) => frames' \in [Runs -> Nat] BY DEF KeepFrames
<1> QED BY <1>2, <1>3 DEF DispatchFrame

\* Every step keeps the types.  A callback return takes a frame, so this needs
\* that the run has one.
LEMMA TypeStep == TypeInv /\ ExitOfCurrentRun /\ [Next]_vars => TypeInv'
<1> SUFFICES ASSUME TypeInv, ExitOfCurrentRun, [Next]_vars
             PROVE  TypeInv'
  OBVIOUS
<1> USE DEF TypeInv
<1>1. CASE StartExhausted
  BY <1>1, ArgumentTypes, ZenonT(60) DEF StartExhausted, TypeOK, Loads, LoadStates, runVars, countVars,
     timeVars, loopVars, InCall, Called, PCs
<1>2. CASE StartWithoutRuns
  BY <1>2 DEF StartWithoutRuns, TypeOK, runVars, countVars, timeVars, loopVars, InCall, Called,
     PCs
<1>3. CASE Start
  <2> DEFINE p == Processes[proc]
             q == Initializers(p) \o queue
  <2>1. p \in Range(Processes)
    BY DEF TypeOK, Range
  <2>2. Initializers(p) \in Seq(Runs)
    BY <2>1, InitializersLemma
  <2>3. q \in Seq(Runs) /\ q # <<>>
    BY <1>3, <2>2, ArgumentTypes, ConcatLemma DEF Start
  <2>4. Head(q) \in Runs /\ Tail(q) \in Seq(Runs)
    BY <2>3, HeadLemma
  <2>5. load' \in Loads
    BY <1>3, <2>1, ArgumentTypes DEF Start, Loads, LoadStates
  <2> QED
    BY <1>3, <2>4, <2>5 DEF Start, TypeOK, Loads, LoadStates, runVars, countVars, timeVars,
       loopVars, InCall, Called, PCs
<1>4. CASE EnterCall
  BY <1>4, NoExitType DEF EnterCall, TypeOK, Loads, LoadStates, runVars, countVars, timeVars,
     loopVars, InCall, Called, PCs
<1>5. CASE EndAtTotalBudget
  <2>1. curr \in Runs
    BY <1>5 DEF EndAtTotalBudget, Called
  <2>2. RunTypes'
    <3>1. CASE runComplete
      BY <1>5, <2>1, <3>1, ArgumentTypes DEF EndAtTotalBudget, RunTypes, TypeOK
    <3>2. CASE ~runComplete
      BY <1>5, <2>1, <3>2, ArgumentTypes, CompleteRunType DEF EndAtTotalBudget
    <3> QED BY <3>1, <3>2
  <2> QED
    BY <1>5, <2>2 DEF EndAtTotalBudget, RunTypes, TypeOK, Loads, LoadStates, runVars, countVars,
       timeVars, loopVars, InCall, Called, PCs
<1>6. CASE NextTurn
  BY <1>6 DEF NextTurn, TypeOK, runVars, countVars, timeVars, loopVars, InCall, Called, PCs
<1>7. CASE ExceptionEndsRun
  <2>1. curr \in Runs
    BY <1>7 DEF ExceptionEndsRun, InCall, Called
  <2>2. RunTypes'
    BY <1>7, <2>1, ArgumentTypes, CompleteRunType DEF ExceptionEndsRun, Errors
  <2> QED
    BY <1>7, <2>2 DEF ExceptionEndsRun, RunTypes, TypeOK, Loads, LoadStates, runVars, countVars,
       timeVars, loopVars, InCall, Called, PCs
<1>8. CASE ExceptionAfterExitEvent
  BY <1>8 DEF ExceptionAfterExitEvent, TypeOK, runVars, countVars, timeVars, loopVars, InCall,
     Called, PCs
<1>9. CASE Done
  BY <1>9 DEF Done, TypeOK, runVars, countVars, timeVars, loopVars, InCall, Called, PCs
<1>10. CASE NextChild
  <2>1. /\ proc + 1 \in DOMAIN Processes
    BY <1>10, ObjectsAssumption DEF NextChild, TypeOK
  <2> DEFINE p == Processes[proc + 1]
  <2>2. p \in Range(Processes)
    BY <2>1 DEF Range
  <2>3. EntryRuns[p] \in Seq(Runs)
    BY <2>2, EntryRunsType
  <2>4. queue' \in Seq(Runs)
    BY <1>10, <2>3, ArgumentTypes, ConcatLemma DEF NextChild
  <2> QED
    BY <1>10, <2>1, <2>4 DEF NextChild, TypeOK, Loads, LoadStates, runVars, countVars, timeVars,
       loopVars, InCall, Called, PCs
<1>11. CASE LoopEnds
  BY <1>11 DEF LoopEnds, TypeOK, runVars, countVars, timeVars, loopVars, InCall, Called, PCs
<1>12. CASE LoopAtLimit
  <2>1. curr \in Runs
    BY <1>12 DEF LoopAtLimit, InCall, Called
  <2>2. RunTypes' /\ exhausted' \in BOOLEAN
    BY <1>12, <2>1, StopAtLimitType DEF LoopAtLimit
  <2> QED
    BY <1>12, <2>2 DEF LoopAtLimit, RunTypes, TypeOK, Loads, LoadStates, runVars, countVars,
       timeVars, loopVars, InCall, Called, PCs
<1>13. CASE StartUnicorn
  BY <1>13 DEF StartUnicorn, TypeOK, runVars, countVars, timeVars, loopVars, InCall, Called, PCs
<1>14. CASE LoopHandlesExit
  BY <1>14 DEF LoopHandlesExit, TypeOK, runVars, countVars, timeVars, loopVars, InCall, Called,
     PCs
<1>15. CASE UnicornStopped
  <2>1. curr \in Runs
    BY <1>15 DEF UnicornStopped, InCall, Called
  <2>2. PICK x \in ExitAtPc : exit' = x
    BY <1>15 DEF UnicornStopped
  <2>3. x = exit \/ \E kind \in {"api", "return", "callback"} : x = Exit(kind, curr)
    BY <2>2 DEF ExitAtPc
  <2>4. exit' \in [kind : ExitKinds, run : Runs \cup {NoRun}]
    BY <2>1, <2>2, <2>3, ExitType DEF TypeOK, ExitKinds
  <2> QED
    BY <1>15, <2>4 DEF UnicornStopped, TypeOK, Loads, LoadStates, runVars, countVars, timeVars,
       loopVars, InCall, Called, PCs
<1>16. CASE StopWithoutExit
  <2>1. curr \in Runs
    BY <1>16 DEF StopWithoutExit, InCall, Called
  <2>2. RunTypes' /\ exhausted' \in BOOLEAN
    <3>1. CASE StopAtLimit(ReachedLimit)
      BY <2>1, <3>1, StopAtLimitType
    <3>2. CASE CompleteRun(SetError(curr, "fault"), queue, suspended, load) /\ UNCHANGED exhausted
      BY <2>1, <3>2, ArgumentTypes, CompleteRunType DEF Errors, TypeOK
    <3>3. CASE UNCHANGED <<runVars, exhausted>>
      BY <2>1, <3>3 DEF RunTypes, TypeOK, Loads, LoadStates, runVars, countVars, timeVars,
         loopVars, InCall, Called, PCs
    <3> QED BY <1>16, <3>1, <3>2, <3>3 DEF StopWithoutExit
  <2> QED
    BY <1>16, <2>2 DEF StopWithoutExit, RunTypes, TypeOK, Loads, LoadStates, runVars, countVars,
       timeVars, loopVars, InCall, Called, PCs
<1>17. CASE HandleCpuException
  <2>1. curr \in Runs
    BY <1>17 DEF HandleCpuException, InCall, Called
  <2>2. /\ SetError(curr, "fault") \in [Runs -> Errors]
        /\ Exit("fault", curr) \in [kind : ExitKinds, run : Runs \cup {NoRun}]
    BY <2>1, ArgumentTypes, ExitType DEF Errors, ExitKinds
  <2>3. frames' \in [Runs -> Nat]
    BY <1>17, <2>1, FramesTypes DEF HandleCpuException, TypeOK
  <2>4. err' \in [Runs -> Errors] /\ exit' \in [kind : ExitKinds, run : Runs \cup {NoRun}]
    BY <1>17, <2>2, NoExitType DEF HandleCpuException, Fail, TypeOK
  <2> QED
    BY <1>17, <2>1, <2>3, <2>4 DEF HandleCpuException, TypeOK, Loads,
       LoadStates, runVars, countVars, timeVars, loopVars, InCall, Called, PCs
<1>18. CASE ApiAtLimit
  <2>1. curr \in Runs
    BY <1>18 DEF ApiAtLimit, InCall, Called
  <2>2. RunTypes' /\ exhausted' \in BOOLEAN
    BY <1>18, <2>1, StopAtLimitType DEF ApiAtLimit
  <2> QED
    BY <1>18, <2>2 DEF ApiAtLimit, RunTypes, TypeOK, Loads, LoadStates, runVars, countVars,
       timeVars, loopVars, InCall, Called, PCs
<1>19. CASE EnterApi
  BY <1>19, NoExitType DEF EnterApi, TypeOK, Loads, LoadStates, runVars, countVars, timeVars,
     loopVars, InCall, Called, PCs
<1>20. CASE ExitAtTotalTime
  <2>1. curr \in Runs
    BY <1>20 DEF ExitAtTotalTime, InCall, Called
  <2>2. RunTypes' /\ exhausted' \in BOOLEAN
    BY <1>20, <2>1, StopAtLimitType DEF ExitAtTotalTime
  <2> QED
    BY <1>20, <2>2 DEF ExitAtTotalTime, RunTypes, TypeOK, Loads, LoadStates, runVars, countVars,
       timeVars, loopVars, InCall, Called, PCs
<1>21. CASE HandleReturn
  <2>1. curr \in Runs
    BY <1>21 DEF HandleReturn, InCall, Called
  <2>2. RunTypes'
    BY <1>21, <2>1, ArgumentTypes, CompleteRunType DEF HandleReturn, Errors
  <2> QED
    BY <1>21, <2>2 DEF HandleReturn, RunTypes, TypeOK, Loads, LoadStates, runVars, countVars,
       timeVars, loopVars, InCall, Called, PCs
<1>22. CASE HandleRecovery
  BY <1>22, NoExitType DEF HandleRecovery, TypeOK, Loads, LoadStates, runVars, countVars,
     timeVars, loopVars, InCall, Called, PCs
<1>23. CASE HandleCallbackReturn
  <2>1. curr \in Runs
    BY <1>23 DEF HandleCallbackReturn, InCall, Called
  <2>2. /\ SetError(curr, "fault") \in [Runs -> Errors]
        /\ Exit("fault", curr) \in [kind : ExitKinds, run : Runs \cup {NoRun}]
    BY <2>1, ArgumentTypes, ExitType DEF Errors, ExitKinds
  <2>3. frames' \in [Runs -> Nat]
    <3>1. PICK n \in 1 .. frames[curr] : KeepFrames(n) \/ KeepFrames(n - 1)
      BY <1>23 DEF HandleCallbackReturn
    <3>2. frames \in [Runs -> Nat] /\ frames[curr] \in Nat BY <2>1 DEF TypeOK
    <3>3. n \in 0 .. frames[curr] /\ n - 1 \in 0 .. frames[curr] BY <3>1, <3>2
    <3> QED BY <2>1, <3>1, <3>2, <3>3, FramesTypes
  <2>4. err' \in [Runs -> Errors] /\ exit' \in [kind : ExitKinds, run : Runs \cup {NoRun}]
    BY <1>23, <2>2, NoExitType, ArgumentTypes DEF HandleCallbackReturn, Fail
  <2>5. runComplete' \in BOOLEAN
    BY <1>23 DEF HandleCallbackReturn, TypeOK
  <2> QED
    BY <1>23, <2>1, <2>3, <2>4, <2>5 DEF HandleCallbackReturn, TypeOK, Loads, LoadStates,
       runVars, countVars, timeVars, loopVars, InCall, Called, PCs
<1>24. CASE Handled
  BY <1>24 DEF Handled, TypeOK, runVars, countVars, timeVars, loopVars, InCall, Called, PCs
<1>25. CASE FinishCall
  <2>1. curr \in Runs /\ origin \in Runs
    BY <1>25 DEF FinishCall, InCall, Called
  <2>2. \A rs : Canceled(rs) \in Loads
    BY ArgumentTypes, CanceledType
  <2>3. FirstError(origin, "limit") \in [Runs -> Errors]
    BY <2>1, ErrorType DEF TypeOK, Errors
  <2>4. RunTypes' /\ exhausted' \in BOOLEAN
    <3>1. queue' \in Seq(Runs) /\ suspended' \subseteq Threads
      BY <1>25, ArgumentTypes DEF FinishCall, runVars
    <3>2. load' \in Loads
      BY <1>25, <2>2, ArgumentTypes DEF FinishCall, runVars
    <3>3. err' \in [Runs -> Errors]
      BY <1>25, <2>3, ArgumentTypes DEF FinishCall, runVars
    <3>4. curr' \in Runs /\ reported' \subseteq Runs
      BY <1>25, <2>1 DEF FinishCall, runVars, TypeOK, ReportedWithout
    <3>5. runComplete' \in BOOLEAN /\ exhausted' \in BOOLEAN
      BY <1>25 DEF FinishCall, runVars, TypeOK
    <3> QED
      BY <1>25, <3>1, <3>2, <3>3, <3>4, <3>5 DEF FinishCall, RunTypes, TypeOK, Loads,
         LoadStates, runVars, countVars, timeVars, loopVars, InCall, Called, PCs
  <2>5. total' \in Nat
    BY <1>25 DEF FinishCall, TotalAfter, TypeOK
  <2> QED
    BY <1>25, <2>1, <2>4, <2>5 DEF FinishCall, RunTypes, TypeOK, Loads, LoadStates, runVars,
       countVars, timeVars, loopVars, InCall, Called, PCs
<1>26. CASE ApiReturns
  <2>1. frames' \in [Runs -> Nat]
    BY <1>26, FramesTypes DEF ApiReturns, TypeOK, InCall, Called
  <2> QED
    BY <1>26, <2>1 DEF ApiReturns, Count, TypeOK, Loads, LoadStates, runVars, countVars, timeVars,
       loopVars, InCall, Called, PCs
<1>27. CASE ApiEndsRun
  BY <1>27 DEF ApiEndsRun, Count, TypeOK, Loads, LoadStates, runVars, countVars, timeVars,
     loopVars, InCall, Called, PCs
<1>28. CASE ApiStartsCallback
  <2>1. curr \in Runs
    BY <1>28 DEF ApiStartsCallback, InCall, Called
  <2>2. /\ SetError(curr, "fault") \in [Runs -> Errors]
        /\ Exit("fault", curr) \in [kind : ExitKinds, run : Runs \cup {NoRun}]
    BY <2>1, ArgumentTypes, ExitType DEF Errors, ExitKinds
  <2>3. frames' \in [Runs -> Nat] /\ apis' \in Nat
    BY <1>28, <2>1 DEF ApiStartsCallback, PushFrame, Count, TypeOK
  <2>4. err' \in [Runs -> Errors] /\ exit' \in [kind : ExitKinds, run : Runs \cup {NoRun}]
    BY <1>28, <2>2 DEF ApiStartsCallback, Fail, TypeOK
  <2> QED
    BY <1>28, <2>1, <2>3, <2>4 DEF ApiStartsCallback, TypeOK, Loads, LoadStates, runVars,
       countVars, timeVars, loopVars, InCall, Called, PCs
<1>29. CASE ApiRaisesInGuest
  <2>1. frames' \in [Runs -> Nat]
    BY <1>29, FramesTypes DEF ApiRaisesInGuest, TypeOK, InCall, Called
  <2> QED
    BY <1>29, <2>1 DEF ApiRaisesInGuest, Count, TypeOK, Loads, LoadStates, runVars,
     countVars, timeVars, loopVars, InCall, Called, PCs
<1>30. ASSUME NEW t \in Threads, ApiCreatesThread(t)
       PROVE  TypeInv'
  <2>1. t \in Runs /\ Append(queue, t) \in Seq(Runs) /\ Keep(queue, Runs \ {t}) \in Seq(Runs)
    <3>1. t \in Runs
      BY DEF Runs
    <3> QED BY <3>1, ArgumentTypes, AppendLemma, WithoutRunLemma
  <2>2. queue' \in Seq(Runs) /\ suspended' \subseteq Threads
    BY <1>30, <2>1, ArgumentTypes DEF ApiCreatesThread
  <2> QED
    BY <1>30, <2>2 DEF ApiCreatesThread, Count, TypeOK, Loads, LoadStates, runVars, countVars,
       timeVars, loopVars, InCall, Called, PCs
<1>31. ASSUME NEW t \in Threads, ApiResumesThread(t)
       PROVE  TypeInv'
  <2>1. t \in Runs /\ Append(queue, t) \in Seq(Runs) /\ Keep(queue, Runs \ {t}) \in Seq(Runs)
    <3>1. t \in Runs
      BY DEF Runs
    <3> QED BY <3>1, ArgumentTypes, AppendLemma, WithoutRunLemma
  <2>2. queue' \in Seq(Runs) /\ suspended' \subseteq Threads
    BY <1>31, <2>1, ArgumentTypes DEF ApiResumesThread
  <2> QED
    BY <1>31, <2>2 DEF ApiResumesThread, Count, TypeOK, Loads, LoadStates, runVars, countVars,
       timeVars, loopVars, InCall, Called, PCs
<1>32. ASSUME NEW t \in Threads, ApiSuspendsThread(t)
       PROVE  TypeInv'
  <2>1. t \in Runs /\ Append(queue, t) \in Seq(Runs) /\ Keep(queue, Runs \ {t}) \in Seq(Runs)
    <3>1. t \in Runs
      BY DEF Runs
    <3> QED BY <3>1, ArgumentTypes, AppendLemma, WithoutRunLemma
  <2>2. queue' \in Seq(Runs) /\ suspended' \subseteq Threads
    BY <1>32, <2>1, ArgumentTypes DEF ApiSuspendsThread
  <2> QED
    BY <1>32, <2>2 DEF ApiSuspendsThread, Count, TypeOK, Loads, LoadStates, runVars, countVars,
       timeVars, loopVars, InCall, Called, PCs
<1>33. CASE ApiHandlerRaises
  <2>1. curr \in Runs
    BY <1>33 DEF ApiHandlerRaises, InCall, Called
  <2>2. RunTypes'
    BY <1>33, <2>1, ArgumentTypes, CompleteRunType DEF ApiHandlerRaises, Errors
  <2> QED
    BY <1>33, <2>2 DEF ApiHandlerRaises, RunTypes, TypeOK, Loads, LoadStates, runVars,
       countVars, timeVars, loopVars, InCall, Called, PCs
<1>34. CASE ApiArgumentFault
  <2>1. curr \in Runs
    BY <1>34 DEF ApiArgumentFault, InCall, Called
  <2>2. /\ SetError(curr, "fault") \in [Runs -> Errors]
        /\ Exit("fault", curr) \in [kind : ExitKinds, run : Runs \cup {NoRun}]
    BY <2>1, ArgumentTypes, ExitType DEF Errors, ExitKinds
  <2> QED
    BY <1>34, <2>1, <2>2, NoExitType DEF ApiArgumentFault, Fail, TypeOK, Loads, LoadStates,
       runVars, countVars, timeVars, loopVars, InCall, Called, PCs
<1>35. CASE ApiHookRaises
  BY <1>35 DEF ApiHookRaises, TypeOK, runVars, countVars, timeVars, loopVars, InCall, Called,
     PCs
<1>36. CASE ApiUnsupported
  <2>1. curr \in Runs
    BY <1>36 DEF ApiUnsupported, InCall, Called
  <2>2. RunTypes'
    BY <1>36, <2>1, ArgumentTypes, CompleteRunType DEF ApiUnsupported, Errors
  <2>3. apis' \in Nat
    BY <1>36 DEF ApiUnsupported, Count, TypeOK
  <2> QED
    BY <1>36, <2>2, <2>3 DEF ApiUnsupported, RunTypes, TypeOK, Loads, LoadStates, runVars,
       countVars, timeVars, loopVars, InCall, Called, PCs
<1>37. CASE ApiLimitReached
  <2>1. curr \in Runs
    BY <1>37 DEF ApiLimitReached, InCall, Called
  <2>2. RunTypes'
    BY <1>37, <2>1, ArgumentTypes, CompleteRunType DEF ApiLimitReached, Errors
  <2> QED
    BY <1>37, <2>2 DEF ApiLimitReached, RunTypes, TypeOK, Loads, LoadStates, runVars, countVars,
       timeVars, loopVars, InCall, Called, PCs
<1>38. CASE ApiLimitNotReached
  BY <1>38 DEF ApiLimitNotReached, TypeOK, runVars, countVars, timeVars, loopVars, InCall,
     Called, PCs
<1>39. CASE ApiDidNotReturn
  <2>1. curr \in Runs
    BY <1>39 DEF ApiDidNotReturn, InCall, Called
  <2>2. /\ SetError(curr, "fault") \in [Runs -> Errors]
        /\ Exit("fault", curr) \in [kind : ExitKinds, run : Runs \cup {NoRun}]
    BY <2>1, ArgumentTypes, ExitType DEF Errors, ExitKinds
  <2> QED
    BY <1>39, <2>1, <2>2, NoExitType DEF ApiDidNotReturn, Fail, TypeOK, Loads, LoadStates,
       runVars, countVars, timeVars, loopVars, InCall, Called, PCs
<1>40. CASE ApiDispatched
  <2>1. curr \in Runs
    BY <1>40 DEF ApiDispatched, InCall, Called
  <2>2. RunTypes' /\ exhausted' \in BOOLEAN /\ pc' \in {"handled", "finish"}
    <3>1. CASE StopAtLimit("max_total_time") /\ pc' = "finish"
      BY <2>1, <3>1, StopAtLimitType
    <3>2. CASE CompleteRun(err, queue, suspended, load) /\ UNCHANGED exhausted /\ pc' = "handled"
      BY <2>1, <3>2, ArgumentTypes, CompleteRunType DEF TypeOK
    <3>3. CASE UNCHANGED <<runVars, exhausted>> /\ pc' = "handled"
      BY <2>1, <3>3 DEF RunTypes, TypeOK, Loads, LoadStates, runVars, countVars, timeVars,
         loopVars, InCall, Called, PCs
    <3> QED BY <1>40, <3>1, <3>2, <3>3 DEF ApiDispatched
  <2> QED
    BY <1>40, <2>2 DEF ApiDispatched, RunTypes, TypeOK, Loads, LoadStates, runVars, countVars,
       timeVars, loopVars, InCall, Called, PCs
<1>41. CASE GuestInstruction
  BY <1>41 DEF GuestInstruction, TypeOK, runVars, countVars, timeVars, loopVars, InCall, Called,
     PCs
<1>42. ASSUME NEW kind \in ExitKinds, RecordExit(kind)
       PROVE  TypeInv'
  BY <1>42, ExitType DEF RecordExit, ExitKinds, TypeOK, Loads, LoadStates, runVars, countVars,
     timeVars, loopVars, InCall, Called, PCs
<1>43. CASE EngineStops
  BY <1>43 DEF EngineStops, TypeOK, runVars, countVars, timeVars, loopVars, InCall, Called, PCs
<1>44. CASE HookStops
  BY <1>44 DEF HookStops, TypeOK, runVars, countVars, timeVars, loopVars, InCall, Called, PCs
<1>45. CASE HookFails
  BY <1>45, ArgumentTypes DEF HookFails, Errors, TypeOK, Loads, LoadStates, runVars, countVars,
     timeVars, loopVars, InCall, Called, PCs
<1>46. CASE UnhandledInterrupt
  <2>1. curr \in Runs
    BY <1>46 DEF UnhandledInterrupt, InCall, Called
  <2>2. RunTypes'
    BY <1>46, <2>1, ArgumentTypes, CompleteRunType DEF UnhandledInterrupt, Errors
  <2> QED
    BY <1>46, <2>2 DEF UnhandledInterrupt, RunTypes, TypeOK, Loads, LoadStates, runVars,
       countVars, timeVars, loopVars, InCall, Called, PCs
<1>47. CASE DeferredWork
  <2>1. curr \in Runs
    BY <1>47 DEF DeferredWork, InCall, Called
  <2>2. RunTypes'
    BY <1>47, <2>1, ArgumentTypes, CompleteRunType DEF DeferredWork, Errors
  <2> QED
    BY <1>47, <2>2 DEF DeferredWork, RunTypes, TypeOK, Loads, LoadStates, runVars, countVars,
       timeVars, loopVars, InCall, Called, PCs
<1>48. CASE EngineRaises
  BY <1>48 DEF EngineRaises, TypeOK, runVars, countVars, timeVars, loopVars, InCall, Called, PCs
<1>49. CASE Tick
  BY <1>49 DEF Tick, TypeOK, runVars, countVars, timeVars, loopVars, InCall, Called, PCs
<1>50. CASE SetExitEvent
  BY <1>50 DEF SetExitEvent, TypeOK, runVars, countVars, timeVars, loopVars, InCall, Called, PCs
<1>51. CASE UNCHANGED vars
  BY <1>51 DEF vars, TypeOK, runVars, countVars, timeVars, loopVars
<1> QED
  BY <1>1, <1>2, <1>3, <1>4, <1>5, <1>6, <1>7, <1>8, <1>9, <1>10, <1>11, <1>12, <1>13,
     <1>14, <1>15, <1>16, <1>17, <1>18, <1>19, <1>20, <1>21, <1>22, <1>23, <1>24, <1>25, <1>26,
     <1>27, <1>28, <1>29, <1>30, <1>31, <1>32, <1>33, <1>34, <1>35, <1>36, <1>37, <1>38, <1>39,
     <1>40, <1>41, <1>42, <1>43, <1>44, <1>45, <1>46, <1>47, <1>48, <1>49, <1>50, <1>51 DEF
     Next, LoopStep, ApiStep, GuestStep, Terminated

-----------------------------------------------------------------------------
(* Control. *)

\* Which run the loop is at and what its flags say, at each control point.
Control ==
  /\ pc \in {"loop", "guest", "exit", "api"} => curr = origin
  /\ raising => pc \in {"finish", "except"} /\ curr = origin /\ ~emuComplete
  /\ pc = "except" => raising
  /\ pc \in {"outer", "guest", "api", "exit"} => ~emuComplete
  /\ emuComplete /\ pc \in Called => runComplete /\ curr = origin
  /\ emuComplete /\ pc = "limit" => queue = <<>>
  /\ exhausted => pc \in {"finish", "after", "except", "done", "ended", "start"}
  /\ exhausted /\ pc \in {"finish", "after", "except"} => queue = <<>>
  /\ exhausted /\ pc = "finish" => emuComplete

\* A stop of Unicorn after the run ended leaves no exit.
StopInv == pc = "stopped" /\ (curr # origin \/ emuComplete) => exit = NoExit

\* What CompleteRun does to the flags: the emulation is complete, or the next
\* run is current.
LEMMA CompleteRunFlags ==
  ASSUME NEW e, NEW q \in Seq(Runs), NEW sus, NEW ld, CompleteRun(e, q, sus, ld)
  PROVE  /\ exit' = NoExit
         /\ \/ emuComplete' = TRUE /\ runComplete' = TRUE /\ queue' = <<>> /\ curr' = curr
            \/ emuComplete' = emuComplete /\ runComplete' = FALSE /\ q # <<>>
<1>1. PICK failed \in BOOLEAN, rest \in Seq(Runs) : Completes(e, q, sus, ld, failed, rest)
  BY CompleteRunLemma
<1>2. q = <<>> => rest = <<>>
  BY <1>1, EmptyLemma, EmptyRange DEF Completes
<1> QED BY <1>1, <1>2, Zenon DEF Completes

\* What a limit does to the flags of the loop.
LEMMA StopAtLimitFlags ==
  ASSUME TypeInv, NEW kind, StopAtLimit(kind)
  PROVE  /\ exit' = NoExit
         /\ \/ emuComplete' = TRUE /\ runComplete' = TRUE /\ queue' = <<>> /\ curr' = curr
            \/ emuComplete' = emuComplete /\ runComplete' = FALSE /\ exhausted' = exhausted
         /\ exhausted' = exhausted \/ queue' = <<>>
<1>1. CASE kind = "max_total_time"
  <2>1. CompleteRun(FirstError(curr, "limit"), <<>>, {}, Canceled(Pending))
    BY <1>1, Zenon DEF StopAtLimit
  <2>2. /\ exit' = NoExit
        /\ emuComplete' = TRUE /\ runComplete' = TRUE /\ queue' = <<>> /\ curr' = curr
    BY <2>1, EmptyLemma, CompleteRunFlags
  <2> QED BY <2>2
<1>2. CASE kind # "max_total_time"
  <2>1. CompleteRun(FirstError(curr, "limit"), queue, suspended, load) /\ exhausted' = exhausted
    BY <1>2, Zenon DEF StopAtLimit
  <2> QED BY <2>1, ArgumentTypes, CompleteRunFlags
<1> QED BY <1>1, <1>2

\* Every step keeps Control.
LEMMA ControlStep == TypeInv /\ Control /\ StopInv /\ [Next]_vars => Control'
<1> SUFFICES ASSUME TypeInv, Control, StopInv, [Next]_vars
             PROVE  Control'
  OBVIOUS
<1>1. CASE StartExhausted
  BY <1>1 DEF StartExhausted, Control, runVars, countVars, timeVars, loopVars, InCall, Called
<1>2. CASE StartWithoutRuns
  BY <1>2 DEF StartWithoutRuns, Control, runVars, countVars, timeVars, loopVars, InCall, Called
<1>3. CASE Start
  BY <1>3 DEF Start, Control, runVars, countVars, timeVars, loopVars, InCall, Called
<1>4. CASE EnterCall
  BY <1>4 DEF EnterCall, Control, runVars, countVars, timeVars, loopVars, InCall, Called
<1>5. CASE EndAtTotalBudget
  BY <1>5 DEF EndAtTotalBudget, Control, runVars, countVars, timeVars, loopVars, InCall, Called
<1>6. CASE NextTurn
  BY <1>6 DEF NextTurn, Control, runVars, countVars, timeVars, loopVars, InCall, Called
<1>7. CASE ExceptionEndsRun
  <2>1. \/ emuComplete' = TRUE /\ runComplete' = TRUE /\ queue' = <<>> /\ curr' = curr
        \/ emuComplete' = emuComplete /\ runComplete' = FALSE /\ queue # <<>>
    BY <1>7, ArgumentTypes, CompleteRunFlags DEF ExceptionEndsRun
  <2> QED
    BY <1>7, <2>1 DEF ExceptionEndsRun, Control, runVars, countVars, timeVars, loopVars, InCall,
       Called
<1>8. CASE ExceptionAfterExitEvent
  BY <1>8 DEF ExceptionAfterExitEvent, Control, runVars, countVars, timeVars, loopVars, InCall,
     Called
<1>9. CASE Done
  BY <1>9 DEF Done, Control, runVars, countVars, timeVars, loopVars, InCall, Called
<1>10. CASE NextChild
  BY <1>10 DEF NextChild, Control, runVars, countVars, timeVars, loopVars, InCall, Called
<1>11. CASE LoopEnds
  BY <1>11 DEF LoopEnds, Control, runVars, countVars, timeVars, loopVars, InCall, Called
<1>12. CASE LoopAtLimit
  <2>1. /\ \/ emuComplete' = TRUE /\ runComplete' = TRUE /\ queue' = <<>> /\ curr' = curr
           \/ emuComplete' = emuComplete /\ runComplete' = FALSE /\ exhausted' = exhausted
        /\ exhausted' = exhausted \/ queue' = <<>>
    BY <1>12, StopAtLimitFlags DEF LoopAtLimit
  <2> QED
    BY <1>12, <2>1 DEF LoopAtLimit, Control, runVars, countVars, timeVars, loopVars, InCall,
       Called
<1>13. CASE StartUnicorn
  BY <1>13 DEF StartUnicorn, Control, runVars, countVars, timeVars, loopVars, InCall, Called
<1>14. CASE LoopHandlesExit
  BY <1>14 DEF LoopHandlesExit, Control, runVars, countVars, timeVars, loopVars, InCall, Called
<1>15. CASE UnicornStopped
  <2>1. /\ pc = "stopped"
        /\ \/ pc' = "exit" /\ curr = origin /\ ~emuComplete
           \/ pc' = "finish"
           \/ pc' = "loop" /\ curr = origin
        /\ UNCHANGED <<curr, origin, emuComplete, runComplete, exhausted, raising, queue>>
    BY <1>15 DEF UnicornStopped, StopInv, ExitAtPc, Exit, NoExit, runVars, countVars, timeVars,
       loopVars
  <2> QED BY <2>1 DEF Control, runVars, countVars, timeVars, loopVars, InCall, Called
<1>16. CASE StopWithoutExit
  <2>1. \/ /\ \/ emuComplete' = TRUE /\ runComplete' = TRUE /\ queue' = <<>> /\ curr' = curr
              \/ emuComplete' = emuComplete /\ runComplete' = FALSE /\ exhausted' = exhausted
           /\ exhausted' = exhausted \/ queue' = <<>>
        \/ UNCHANGED <<runVars, exhausted>>
    BY <1>16, ArgumentTypes, StopAtLimitFlags, CompleteRunFlags DEF StopWithoutExit
  <2> QED
    BY <1>16, <2>1 DEF StopWithoutExit, Control, runVars, countVars, timeVars, loopVars, InCall,
       Called
<1>17. CASE HandleCpuException
  BY <1>17 DEF HandleCpuException, Control, runVars, countVars, timeVars, loopVars, InCall,
     Called
<1>18. CASE ApiAtLimit
  <2>1. /\ \/ emuComplete' = TRUE /\ runComplete' = TRUE /\ queue' = <<>> /\ curr' = curr
           \/ emuComplete' = emuComplete /\ runComplete' = FALSE /\ exhausted' = exhausted
        /\ exhausted' = exhausted \/ queue' = <<>>
    BY <1>18, StopAtLimitFlags DEF ApiAtLimit
  <2> QED
    BY <1>18, <2>1 DEF ApiAtLimit, Control, runVars, countVars, timeVars, loopVars, InCall,
       Called
<1>19. CASE EnterApi
  BY <1>19 DEF EnterApi, Control, runVars, countVars, timeVars, loopVars, InCall, Called
<1>20. CASE ExitAtTotalTime
  <2>1. /\ \/ emuComplete' = TRUE /\ runComplete' = TRUE /\ queue' = <<>> /\ curr' = curr
           \/ emuComplete' = emuComplete /\ runComplete' = FALSE /\ exhausted' = exhausted
        /\ exhausted' = exhausted \/ queue' = <<>>
    BY <1>20, StopAtLimitFlags DEF ExitAtTotalTime
  <2> QED
    BY <1>20, <2>1 DEF ExitAtTotalTime, Control, runVars, countVars, timeVars, loopVars, InCall,
       Called
<1>21. CASE HandleReturn
  <2>1. \/ emuComplete' = TRUE /\ runComplete' = TRUE /\ queue' = <<>> /\ curr' = curr
        \/ emuComplete' = emuComplete /\ runComplete' = FALSE /\ queue # <<>>
    BY <1>21, ArgumentTypes, CompleteRunFlags DEF HandleReturn
  <2> QED
    BY <1>21, <2>1 DEF HandleReturn, Control, runVars, countVars, timeVars, loopVars, InCall,
       Called
<1>22. CASE HandleRecovery
  BY <1>22 DEF HandleRecovery, Control, runVars, countVars, timeVars, loopVars, InCall, Called
<1>23. CASE HandleCallbackReturn
  BY <1>23 DEF HandleCallbackReturn, Control, runVars, countVars, timeVars, loopVars, InCall,
     Called
<1>24. CASE Handled
  BY <1>24 DEF Handled, Control, runVars, countVars, timeVars, loopVars, InCall, Called
<1>25. CASE FinishCall
  BY <1>25 DEF FinishCall, Control, runVars, countVars, timeVars, loopVars, InCall, Called
<1>26. CASE ApiReturns
  BY <1>26 DEF ApiReturns, Control, runVars, countVars, timeVars, loopVars, InCall, Called
<1>27. CASE ApiEndsRun
  BY <1>27 DEF ApiEndsRun, Control, runVars, countVars, timeVars, loopVars, InCall, Called
<1>28. CASE ApiStartsCallback
  BY <1>28 DEF ApiStartsCallback, Control, runVars, countVars, timeVars, loopVars, InCall,
     Called
<1>29. CASE ApiRaisesInGuest
  BY <1>29 DEF ApiRaisesInGuest, Control, runVars, countVars, timeVars, loopVars, InCall, Called
<1>30. ASSUME NEW t \in Threads, ApiCreatesThread(t)
       PROVE  Control'
  BY <1>30 DEF ApiCreatesThread, Control, runVars, countVars, timeVars, loopVars, InCall, Called
<1>31. ASSUME NEW t \in Threads, ApiResumesThread(t)
       PROVE  Control'
  BY <1>31 DEF ApiResumesThread, Control, runVars, countVars, timeVars, loopVars, InCall, Called
<1>32. ASSUME NEW t \in Threads, ApiSuspendsThread(t)
       PROVE  Control'
  BY <1>32 DEF ApiSuspendsThread, Control, runVars, countVars, timeVars, loopVars, InCall,
     Called
<1>33. CASE ApiHandlerRaises
  <2>1. \/ emuComplete' = TRUE /\ runComplete' = TRUE /\ queue' = <<>> /\ curr' = curr
        \/ emuComplete' = emuComplete /\ runComplete' = FALSE /\ queue # <<>>
    BY <1>33, ArgumentTypes, CompleteRunFlags DEF ApiHandlerRaises
  <2> QED
    BY <1>33, <2>1 DEF ApiHandlerRaises, Control, runVars, countVars, timeVars, loopVars,
       InCall, Called
<1>34. CASE ApiArgumentFault
  BY <1>34 DEF ApiArgumentFault, Control, runVars, countVars, timeVars, loopVars, InCall, Called
<1>35. CASE ApiHookRaises
  BY <1>35 DEF ApiHookRaises, Control, runVars, countVars, timeVars, loopVars, InCall, Called
<1>36. CASE ApiUnsupported
  <2>1. \/ emuComplete' = TRUE /\ runComplete' = TRUE /\ queue' = <<>> /\ curr' = curr
        \/ emuComplete' = emuComplete /\ runComplete' = FALSE /\ queue # <<>>
    BY <1>36, ArgumentTypes, CompleteRunFlags DEF ApiUnsupported
  <2> QED
    BY <1>36, <2>1 DEF ApiUnsupported, Control, runVars, countVars, timeVars, loopVars, InCall,
       Called
<1>37. CASE ApiLimitReached
  <2>1. \/ emuComplete' = TRUE /\ runComplete' = TRUE /\ queue' = <<>> /\ curr' = curr
        \/ emuComplete' = emuComplete /\ runComplete' = FALSE /\ queue # <<>>
    BY <1>37, ArgumentTypes, CompleteRunFlags DEF ApiLimitReached
  <2> QED
    BY <1>37, <2>1 DEF ApiLimitReached, AboveApiLimit, Control, runVars, countVars, timeVars,
       loopVars, InCall, Called
<1>38. CASE ApiLimitNotReached
  BY <1>38 DEF ApiLimitNotReached, Control, runVars, countVars, timeVars, loopVars, InCall,
     Called
<1>39. CASE ApiDidNotReturn
  BY <1>39 DEF ApiDidNotReturn, Control, runVars, countVars, timeVars, loopVars, InCall, Called
<1>40. CASE ApiDispatched
  <2>1. \/ /\ \/ emuComplete' = TRUE /\ runComplete' = TRUE /\ queue' = <<>> /\ curr' = curr
              \/ emuComplete' = emuComplete /\ runComplete' = FALSE /\ exhausted' = exhausted
           /\ curr = origin /\ ~emuComplete
           /\ exhausted' = exhausted \/ (queue' = <<>> /\ pc' = "finish")
        \/ UNCHANGED <<runVars, exhausted>> /\ pc' = "handled"
    <3>1. CASE RunEndsAfterApi /\ StopAtLimit("max_total_time") /\ pc' = "finish"
      BY <3>1, StopAtLimitFlags DEF RunEndsAfterApi
    <3>2. CASE RunEndsAfterApi /\ CompleteRun(err, queue, suspended, load) /\ UNCHANGED exhausted
      BY <3>2, ArgumentTypes, CompleteRunFlags DEF RunEndsAfterApi
    <3> QED BY <1>40, <3>1, <3>2 DEF ApiDispatched
  <2>2. pc = "dispatched" /\ pc' \in {"handled", "finish"}
    BY <1>40 DEF ApiDispatched
  <2> QED
    BY <1>40, <2>1, <2>2 DEF ApiDispatched, Control, runVars, countVars, timeVars, loopVars,
       InCall, Called
<1>41. CASE GuestInstruction
  BY <1>41 DEF GuestInstruction, Control, runVars, countVars, timeVars, loopVars, InCall, Called
<1>42. ASSUME NEW kind \in ExitKinds, RecordExit(kind)
       PROVE  Control'
  BY <1>42 DEF RecordExit, Control, runVars, countVars, timeVars, loopVars, InCall, Called
<1>43. CASE EngineStops
  BY <1>43 DEF EngineStops, Control, runVars, countVars, timeVars, loopVars, InCall, Called
<1>44. CASE HookStops
  BY <1>44 DEF HookStops, Control, runVars, countVars, timeVars, loopVars, InCall, Called
<1>45. CASE HookFails
  BY <1>45 DEF HookFails, Control, runVars, countVars, timeVars, loopVars, InCall, Called
<1>46. CASE UnhandledInterrupt
  <2>1. \/ emuComplete' = TRUE /\ runComplete' = TRUE /\ queue' = <<>> /\ curr' = curr
        \/ emuComplete' = emuComplete /\ runComplete' = FALSE /\ queue # <<>>
    BY <1>46, ArgumentTypes, CompleteRunFlags DEF UnhandledInterrupt
  <2> QED
    BY <1>46, <2>1 DEF UnhandledInterrupt, Control, runVars, countVars, timeVars, loopVars,
       InCall, Called
<1>47. CASE DeferredWork
  <2>1. \/ emuComplete' = TRUE /\ runComplete' = TRUE /\ queue' = <<>> /\ curr' = curr
        \/ emuComplete' = emuComplete /\ runComplete' = FALSE /\ queue # <<>>
    BY <1>47, ArgumentTypes, CompleteRunFlags DEF DeferredWork
  <2> QED
    BY <1>47, <2>1 DEF DeferredWork, Control, runVars, countVars, timeVars, loopVars, InCall,
       Called
<1>48. CASE EngineRaises
  BY <1>48 DEF EngineRaises, Control, runVars, countVars, timeVars, loopVars, InCall, Called
<1>49. CASE Tick
  BY <1>49 DEF Tick, Control, runVars, countVars, timeVars, loopVars, InCall, Called
<1>50. CASE SetExitEvent
  BY <1>50 DEF SetExitEvent, Control, runVars, countVars, timeVars, loopVars, InCall, Called
<1>51. CASE UNCHANGED vars
  BY <1>51 DEF vars, Control, runVars, countVars, timeVars, loopVars, InCall, Called
<1> QED
  BY <1>1, <1>2, <1>3, <1>4, <1>5, <1>6, <1>7, <1>8, <1>9, <1>10, <1>11, <1>12, <1>13,
     <1>14, <1>15, <1>16, <1>17, <1>18, <1>19, <1>20, <1>21, <1>22, <1>23, <1>24, <1>25, <1>26,
     <1>27, <1>28, <1>29, <1>30, <1>31, <1>32, <1>33, <1>34, <1>35, <1>36, <1>37, <1>38, <1>39,
     <1>40, <1>41, <1>42, <1>43, <1>44, <1>45, <1>46, <1>47, <1>48, <1>49, <1>50, <1>51 DEF
     Next, LoopStep, ApiStep, GuestStep, Terminated

-----------------------------------------------------------------------------
(* The native exit. *)

\* There is no exit, or one of the current run that can be handled.
ExitOK ==
  \/ exit = NoExit
  \/ exit.run = curr /\ exit.kind # "none" /\ (exit.kind = "callback" => frames[curr] > 0)

\* What exit can be recorded at each control point.
ExitInv ==
  /\ pc \in Body \/ (pc = "loop" /\ ~exitEvent) => ExitOK
  /\ pc \in {"guest", "api"} => exit = NoExit
  /\ pc = "exit" => exit # NoExit
  /\ pc \in {"limit", "dispatched", "handled"} => exit.kind \in {"none", "fault"}
  /\ pc = "loop" /\ emuComplete => exit.kind \in {"none", "fault"}
  /\ StopInv
  /\ pc = "stopped" => exit.kind # "fault"
  /\ pc \notin Body \cup {"loop"} => exitEvent \/ exit.kind \notin {"recover", "cpu"}

\* Every step keeps ExitInv.
LEMMA ExitStep == TypeInv /\ Control /\ ExitInv /\ [Next]_vars => ExitInv'
<1> SUFFICES ASSUME TypeInv, Control, ExitInv, [Next]_vars
             PROVE  ExitInv'
  OBVIOUS
<1>1. CASE StartExhausted
  BY <1>1 DEF StartExhausted, Control, ExitInv, ExitOK, StopInv, NoExit, runVars, countVars,
     timeVars, loopVars, InCall, Body
<1>2. CASE StartWithoutRuns
  BY <1>2 DEF StartWithoutRuns, Control, ExitInv, ExitOK, StopInv, NoExit, runVars, countVars,
     timeVars, loopVars, InCall, Body
<1>3. CASE Start
  BY <1>3 DEF Start, Control, ExitInv, ExitOK, StopInv, NoExit, runVars, countVars, timeVars,
     loopVars, InCall, Body
<1>4. CASE EnterCall
  BY <1>4 DEF EnterCall, Control, ExitInv, ExitOK, StopInv, NoExit, runVars, countVars,
     timeVars, loopVars, InCall, Body
<1>5. CASE EndAtTotalBudget
  <2>1. exit' = NoExit \/ exit' = exit
    BY <1>5, ArgumentTypes, CompleteRunFlags DEF EndAtTotalBudget
  <2> QED
    BY <1>5, <2>1 DEF EndAtTotalBudget, ExitInv, ExitOK, StopInv, NoExit, runVars, countVars,
       timeVars, loopVars, InCall, Body
<1>6. CASE NextTurn
  BY <1>6 DEF NextTurn, Control, ExitInv, ExitOK, StopInv, NoExit, runVars, countVars, timeVars,
     loopVars, InCall, Body
<1>7. CASE ExceptionEndsRun
  <2>1. exit' = NoExit
    BY <1>7, ArgumentTypes, CompleteRunFlags DEF ExceptionEndsRun
  <2> QED
    BY <1>7, <2>1 DEF ExceptionEndsRun, ExitInv, ExitOK, StopInv, NoExit, runVars, countVars,
       timeVars, loopVars, InCall, Body
<1>8. CASE ExceptionAfterExitEvent
  BY <1>8 DEF ExceptionAfterExitEvent, Control, ExitInv, ExitOK, StopInv, NoExit, runVars,
     countVars, timeVars, loopVars, InCall, Body
<1>9. CASE Done
  BY <1>9 DEF Done, Control, ExitInv, ExitOK, StopInv, NoExit, runVars, countVars, timeVars,
     loopVars, InCall, Body
<1>10. CASE NextChild
  BY <1>10 DEF NextChild, Control, ExitInv, ExitOK, StopInv, NoExit, runVars, countVars,
     timeVars, loopVars, InCall, Body
<1>11. CASE LoopEnds
  BY <1>11 DEF LoopEnds, Control, ExitInv, ExitOK, StopInv, NoExit, runVars, countVars,
     timeVars, loopVars, InCall, Body
<1>12. CASE LoopAtLimit
  <2>1. exit' = NoExit
    BY <1>12, StopAtLimitFlags DEF LoopAtLimit
  <2> QED
    BY <1>12, <2>1 DEF LoopAtLimit, ExitInv, ExitOK, StopInv, NoExit, runVars, countVars,
       timeVars, loopVars, InCall, Body
<1>13. CASE StartUnicorn
  BY <1>13 DEF StartUnicorn, Control, ExitInv, ExitOK, StopInv, NoExit, runVars, countVars,
     timeVars, loopVars, InCall, Body
<1>14. CASE LoopHandlesExit
  BY <1>14 DEF LoopHandlesExit, Control, ExitInv, ExitOK, StopInv, NoExit, runVars, countVars,
     timeVars, loopVars, InCall, Body
<1>15. CASE UnicornStopped
  <2>1. PICK x \in ExitAtPc :
          /\ exit' = x
          /\ x = NoExit => curr # origin \/ emuComplete
          /\ pc' = IF x.kind = "cpu" THEN "exit"
                   ELSE IF curr # origin \/ emuComplete THEN "finish" ELSE "loop"
    BY <1>15 DEF UnicornStopped
  <2>2. /\ pc = "stopped" /\ UNCHANGED <<curr, frames, emuComplete, origin, exitEvent>>
    BY <1>15 DEF UnicornStopped, runVars, countVars, timeVars, loopVars
  <2>3. \/ x = exit
        \/ /\ exit = NoExit
           /\ \E kind \in {"api", "return", "callback"} :
                x = Exit(kind, curr) /\ (kind = "callback" => frames[curr] > 0)
    BY <2>1 DEF ExitAtPc
  <2>4. ExitOK' /\ (x # exit => exit'.kind \notin {"recover", "cpu", "fault"})
    BY <2>1, <2>2, <2>3 DEF ExitInv, ExitOK, StopInv, NoExit, runVars, countVars, timeVars,
       loopVars, InCall, Body, Exit
  <2> QED
    BY <2>1, <2>2, <2>4 DEF ExitInv, ExitOK, StopInv, NoExit, runVars, countVars, timeVars,
       loopVars, InCall, Body
<1>16. CASE StopWithoutExit
  <2>1. exit' = NoExit
    BY <1>16, ArgumentTypes, StopAtLimitFlags, CompleteRunFlags DEF StopWithoutExit, runVars
  <2> QED
    BY <1>16, <2>1 DEF StopWithoutExit, ExitInv, ExitOK, StopInv, NoExit, runVars, countVars,
       timeVars, loopVars, InCall, Body
<1>17. CASE HandleCpuException
  BY <1>17 DEF HandleCpuException, Fail, Exit, ExitInv, ExitOK, StopInv, NoExit, runVars,
     countVars, timeVars, loopVars, InCall, Body
<1>18. CASE ApiAtLimit
  <2>1. exit' = NoExit
    BY <1>18, StopAtLimitFlags DEF ApiAtLimit
  <2> QED
    BY <1>18, <2>1 DEF ApiAtLimit, ExitInv, ExitOK, StopInv, NoExit, runVars, countVars,
       timeVars, loopVars, InCall, Body
<1>19. CASE EnterApi
  BY <1>19 DEF EnterApi, Control, ExitInv, ExitOK, StopInv, NoExit, runVars, countVars,
     timeVars, loopVars, InCall, Body
<1>20. CASE ExitAtTotalTime
  <2>1. exit' = NoExit
    BY <1>20, StopAtLimitFlags DEF ExitAtTotalTime
  <2> QED
    BY <1>20, <2>1 DEF ExitAtTotalTime, ExitInv, ExitOK, StopInv, NoExit, runVars, countVars,
       timeVars, loopVars, InCall, Body
<1>21. CASE HandleReturn
  <2>1. exit' = NoExit
    BY <1>21, ArgumentTypes, CompleteRunFlags DEF HandleReturn
  <2> QED
    BY <1>21, <2>1 DEF HandleReturn, ExitInv, ExitOK, StopInv, NoExit, runVars, countVars,
       timeVars, loopVars, InCall, Body
<1>22. CASE HandleRecovery
  BY <1>22 DEF HandleRecovery, Control, ExitInv, ExitOK, StopInv, NoExit, runVars, countVars,
     timeVars, loopVars, InCall, Body
<1>23. CASE HandleCallbackReturn
  <2>1. /\ pc' = "handled" /\ curr' = curr
        /\ exit' = NoExit \/ exit' = Exit("fault", curr)
    BY <1>23 DEF HandleCallbackReturn, Fail
  <2> QED
    BY <2>1 DEF Exit, ExitInv, ExitOK, StopInv, NoExit, runVars, countVars, timeVars, loopVars,
       InCall, Body
<1>24. CASE Handled
  BY <1>24 DEF Handled, Control, ExitInv, ExitOK, StopInv, NoExit, runVars, countVars, timeVars,
     loopVars, InCall, Body
<1>25. CASE FinishCall
  BY <1>25 DEF FinishCall, Control, ExitInv, ExitOK, StopInv, NoExit, runVars, countVars,
     timeVars, loopVars, InCall, Body
<1>26. CASE ApiReturns
  BY <1>26 DEF ApiReturns, Control, ExitInv, ExitOK, StopInv, NoExit, runVars, countVars,
     timeVars, loopVars, InCall, Body
<1>27. CASE ApiEndsRun
  BY <1>27 DEF ApiEndsRun, Control, ExitInv, ExitOK, StopInv, NoExit, runVars, countVars,
     timeVars, loopVars, InCall, Body
<1>28. CASE ApiStartsCallback
  BY <1>28 DEF ApiStartsCallback, Fail, Exit, ExitInv, ExitOK, StopInv, NoExit, runVars,
     countVars, timeVars, loopVars, InCall, Body
<1>29. CASE ApiRaisesInGuest
  BY <1>29 DEF ApiRaisesInGuest, ExitInv, ExitOK, StopInv, NoExit, runVars,
     countVars, timeVars, loopVars, InCall, Body
<1>30. ASSUME NEW t \in Threads, ApiCreatesThread(t)
       PROVE  ExitInv'
  BY <1>30 DEF ApiCreatesThread, Control, ExitInv, ExitOK, StopInv, NoExit, runVars, countVars,
     timeVars, loopVars, InCall, Body
<1>31. ASSUME NEW t \in Threads, ApiResumesThread(t)
       PROVE  ExitInv'
  BY <1>31 DEF ApiResumesThread, Control, ExitInv, ExitOK, StopInv, NoExit, runVars, countVars,
     timeVars, loopVars, InCall, Body
<1>32. ASSUME NEW t \in Threads, ApiSuspendsThread(t)
       PROVE  ExitInv'
  BY <1>32 DEF ApiSuspendsThread, Control, ExitInv, ExitOK, StopInv, NoExit, runVars, countVars,
     timeVars, loopVars, InCall, Body
<1>33. CASE ApiHandlerRaises
  <2>1. exit' = NoExit
    BY <1>33, ArgumentTypes, CompleteRunFlags DEF ApiHandlerRaises
  <2> QED
    BY <1>33, <2>1 DEF ApiHandlerRaises, ExitInv, ExitOK, StopInv, NoExit, runVars, countVars,
       timeVars, loopVars, InCall, Body
<1>34. CASE ApiArgumentFault
  BY <1>34 DEF ApiArgumentFault, Fail, Exit, ExitInv, ExitOK, StopInv, NoExit, runVars,
     countVars, timeVars, loopVars, InCall, Body
<1>35. CASE ApiHookRaises
  BY <1>35 DEF ApiHookRaises, Control, ExitInv, ExitOK, StopInv, NoExit, runVars, countVars,
     timeVars, loopVars, InCall, Body
<1>36. CASE ApiUnsupported
  <2>1. exit' = NoExit
    BY <1>36, ArgumentTypes, CompleteRunFlags DEF ApiUnsupported
  <2> QED
    BY <1>36, <2>1 DEF ApiUnsupported, ExitInv, ExitOK, StopInv, NoExit, runVars, countVars,
       timeVars, loopVars, InCall, Body
<1>37. CASE ApiLimitReached
  <2>1. exit' = NoExit
    BY <1>37, ArgumentTypes, CompleteRunFlags DEF ApiLimitReached
  <2> QED
    BY <1>37, <2>1 DEF ApiLimitReached, ExitInv, ExitOK, StopInv, NoExit, runVars, countVars,
       timeVars, loopVars, InCall, Body
<1>38. CASE ApiLimitNotReached
  BY <1>38 DEF ApiLimitNotReached, Control, ExitInv, ExitOK, StopInv, NoExit, runVars,
     countVars, timeVars, loopVars, InCall, Body
<1>39. CASE ApiDidNotReturn
  BY <1>39 DEF ApiDidNotReturn, Fail, Exit, ExitInv, ExitOK, StopInv, NoExit, runVars,
     countVars, timeVars, loopVars, InCall, Body
<1>40. CASE ApiDispatched
  <2>1. exit' = NoExit \/ UNCHANGED runVars
    BY <1>40, ArgumentTypes, StopAtLimitFlags, CompleteRunFlags DEF ApiDispatched
  <2>2. pc = "dispatched" /\ pc' \in {"handled", "finish"}
    BY <1>40 DEF ApiDispatched
  <2> QED
    BY <1>40, <2>1, <2>2 DEF ExitInv, ExitOK, StopInv, NoExit, runVars, countVars, timeVars,
       loopVars, InCall, Body
<1>41. CASE GuestInstruction
  BY <1>41 DEF GuestInstruction, Control, ExitInv, ExitOK, StopInv, NoExit, runVars, countVars,
     timeVars, loopVars, InCall, Body
<1>42. ASSUME NEW kind \in ExitKinds, RecordExit(kind)
       PROVE  ExitInv'
  BY <1>42 DEF RecordExit, Exit, Control, ExitInv, ExitOK, StopInv, NoExit, runVars, countVars,
     timeVars, loopVars, InCall, Body
<1>43. CASE EngineStops
  BY <1>43 DEF EngineStops, Control, ExitInv, ExitOK, StopInv, NoExit, runVars, countVars,
     timeVars, loopVars, InCall, Body
<1>44. CASE HookStops
  BY <1>44 DEF HookStops, Control, ExitInv, ExitOK, StopInv, NoExit, runVars, countVars,
     timeVars, loopVars, InCall, Body
<1>45. CASE HookFails
  BY <1>45 DEF HookFails, Control, ExitInv, ExitOK, StopInv, NoExit, runVars, countVars,
     timeVars, loopVars, InCall, Body
<1>46. CASE UnhandledInterrupt
  <2>1. exit' = NoExit
    BY <1>46, ArgumentTypes, CompleteRunFlags DEF UnhandledInterrupt
  <2> QED
    BY <1>46, <2>1 DEF UnhandledInterrupt, ExitInv, ExitOK, StopInv, NoExit, runVars, countVars,
       timeVars, loopVars, InCall, Body
<1>47. CASE DeferredWork
  <2>1. exit' = NoExit
    BY <1>47, ArgumentTypes, CompleteRunFlags DEF DeferredWork
  <2> QED
    BY <1>47, <2>1 DEF DeferredWork, ExitInv, ExitOK, StopInv, NoExit, runVars, countVars,
       timeVars, loopVars, InCall, Body
<1>48. CASE EngineRaises
  BY <1>48 DEF EngineRaises, Control, ExitInv, ExitOK, StopInv, NoExit, runVars, countVars,
     timeVars, loopVars, InCall, Body
<1>49. CASE Tick
  BY <1>49 DEF Tick, Control, ExitInv, ExitOK, StopInv, NoExit, runVars, countVars, timeVars,
     loopVars, InCall, Body
<1>50. CASE SetExitEvent
  BY <1>50 DEF SetExitEvent, Control, ExitInv, ExitOK, StopInv, NoExit, runVars, countVars,
     timeVars, loopVars, InCall, Body
<1>51. CASE UNCHANGED vars
  BY <1>51 DEF vars, ExitInv, ExitOK, StopInv, NoExit, runVars, countVars, timeVars, loopVars,
     InCall, Body
<1> QED
  BY <1>1, <1>2, <1>3, <1>4, <1>5, <1>6, <1>7, <1>8, <1>9, <1>10, <1>11, <1>12, <1>13,
     <1>14, <1>15, <1>16, <1>17, <1>18, <1>19, <1>20, <1>21, <1>22, <1>23, <1>24, <1>25, <1>26,
     <1>27, <1>28, <1>29, <1>30, <1>31, <1>32, <1>33, <1>34, <1>35, <1>36, <1>37, <1>38, <1>39,
     <1>40, <1>41, <1>42, <1>43, <1>44, <1>45, <1>46, <1>47, <1>48, <1>49, <1>50, <1>51 DEF
     Next, LoopStep, ApiStep, GuestStep, Terminated

\* The type invariant, the control and the native exit.
LoopInv == TypeInv /\ Control /\ ExitInv

\* LoopInv holds at the beginning.
LEMMA InitLoopInv == Init => LoopInv
<1> SUFFICES ASSUME Init
             PROVE  LoopInv
  OBVIOUS
<1>1. 1 \in DOMAIN Processes /\ Processes[1] \in Range(Processes)
  BY ObjectsAssumption DEF Range
<1>2. queue \in Seq(Runs)
  BY <1>1, EntryRunsType DEF Init
<1>3. TypeInv
  BY <1>1, <1>2, NoExitType DEF Init, TypeInv, TypeOK, PCs, InCall, Called, Errors
<1>4. Control
  BY DEF Init, Control, InCall, Called
<1>5. ExitInv
  BY DEF Init, ExitInv, StopInv, NoExit, InCall, Body
<1> QED BY <1>3, <1>4, <1>5 DEF LoopInv

\* Every step keeps LoopInv.
LEMMA LoopInvStep == LoopInv /\ [Next]_vars => LoopInv'
<1>1. ExitInv => ExitOfCurrentRun
  BY DEF ExitInv, ExitOK, ExitOfCurrentRun, InCall, Body
<1>2. ExitInv => StopInv
  BY DEF ExitInv
<1> QED BY <1>1, <1>2, TypeStep, ControlStep, ExitStep DEF LoopInv

\* LoopInv is an invariant of the run loop.
LEMMA LoopInvariant == Spec => []LoopInv
BY InitLoopInv, LoopInvStep, PTL DEF Spec

\* The types of the state: in particular the frames of a run never get below
\* zero, because a callback return is handled only while there is a frame.
THEOREM TypeCorrect == Spec => []TypeOK
<1>1. LoopInv => TypeOK
  BY DEF LoopInv, TypeInv
<1> QED BY <1>1, LoopInvariant, PTL

\* A native exit is handled for the run that it was recorded for, with the
\* frame that it needs.
THEOREM ExitIsOfCurrentRun == Spec => []ExitOfCurrentRun
<1>1. LoopInv => ExitOfCurrentRun
  BY DEF LoopInv, ExitInv, ExitOK, ExitOfCurrentRun, InCall, Body
<1> QED BY <1>1, LoopInvariant, PTL

-----------------------------------------------------------------------------
(* The runs in the queue. *)

\* The processes that did not start.
Later == {j \in DOMAIN Processes : j > proc \/ (j = proc /\ pc = "start")}

\* The runs that are still to be made: initializers of processes that did not
\* start, and entry runs of later processes.
Fresh ==
  {r \in InitRuns : \E j \in Later : r.proc = Processes[j]}
  \cup UNION {Range(EntryRuns[Processes[j]]) : j \in {k \in DOMAIN Processes : k > proc}}

\* The queue is in an order in which its runs may run, after the current run,
\* and a run is in one place: waiting, suspended, reported or still to be made.
QueueInv ==
  /\ InOrder(queue)
  /\ pc \in Called \cup {"outer"} => \A r \in Range(queue) : <<curr, r>> \in MayPrecede
  /\ Range(queue) \cap suspended = {}
  /\ Fresh \cap (Range(queue) \cup reported) = {}
  /\ reported \cap (Range(queue) \cup suspended) = {}
  /\ pc \in Called \cup {"outer", "done"} => curr \in reported
  /\ pc \in Called => origin \in reported

\* No process starts and none is added.
LEMMA FreshSame ==
  ASSUME proc' = proc, (pc' = "start") <=> (pc = "start")
  PROVE  Fresh' = Fresh
BY DEF Fresh, Later

\* A process starts.
LEMMA FreshShrinks ==
  ASSUME proc' = proc, pc' # "start"
  PROVE  Fresh' \subseteq Fresh
BY DEF Fresh, Later

\* What CompleteRun does to the queue: nothing is left, or a run of the queue
\* that may come first is current.
LEMMA CompleteRunQueue ==
  ASSUME NEW e, NEW q \in Seq(Runs), NEW sus, NEW ld, InOrder(q), CompleteRun(e, q, sus, ld)
  PROVE  /\ InOrder(queue') /\ suspended' = sus
         /\ \/ queue' = <<>> /\ Range(queue') = {} /\ curr' = curr /\ reported' = reported
            \/ /\ curr' \in Range(q) /\ Range(queue') \subseteq Range(q) \ {curr'}
               /\ reported' = reported \cup {curr'}
               /\ \A r \in Range(queue') : <<curr', r>> \in MayPrecede
<1>1. PICK failed \in BOOLEAN, rest \in Seq(Runs) : Completes(e, q, sus, ld, failed, rest)
  BY CompleteRunLemma
<1>2. InOrder(rest) /\ Range(rest) \subseteq Range(q) /\ suspended' = sus
  BY <1>1 DEF Completes
<1>3. CASE rest = <<>>
  <2>1. queue' = <<>> /\ curr' = curr /\ reported' = reported
    BY <1>1, <1>3 DEF Completes
  <2> QED BY <1>2, <2>1, EmptyLemma
<1>4. CASE rest # <<>>
  <2>1. queue' = Tail(rest) /\ curr' = Head(rest) /\ reported' = reported \cup {curr'}
    BY <1>1, <1>4 DEF Completes
  <2>2. /\ Range(rest) = {Head(rest)} \cup Range(Tail(rest))
        /\ InOrder(Tail(rest)) /\ \A r \in Range(Tail(rest)) : <<Head(rest), r>> \in MayPrecede
    BY <1>2, <1>4, HeadLemma
  <2>3. \A r \in Range(queue') : <<curr', r>> \in MayPrecede /\ r # curr'
    BY <2>1, <2>2 DEF MayPrecede
  <2> QED BY <1>2, <2>1, <2>2, <2>3
<1> QED BY <1>3, <1>4

\* The same for a limit.
LEMMA StopAtLimitQueue ==
  ASSUME TypeInv, InOrder(queue), NEW kind, StopAtLimit(kind)
  PROVE  /\ InOrder(queue') /\ suspended' \subseteq suspended
         /\ \/ queue' = <<>> /\ Range(queue') = {} /\ curr' = curr /\ reported' = reported
            \/ /\ curr' \in Range(queue) /\ Range(queue') \subseteq Range(queue) \ {curr'}
               /\ reported' = reported \cup {curr'}
               /\ \A r \in Range(queue') : <<curr', r>> \in MayPrecede
<1>1. CASE kind = "max_total_time"
  <2>1. CompleteRun(FirstError(curr, "limit"), <<>>, {}, Canceled(Pending))
    BY <1>1, Zenon DEF StopAtLimit
  <2>2. InOrder(<<>>) /\ <<>> \in Seq(Runs) /\ Range(<<>>) = {}
    BY EmptyLemma
  <2>3. /\ InOrder(queue') /\ suspended' = {}
        /\ \/ queue' = <<>> /\ Range(queue') = {} /\ curr' = curr /\ reported' = reported
           \/ curr' \in Range(<<>>)
    BY <2>1, <2>2, CompleteRunQueue
  <2> QED BY <2>2, <2>3
<1>2. CASE kind # "max_total_time"
  <2>1. CompleteRun(FirstError(curr, "limit"), queue, suspended, load)
    BY <1>2, Zenon DEF StopAtLimit
  <2> QED BY <2>1, ArgumentTypes, CompleteRunQueue
<1> QED BY <1>1, <1>2

\* The queue, when the current run is completed or the limits end it.
LEMMA QueueAdvances ==
  ASSUME QueueInv, TypeInv,
         InOrder(queue'), suspended' \subseteq suspended,
         \/ queue' = <<>> /\ Range(queue') = {} /\ curr' = curr /\ reported' = reported
         \/ /\ curr' \in Range(queue) /\ Range(queue') \subseteq Range(queue) \ {curr'}
            /\ reported' = reported \cup {curr'}
            /\ \A r \in Range(queue') : <<curr', r>> \in MayPrecede,
         pc \in Called, pc' \in Called \cup {"outer", "done"}, proc' = proc, origin' = origin
  PROVE  QueueInv'
<1>1. Fresh' = Fresh
  BY FreshSame DEF Called, InCall
<1>2. curr \in reported /\ origin \in reported
  BY DEF QueueInv
<1>3. curr' \in reported' /\ reported \subseteq reported'
  BY <1>2
<1>4. Fresh' \cap (Range(queue') \cup reported') = {}
  BY <1>1 DEF QueueInv
<1>5. reported' \cap (Range(queue') \cup suspended') = {} /\ Range(queue') \cap suspended' = {}
  BY DEF QueueInv
<1> QED BY <1>2, <1>3, <1>4, <1>5 DEF QueueInv

\* Every step keeps QueueInv.
LEMMA QueueStep == LoopInv /\ QueueInv /\ [Next]_vars => QueueInv'
<1> SUFFICES ASSUME TypeInv, Control, QueueInv, [Next]_vars
             PROVE  QueueInv'
  BY DEF LoopInv
<1>1. CASE StartExhausted
  BY <1>1, FreshShrinks, EmptyLemma DEF StartExhausted, QueueInv, runVars, countVars, timeVars,
     loopVars, InCall, Called
<1>2. CASE StartWithoutRuns
  BY <1>2, FreshShrinks DEF StartWithoutRuns, QueueInv, runVars, countVars, timeVars, loopVars,
     InCall, Called
<1>3. CASE Start
  <2> DEFINE p == Processes[proc]
             i == Initializers(p)
             q == i \o queue
  <2>1. p \in Range(Processes) /\ proc \in Later /\ queue \in Seq(Runs)
    BY <1>3 DEF Start, TypeInv, TypeOK, Range, Later
  <2>2. i \in Seq(Runs) /\ InOrder(i) /\ \A r \in Range(i) : r \in InitRuns /\ r.proc = p
    BY <2>1, InitializersLemma
  <2>3. \A r \in InitRuns : r.proc = p => r \in Fresh
    BY <2>1 DEF Fresh
  <2>4. ASSUME NEW a \in Range(i), NEW b \in Range(queue)
        PROVE  <<a, b>> \in MayPrecede
    <3>1. a \in InitRuns /\ a.proc = p /\ a \in Fresh /\ a \in Runs
      BY <2>2, <2>3 DEF Runs
    <3>2. b \in Runs /\ b \notin Fresh
      BY <2>1 DEF QueueInv, Range
    <3>3. b \in InitRuns => b.proc # p
      BY <2>3, <3>2
    <3> QED BY <3>1, <3>2, <3>3 DEF MayPrecede
  <2> HIDE DEF i
  <2>5. /\ q \in Seq(Runs) /\ q # <<>> /\ InOrder(q) /\ Range(q) = Range(i) \cup Range(queue)
    BY <1>3, <2>1, <2>2, <2>4, ConcatLemma DEF Start, QueueInv
  <2>6. /\ curr' = Head(q) /\ queue' = Tail(q) /\ reported' = reported \cup {curr'}
        /\ UNCHANGED <<suspended, proc>> /\ pc' = "outer"
    BY <1>3 DEF Start, loopVars, i
  <2> HIDE DEF q
  <2>7. /\ InOrder(queue') /\ \A r \in Range(queue') : <<curr', r>> \in MayPrecede
        /\ Range(q) = {curr'} \cup Range(queue')
    BY <2>5, <2>6, HeadLemma
  <2>8. curr' \notin Range(queue')
    BY <2>7 DEF MayPrecede
  <2>9. \A r \in Range(q) : r \notin reported /\ r \notin suspended
    <3>1. \A r \in Range(i) : r \notin suspended
      BY <2>2, ObjectsAssumption DEF TypeInv, TypeOK
    <3> QED BY <2>2, <2>3, <2>5, <3>1 DEF QueueInv
  <2>10. \A r \in Range(q) : r \notin Fresh'
    <3>1. \A j \in Later' : j > proc
      BY <2>6 DEF Later
    <3>2. \A r \in Range(i) : r \notin Fresh'
      <4> SUFFICES ASSUME NEW r \in Range(i), r \in Fresh'
                   PROVE  FALSE
        OBVIOUS
      <4>1. r \in InitRuns /\ r.proc = p /\ r \notin MainRuns
        BY <2>2, ObjectsAssumption
      <4>2. \A j \in DOMAIN Processes : Processes[j] = p => j = proc
        BY ObjectsAssumption DEF IsInjective, TypeInv, TypeOK
      <4>3. \A j \in DOMAIN Processes : r \notin Range(EntryRuns[Processes[j]])
        BY <4>1 DEF MainRuns, Range
      <4>4. PICK j \in Later' : r.proc = Processes[j]
        BY <4>3 DEF Fresh
      <4>5. j \in DOMAIN Processes /\ j > proc
        BY <3>1, <4>4 DEF Later
      <4>6. j = proc /\ proc \in Nat
        BY <4>1, <4>2, <4>4, <4>5, ObjectsAssumption DEF TypeInv, TypeOK
      <4> QED BY <4>5, <4>6
    <3>3. \A r \in Range(queue) : r \notin Fresh'
      BY <2>6, FreshShrinks DEF QueueInv
    <3> QED BY <2>5, <3>2, <3>3
  <2>11. Fresh' \cap reported = {}
    BY <2>6, FreshShrinks DEF QueueInv
  <2> QED BY <2>6, <2>7, <2>8, <2>9, <2>10, <2>11 DEF QueueInv, Called, InCall
<1>4. CASE EnterCall
  BY <1>4, FreshSame DEF EnterCall, QueueInv, runVars, countVars, timeVars, loopVars, InCall,
     Called
<1>5. CASE EndAtTotalBudget
  <2>1. pc \in Called /\ pc' \in Called \cup {"outer", "done"} /\ proc' = proc /\ origin' = origin
    BY <1>5 DEF EndAtTotalBudget, Called, InCall, loopVars
  <2>2. InOrder(<<>>) /\ Range(<<>>) = {}
    BY EmptyLemma
  <2>3. CASE runComplete
    <3>1. /\ InOrder(queue') /\ suspended' \subseteq suspended
          /\ \/ queue' = <<>> /\ Range(queue') = {} /\ curr' = curr /\ reported' = reported
             \/ /\ curr' \in Range(queue) /\ Range(queue') \subseteq Range(queue) \ {curr'}
                /\ reported' = reported \cup {curr'}
                /\ \A r \in Range(queue') : <<curr', r>> \in MayPrecede
      BY <1>5, <2>2, <2>3 DEF EndAtTotalBudget
    <3> QED BY <2>1, <3>1, QueueAdvances
  <2>4. CASE ~runComplete
    <3>1. /\ InOrder(queue') /\ suspended' = {}
          /\ \/ queue' = <<>> /\ Range(queue') = {} /\ curr' = curr /\ reported' = reported
             \/ curr' \in Range(<<>>)
      BY <1>5, <2>2, <2>4, ArgumentTypes, CompleteRunQueue DEF EndAtTotalBudget
    <3> QED BY <2>1, <2>2, <3>1, QueueAdvances
  <2> QED BY <2>3, <2>4
<1>6. CASE NextTurn
  BY <1>6, FreshSame DEF NextTurn, QueueInv, runVars, countVars, timeVars, loopVars, InCall,
     Called
<1>7. CASE ExceptionEndsRun
  <2>1. /\ InOrder(queue') /\ suspended' \subseteq suspended
        /\ \/ queue' = <<>> /\ Range(queue') = {} /\ curr' = curr /\ reported' = reported
           \/ /\ curr' \in Range(queue) /\ Range(queue') \subseteq Range(queue) \ {curr'}
              /\ reported' = reported \cup {curr'}
              /\ \A r \in Range(queue') : <<curr', r>> \in MayPrecede
    BY <1>7, ArgumentTypes, CompleteRunQueue DEF ExceptionEndsRun, QueueInv
  <2>2. pc \in Called /\ pc' \in Called \cup {"outer", "done"} /\ proc' = proc /\ origin' = origin
    BY <1>7 DEF ExceptionEndsRun, Called, InCall, loopVars
  <2> QED BY <2>1, <2>2, QueueAdvances
<1>8. CASE ExceptionAfterExitEvent
  BY <1>8, FreshSame DEF ExceptionAfterExitEvent, QueueInv, runVars, countVars, timeVars,
     loopVars, InCall, Called
<1>9. CASE Done
  BY <1>9, FreshSame DEF Done, QueueInv, runVars, countVars, timeVars, loopVars, InCall, Called
<1>10. CASE NextChild
  <2> DEFINE p == Processes[proc + 1]
             s == EntryRuns[p]
  <2>1. /\ proc + 1 \in DOMAIN Processes /\ proc \in Nat /\ queue \in Seq(Runs)
        /\ queue' = queue \o s /\ proc' = proc + 1 /\ pc' = "start"
        /\ UNCHANGED <<suspended, reported>>
    BY <1>10, ObjectsAssumption, SMTT(60) DEF NextChild, TypeInv, TypeOK
  <2>2. p \in Range(Processes)
    BY <2>1 DEF Range
  <2>3. s \in Seq(Runs) /\ IsInjective(s) /\ Range(s) \subseteq MainRuns
    BY <2>2, EntryRunsType, ObjectsAssumption DEF MainRuns
  <2>4. Range(s) \subseteq Fresh
    BY <2>1 DEF Fresh
  <2>5. \A r \in Range(s) : r \in Runs /\ r \notin InitRuns /\ r \notin Threads
    BY <2>3, ObjectsAssumption DEF Runs
  <2> HIDE DEF s
  <2>6. InOrder(s)
    BY <2>3, <2>5 DEF InOrder, Related, MayPrecede, IsInjective, Range
  <2>7. ASSUME NEW a \in Range(queue), NEW b \in Range(s)
        PROVE  <<a, b>> \in MayPrecede
    <3>1. a \in Runs /\ a \notin Fresh
      BY <2>1 DEF QueueInv, Range
    <3> QED BY <2>4, <2>5, <3>1 DEF MayPrecede
  <2>8. InOrder(queue') /\ Range(queue') = Range(queue) \cup Range(s)
    BY <2>1, <2>3, <2>6, <2>7, ConcatLemma DEF QueueInv
  <2>9. Fresh' \subseteq Fresh
    <3>1. DOMAIN Processes \subseteq Nat
      BY ObjectsAssumption
    <3>2. \A j \in DOMAIN Processes : j > proc + 1 \/ j = proc + 1 => j > proc
      BY <2>1, <3>1
    <3>3. Later' \subseteq {j \in DOMAIN Processes : j > proc}
      BY <2>1, <3>2 DEF Later
    <3>4. {j \in DOMAIN Processes : j > proc} \subseteq Later
      BY DEF Later
    <3> QED BY <2>1, <3>2, <3>3, <3>4 DEF Fresh
  <2>10. Fresh' \cap Range(s) = {}
    <3> SUFFICES ASSUME NEW r \in Range(s), r \in Fresh'
                 PROVE  FALSE
      OBVIOUS
    <3>1. PICK j \in DOMAIN Processes : j > proc + 1 /\ r \in Range(EntryRuns[Processes[j]])
      BY <2>1, <2>5 DEF Fresh
    <3>2. Processes[j] # p /\ Processes[j] \in Range(Processes)
      BY <2>1, <3>1, ObjectsAssumption DEF IsInjective, Range
    <3> QED BY <2>2, <3>1, <3>2, ObjectsAssumption DEF s
  <2>11. suspended \subseteq Threads
    BY DEF TypeInv, TypeOK
  <2> QED BY <2>1, <2>4, <2>5, <2>8, <2>9, <2>10, <2>11 DEF QueueInv, Called, InCall
<1>11. CASE LoopEnds
  BY <1>11, FreshSame DEF LoopEnds, QueueInv, runVars, countVars, timeVars, loopVars, InCall,
     Called
<1>12. CASE LoopAtLimit
  <2>1. /\ InOrder(queue') /\ suspended' \subseteq suspended
        /\ \/ queue' = <<>> /\ Range(queue') = {} /\ curr' = curr /\ reported' = reported
           \/ /\ curr' \in Range(queue) /\ Range(queue') \subseteq Range(queue) \ {curr'}
              /\ reported' = reported \cup {curr'}
              /\ \A r \in Range(queue') : <<curr', r>> \in MayPrecede
    BY <1>12, StopAtLimitQueue DEF LoopAtLimit, QueueInv
  <2>2. pc \in Called /\ pc' \in Called \cup {"outer", "done"} /\ proc' = proc /\ origin' = origin
    BY <1>12 DEF LoopAtLimit, Called, InCall, loopVars
  <2> QED BY <2>1, <2>2, QueueAdvances
<1>13. CASE StartUnicorn
  BY <1>13, FreshSame DEF StartUnicorn, QueueInv, runVars, countVars, timeVars, loopVars,
     InCall, Called
<1>14. CASE LoopHandlesExit
  BY <1>14, FreshSame DEF LoopHandlesExit, QueueInv, runVars, countVars, timeVars, loopVars,
     InCall, Called
<1>15. CASE UnicornStopped
  BY <1>15, FreshSame DEF UnicornStopped, QueueInv, runVars, countVars, timeVars, loopVars,
     InCall, Called
<1>16. CASE StopWithoutExit
  <2>1. pc \in Called /\ pc' \in Called \cup {"outer", "done"} /\ proc' = proc /\ origin' = origin
    BY <1>16 DEF StopWithoutExit, Called, InCall
  <2>2. CASE StopAtLimit(ReachedLimit)
    <3>1. /\ InOrder(queue') /\ suspended' \subseteq suspended
          /\ \/ queue' = <<>> /\ Range(queue') = {} /\ curr' = curr /\ reported' = reported
             \/ /\ curr' \in Range(queue) /\ Range(queue') \subseteq Range(queue) \ {curr'}
                /\ reported' = reported \cup {curr'}
                /\ \A r \in Range(queue') : <<curr', r>> \in MayPrecede
      BY <2>2, StopAtLimitQueue DEF QueueInv
    <3> QED BY <2>1, <3>1, QueueAdvances
  <2>3. CASE CompleteRun(SetError(curr, "fault"), queue, suspended, load)
    <3>1. /\ InOrder(queue') /\ suspended' \subseteq suspended
          /\ \/ queue' = <<>> /\ Range(queue') = {} /\ curr' = curr /\ reported' = reported
             \/ /\ curr' \in Range(queue) /\ Range(queue') \subseteq Range(queue) \ {curr'}
                /\ reported' = reported \cup {curr'}
                /\ \A r \in Range(queue') : <<curr', r>> \in MayPrecede
      BY <2>3, ArgumentTypes, CompleteRunQueue DEF QueueInv
    <3> QED BY <2>1, <3>1, QueueAdvances
  <2>4. CASE UNCHANGED runVars
    BY <1>16, <2>4, FreshSame DEF StopWithoutExit, QueueInv, runVars, countVars, timeVars,
       loopVars, InCall, Called
  <2> QED BY <1>16, <2>2, <2>3, <2>4 DEF StopWithoutExit
<1>17. CASE HandleCpuException
  BY <1>17, FreshSame DEF HandleCpuException, QueueInv, runVars, countVars, timeVars, loopVars,
     InCall, Called
<1>18. CASE ApiAtLimit
  <2>1. /\ InOrder(queue') /\ suspended' \subseteq suspended
        /\ \/ queue' = <<>> /\ Range(queue') = {} /\ curr' = curr /\ reported' = reported
           \/ /\ curr' \in Range(queue) /\ Range(queue') \subseteq Range(queue) \ {curr'}
              /\ reported' = reported \cup {curr'}
              /\ \A r \in Range(queue') : <<curr', r>> \in MayPrecede
    BY <1>18, StopAtLimitQueue DEF ApiAtLimit, QueueInv
  <2>2. pc \in Called /\ pc' \in Called \cup {"outer", "done"} /\ proc' = proc /\ origin' = origin
    BY <1>18 DEF ApiAtLimit, Called, InCall, loopVars
  <2> QED BY <2>1, <2>2, QueueAdvances
<1>19. CASE EnterApi
  BY <1>19, FreshSame DEF EnterApi, QueueInv, runVars, countVars, timeVars, loopVars, InCall,
     Called
<1>20. CASE ExitAtTotalTime
  <2>1. /\ InOrder(queue') /\ suspended' \subseteq suspended
        /\ \/ queue' = <<>> /\ Range(queue') = {} /\ curr' = curr /\ reported' = reported
           \/ /\ curr' \in Range(queue) /\ Range(queue') \subseteq Range(queue) \ {curr'}
              /\ reported' = reported \cup {curr'}
              /\ \A r \in Range(queue') : <<curr', r>> \in MayPrecede
    BY <1>20, StopAtLimitQueue DEF ExitAtTotalTime, QueueInv
  <2>2. pc \in Called /\ pc' \in Called \cup {"outer", "done"} /\ proc' = proc /\ origin' = origin
    BY <1>20 DEF ExitAtTotalTime, Called, InCall, loopVars
  <2> QED BY <2>1, <2>2, QueueAdvances
<1>21. CASE HandleReturn
  <2>1. /\ InOrder(queue') /\ suspended' \subseteq suspended
        /\ \/ queue' = <<>> /\ Range(queue') = {} /\ curr' = curr /\ reported' = reported
           \/ /\ curr' \in Range(queue) /\ Range(queue') \subseteq Range(queue) \ {curr'}
              /\ reported' = reported \cup {curr'}
              /\ \A r \in Range(queue') : <<curr', r>> \in MayPrecede
    BY <1>21, ArgumentTypes, CompleteRunQueue DEF HandleReturn, QueueInv
  <2>2. pc \in Called /\ pc' \in Called \cup {"outer", "done"} /\ proc' = proc /\ origin' = origin
    BY <1>21 DEF HandleReturn, Called, InCall, loopVars
  <2> QED BY <2>1, <2>2, QueueAdvances
<1>22. CASE HandleRecovery
  BY <1>22, FreshSame DEF HandleRecovery, QueueInv, runVars, countVars, timeVars, loopVars,
     InCall, Called
<1>23. CASE HandleCallbackReturn
  BY <1>23, FreshSame DEF HandleCallbackReturn, QueueInv, runVars, countVars, timeVars,
     loopVars, InCall, Called
<1>24. CASE Handled
  BY <1>24, FreshSame DEF Handled, QueueInv, runVars, countVars, timeVars, loopVars, InCall,
     Called
<1>25. CASE FinishCall
  <2>1. Fresh' = Fresh
    BY <1>25, FreshSame DEF FinishCall
  <2>2. \/ queue' = <<>> /\ suspended' = {}
        \/ UNCHANGED <<queue, suspended>>
    BY <1>25 DEF FinishCall, runVars
  <2>3. \/ UNCHANGED <<curr, reported>>
        \/ curr # origin /\ curr' = origin /\ reported' = reported \ {curr} /\ queue' = <<>>
    BY <1>25 DEF FinishCall, runVars, ReportedWithout
  <2>4. pc = "finish" /\ pc' \in {"after", "except"} /\ origin' = origin
    BY <1>25 DEF FinishCall
  <2> QED BY <2>1, <2>2, <2>3, <2>4, EmptyLemma DEF QueueInv, Called, InCall
<1>26. CASE ApiReturns
  BY <1>26, FreshSame DEF ApiReturns, QueueInv, runVars, countVars, timeVars, loopVars, InCall,
     Called
<1>27. CASE ApiEndsRun
  BY <1>27, FreshSame DEF ApiEndsRun, QueueInv, runVars, countVars, timeVars, loopVars, InCall,
     Called
<1>28. CASE ApiStartsCallback
  BY <1>28, FreshSame DEF ApiStartsCallback, QueueInv, runVars, countVars, timeVars, loopVars,
     InCall, Called
<1>29. CASE ApiRaisesInGuest
  BY <1>29, FreshSame DEF ApiRaisesInGuest, QueueInv, runVars, countVars, timeVars, loopVars,
     InCall, Called
<1>30. ASSUME NEW t \in Threads, ApiCreatesThread(t)
       PROVE  QueueInv'
  <2>1. t \in Runs /\ t \notin Fresh /\ t \notin InitRuns
    <3>1. t \in Runs /\ t \notin InitRuns /\ t \notin MainRuns
      BY ObjectsAssumption DEF Runs
    <3>2. \A j \in DOMAIN Processes : Range(EntryRuns[Processes[j]]) \subseteq MainRuns
      BY DEF MainRuns, Range
    <3> QED BY <3>1, <3>2 DEF Fresh
  <2>2. Fresh' = Fresh
    BY <1>30, FreshSame DEF ApiCreatesThread, loopVars
  <2>3. t \notin Range(queue) /\ t \notin suspended /\ t \notin reported
    BY <1>30 DEF ApiCreatesThread, NewThreads
  <2>4. curr \in Runs /\ curr \in reported /\ <<curr, t>> \in MayPrecede
    BY <1>30, <2>1, <2>3 DEF ApiCreatesThread, QueueInv, TypeInv, Called, InCall, MayPrecede
  <2>5. \A a \in Range(queue) : <<a, t>> \in MayPrecede
    BY <2>1, <2>3, ArgumentTypes DEF MayPrecede, Range
  <2>6. InOrder(Append(queue, t)) /\ Range(Append(queue, t)) = Range(queue) \cup {t}
    BY <2>1, <2>5, ArgumentTypes, AppendLemma DEF QueueInv
  <2> QED
    BY <1>30, <2>1, <2>2, <2>3, <2>4, <2>6 DEF ApiCreatesThread, QueueInv, runVars, countVars,
       timeVars, loopVars, InCall, Called
<1>31. ASSUME NEW t \in Threads, ApiResumesThread(t)
       PROVE  QueueInv'
  <2>1. t \in Runs /\ t \notin Fresh /\ t \notin InitRuns
    <3>1. t \in Runs /\ t \notin InitRuns /\ t \notin MainRuns
      BY ObjectsAssumption DEF Runs
    <3>2. \A j \in DOMAIN Processes : Range(EntryRuns[Processes[j]]) \subseteq MainRuns
      BY DEF MainRuns, Range
    <3> QED BY <3>1, <3>2 DEF Fresh
  <2>2. Fresh' = Fresh
    BY <1>31, FreshSame DEF ApiResumesThread, loopVars
  <2>3. t \notin Range(queue) /\ t \notin reported
    BY <1>31 DEF ApiResumesThread, QueueInv
  <2>4. curr \in Runs /\ curr \in reported /\ <<curr, t>> \in MayPrecede
    BY <1>31, <2>1, <2>3 DEF ApiResumesThread, QueueInv, TypeInv, Called, InCall, MayPrecede
  <2>5. \A a \in Range(queue) : <<a, t>> \in MayPrecede
    BY <2>1, <2>3, ArgumentTypes DEF MayPrecede, Range
  <2>6. InOrder(Append(queue, t)) /\ Range(Append(queue, t)) = Range(queue) \cup {t}
    BY <2>1, <2>5, ArgumentTypes, AppendLemma DEF QueueInv
  <2> QED
    BY <1>31, <2>1, <2>2, <2>3, <2>4, <2>6 DEF ApiResumesThread, QueueInv, runVars, countVars,
       timeVars, loopVars, InCall, Called
<1>32. ASSUME NEW t \in Threads, ApiSuspendsThread(t)
       PROVE  QueueInv'
  <2>1. t \in Runs /\ t \notin Fresh /\ t \notin InitRuns
    <3>1. t \in Runs /\ t \notin InitRuns /\ t \notin MainRuns
      BY ObjectsAssumption DEF Runs
    <3>2. \A j \in DOMAIN Processes : Range(EntryRuns[Processes[j]]) \subseteq MainRuns
      BY DEF MainRuns, Range
    <3> QED BY <3>1, <3>2 DEF Fresh
  <2>2. Fresh' = Fresh
    BY <1>32, FreshSame DEF ApiSuspendsThread, loopVars
  <2>3. InOrder(queue') /\ Range(queue') = Range(queue) \ {t}
    BY <1>32, ArgumentTypes, WithoutRunLemma DEF ApiSuspendsThread, QueueInv
  <2> QED
    BY <1>32, <2>1, <2>2, <2>3 DEF ApiSuspendsThread, QueueInv, runVars, countVars, timeVars,
       loopVars, InCall, Called
<1>33. CASE ApiHandlerRaises
  <2>1. /\ InOrder(queue') /\ suspended' \subseteq suspended
        /\ \/ queue' = <<>> /\ Range(queue') = {} /\ curr' = curr /\ reported' = reported
           \/ /\ curr' \in Range(queue) /\ Range(queue') \subseteq Range(queue) \ {curr'}
              /\ reported' = reported \cup {curr'}
              /\ \A r \in Range(queue') : <<curr', r>> \in MayPrecede
    BY <1>33, ArgumentTypes, CompleteRunQueue DEF ApiHandlerRaises, QueueInv
  <2>2. pc \in Called /\ pc' \in Called \cup {"outer", "done"} /\ proc' = proc /\ origin' = origin
    BY <1>33 DEF ApiHandlerRaises, Called, InCall, loopVars
  <2> QED BY <2>1, <2>2, QueueAdvances
<1>34. CASE ApiArgumentFault
  BY <1>34, FreshSame DEF ApiArgumentFault, QueueInv, runVars, countVars, timeVars, loopVars,
     InCall, Called
<1>35. CASE ApiHookRaises
  BY <1>35, FreshSame DEF ApiHookRaises, QueueInv, runVars, countVars, timeVars, loopVars,
     InCall, Called
<1>36. CASE ApiUnsupported
  <2>1. /\ InOrder(queue') /\ suspended' \subseteq suspended
        /\ \/ queue' = <<>> /\ Range(queue') = {} /\ curr' = curr /\ reported' = reported
           \/ /\ curr' \in Range(queue) /\ Range(queue') \subseteq Range(queue) \ {curr'}
              /\ reported' = reported \cup {curr'}
              /\ \A r \in Range(queue') : <<curr', r>> \in MayPrecede
    BY <1>36, ArgumentTypes, CompleteRunQueue DEF ApiUnsupported, QueueInv
  <2>2. pc \in Called /\ pc' \in Called \cup {"outer", "done"} /\ proc' = proc /\ origin' = origin
    BY <1>36 DEF ApiUnsupported, Called, InCall, loopVars
  <2> QED BY <2>1, <2>2, QueueAdvances
<1>37. CASE ApiLimitReached
  <2>1. /\ InOrder(queue') /\ suspended' \subseteq suspended
        /\ \/ queue' = <<>> /\ Range(queue') = {} /\ curr' = curr /\ reported' = reported
           \/ /\ curr' \in Range(queue) /\ Range(queue') \subseteq Range(queue) \ {curr'}
              /\ reported' = reported \cup {curr'}
              /\ \A r \in Range(queue') : <<curr', r>> \in MayPrecede
    BY <1>37, ArgumentTypes, CompleteRunQueue DEF ApiLimitReached, QueueInv
  <2>2. pc \in Called /\ pc' \in Called \cup {"outer", "done"} /\ proc' = proc /\ origin' = origin
    BY <1>37 DEF ApiLimitReached, Called, InCall, loopVars
  <2> QED BY <2>1, <2>2, QueueAdvances
<1>38. CASE ApiLimitNotReached
  BY <1>38, FreshSame DEF ApiLimitNotReached, QueueInv, runVars, countVars, timeVars, loopVars,
     InCall, Called
<1>39. CASE ApiDidNotReturn
  BY <1>39, FreshSame DEF ApiDidNotReturn, QueueInv, runVars, countVars, timeVars, loopVars,
     InCall, Called
<1>40. CASE ApiDispatched
  <2>1. pc \in Called /\ pc' \in Called \cup {"outer", "done"} /\ proc' = proc /\ origin' = origin
    BY <1>40 DEF ApiDispatched, Called, InCall
  <2>2. CASE StopAtLimit("max_total_time")
    <3>1. /\ InOrder(queue') /\ suspended' \subseteq suspended
          /\ \/ queue' = <<>> /\ Range(queue') = {} /\ curr' = curr /\ reported' = reported
             \/ /\ curr' \in Range(queue) /\ Range(queue') \subseteq Range(queue) \ {curr'}
                /\ reported' = reported \cup {curr'}
                /\ \A r \in Range(queue') : <<curr', r>> \in MayPrecede
      BY <2>2, StopAtLimitQueue DEF QueueInv
    <3> QED BY <2>1, <3>1, QueueAdvances
  <2>3. CASE CompleteRun(err, queue, suspended, load)
    <3>1. /\ InOrder(queue') /\ suspended' \subseteq suspended
          /\ \/ queue' = <<>> /\ Range(queue') = {} /\ curr' = curr /\ reported' = reported
             \/ /\ curr' \in Range(queue) /\ Range(queue') \subseteq Range(queue) \ {curr'}
                /\ reported' = reported \cup {curr'}
                /\ \A r \in Range(queue') : <<curr', r>> \in MayPrecede
      BY <2>3, ArgumentTypes, CompleteRunQueue DEF QueueInv
    <3> QED BY <2>1, <3>1, QueueAdvances
  <2>4. CASE UNCHANGED runVars /\ pc' = "handled"
    BY <1>40, <2>4, FreshSame DEF ApiDispatched, QueueInv, runVars, countVars, timeVars,
       loopVars, InCall, Called
  <2> QED BY <1>40, <2>2, <2>3, <2>4 DEF ApiDispatched
<1>41. CASE GuestInstruction
  BY <1>41, FreshSame DEF GuestInstruction, QueueInv, runVars, countVars, timeVars, loopVars,
     InCall, Called
<1>42. ASSUME NEW kind \in ExitKinds, RecordExit(kind)
       PROVE  QueueInv'
  BY <1>42, FreshSame DEF RecordExit, QueueInv, runVars, countVars, timeVars, loopVars, InCall,
     Called
<1>43. CASE EngineStops
  BY <1>43, FreshSame DEF EngineStops, QueueInv, runVars, countVars, timeVars, loopVars, InCall,
     Called
<1>44. CASE HookStops
  BY <1>44, FreshSame DEF HookStops, QueueInv, runVars, countVars, timeVars, loopVars, InCall,
     Called
<1>45. CASE HookFails
  BY <1>45, FreshSame DEF HookFails, QueueInv, runVars, countVars, timeVars, loopVars, InCall,
     Called
<1>46. CASE UnhandledInterrupt
  <2>1. /\ InOrder(queue') /\ suspended' \subseteq suspended
        /\ \/ queue' = <<>> /\ Range(queue') = {} /\ curr' = curr /\ reported' = reported
           \/ /\ curr' \in Range(queue) /\ Range(queue') \subseteq Range(queue) \ {curr'}
              /\ reported' = reported \cup {curr'}
              /\ \A r \in Range(queue') : <<curr', r>> \in MayPrecede
    BY <1>46, ArgumentTypes, CompleteRunQueue DEF UnhandledInterrupt, QueueInv
  <2>2. pc \in Called /\ pc' \in Called \cup {"outer", "done"} /\ proc' = proc /\ origin' = origin
    BY <1>46 DEF UnhandledInterrupt, Called, InCall, loopVars
  <2> QED BY <2>1, <2>2, QueueAdvances
<1>47. CASE DeferredWork
  <2>1. /\ InOrder(queue') /\ suspended' \subseteq suspended
        /\ \/ queue' = <<>> /\ Range(queue') = {} /\ curr' = curr /\ reported' = reported
           \/ /\ curr' \in Range(queue) /\ Range(queue') \subseteq Range(queue) \ {curr'}
              /\ reported' = reported \cup {curr'}
              /\ \A r \in Range(queue') : <<curr', r>> \in MayPrecede
    BY <1>47, ArgumentTypes, CompleteRunQueue DEF DeferredWork, QueueInv
  <2>2. pc \in Called /\ pc' \in Called \cup {"outer", "done"} /\ proc' = proc /\ origin' = origin
    BY <1>47 DEF DeferredWork, Called, InCall, loopVars
  <2> QED BY <2>1, <2>2, QueueAdvances
<1>48. CASE EngineRaises
  BY <1>48, FreshSame DEF EngineRaises, QueueInv, runVars, countVars, timeVars, loopVars,
     InCall, Called
<1>49. CASE Tick
  BY <1>49, FreshSame DEF Tick, QueueInv, runVars, countVars, timeVars, loopVars, InCall, Called
<1>50. CASE SetExitEvent
  BY <1>50, FreshSame DEF SetExitEvent, QueueInv, runVars, countVars, timeVars, loopVars,
     InCall, Called
<1>51. CASE UNCHANGED vars
  BY <1>51, FreshSame DEF vars, QueueInv, runVars, countVars, timeVars, loopVars, InCall, Called
<1> QED
  BY <1>1, <1>2, <1>3, <1>4, <1>5, <1>6, <1>7, <1>8, <1>9, <1>10, <1>11, <1>12, <1>13,
     <1>14, <1>15, <1>16, <1>17, <1>18, <1>19, <1>20, <1>21, <1>22, <1>23, <1>24, <1>25, <1>26,
     <1>27, <1>28, <1>29, <1>30, <1>31, <1>32, <1>33, <1>34, <1>35, <1>36, <1>37, <1>38, <1>39,
     <1>40, <1>41, <1>42, <1>43, <1>44, <1>45, <1>46, <1>47, <1>48, <1>49, <1>50, <1>51 DEF
     Next, LoopStep, ApiStep, GuestStep, Terminated

\* QueueInv holds at the beginning.
LEMMA InitQueueInv == Init => QueueInv
<1> SUFFICES ASSUME Init
             PROVE  QueueInv
  OBVIOUS
<1> DEFINE p == Processes[1]
           s == EntryRuns[p]
<1>1. 1 \in DOMAIN Processes /\ p \in Range(Processes)
  BY ObjectsAssumption DEF Range
<1>2. s \in Seq(Runs) /\ IsInjective(s) /\ Range(s) \subseteq MainRuns
  BY <1>1, EntryRunsType, ObjectsAssumption DEF MainRuns
<1>3. \A r \in Range(s) : r \in Runs /\ r \notin InitRuns
  BY <1>2, ObjectsAssumption DEF Runs
<1>4. \A r \in Range(s) : r \notin Fresh
  <2> SUFFICES ASSUME NEW r \in Range(s), r \in Fresh
               PROVE  FALSE
    OBVIOUS
  <2>1. PICK j \in DOMAIN Processes : j > 1 /\ r \in Range(EntryRuns[Processes[j]])
    BY <1>3 DEF Fresh, Init
  <2>2. Processes[j] # p /\ Processes[j] \in Range(Processes)
    BY <1>1, <2>1, ObjectsAssumption DEF IsInjective, Range
  <2> QED BY <1>1, <2>1, <2>2, ObjectsAssumption
<1> HIDE DEF s
<1>5. InOrder(s)
  BY <1>2, <1>3 DEF InOrder, Related, MayPrecede, IsInjective, Range
<1>6. queue = s /\ suspended = {} /\ reported = {} /\ pc = "start"
  BY DEF Init, s
<1> QED BY <1>4, <1>5, <1>6 DEF QueueInv, Called, InCall

-----------------------------------------------------------------------------
(* Completions and errors. *)

\* A run that is not reported did nothing.
Untouched == \A r \in Runs : r \notin reported => completed[r] = 0 /\ err[r] = "none"

\* How often the current run was completed and which error it has, at each
\* control point.
ErrorInv ==
  /\ Untouched
  /\ CompletedOnce
  /\ pc \in InCall \cup {"outer", "except"} /\ ~emuComplete => completed[curr] = 0
  /\ pc = "after" /\ ~emuComplete /\ ~(exhausted /\ runComplete) => completed[curr] = 0
  /\ pc = "limit" => completed[curr] <= 1
  /\ pc = "limit" /\ emuComplete => err[curr] = "unsupported_api"
  /\ pc \in {"outer", "guest", "api"} => err[curr] = "none"
  /\ pc \in Body \cup {"loop"} => err[curr] = "none" \/ exit.kind = "fault" \/ emuComplete
  /\ pc = "finish" /\ raising => err[curr] = "none"
  /\ pc = "except" => err[curr] \in {"none", "limit"}
  /\ pc \in Body \cup {"finish", "after"} /\ curr # origin => err[curr] = "none"
  /\ pc = "after" /\ exhausted /\ ~runComplete => err[curr] # "none"

\* The step completes the current run, whose error is e[curr] when it ends.
EndsCurr(e) ==
  /\ \A r \in Runs : r # curr => completed'[r] = completed[r] /\ err'[r] = err[r]
  /\ completed'[curr] = completed[curr] + 1
  /\ err'[curr] = e[curr] \/ (e[curr] = "none" /\ err'[curr] = "dll_initialization_failed")
  /\ exit' = NoExit
  /\ \/ /\ emuComplete' = TRUE /\ runComplete' = TRUE /\ queue' = <<>>
        /\ curr' = curr /\ reported' = reported
     \/ /\ emuComplete' = emuComplete /\ runComplete' = FALSE
        /\ curr' \in Runs \ reported /\ reported' = reported \cup {curr'}

\* CompleteRun is such a step.
LEMMA CompleteRunEnds ==
  ASSUME TypeInv, QueueInv, curr \in Runs, NEW e \in [Runs -> Errors],
         \A r \in Runs : r # curr => e[r] = err[r],
         NEW q \in Seq(Runs), NEW sus, NEW ld, InOrder(q), Range(q) \subseteq Range(queue),
         CompleteRun(e, q, sus, ld)
  PROVE  EndsCurr(e)
<1>1. PICK failed \in BOOLEAN, rest \in Seq(Runs) : Completes(e, q, sus, ld, failed, rest)
  BY CompleteRunLemma
<1>2. /\ err' = IF failed /\ e[curr] = "none"
                THEN [e EXCEPT ![curr] = "dll_initialization_failed"] ELSE e
      /\ completed' = [completed EXCEPT ![curr] = completed[curr] + 1] /\ exit' = NoExit
  BY <1>1 DEF Completes
<1>3. /\ \A r \in Runs : r # curr => completed'[r] = completed[r] /\ err'[r] = err[r]
      /\ completed'[curr] = completed[curr] + 1
      /\ err'[curr] = e[curr] \/ (e[curr] = "none" /\ err'[curr] = "dll_initialization_failed")
  BY <1>2 DEF TypeInv, TypeOK
<1>4. CASE rest = <<>>
  <2>1. /\ emuComplete' = TRUE /\ runComplete' = TRUE /\ queue' = <<>>
        /\ curr' = curr /\ reported' = reported
    BY <1>1, <1>4 DEF Completes
  <2> QED BY <1>2, <1>3, <2>1 DEF EndsCurr
<1>5. CASE rest # <<>>
  <2>1. /\ emuComplete' = emuComplete /\ runComplete' = FALSE
        /\ curr' = Head(rest) /\ reported' = reported \cup {curr'}
    BY <1>1, <1>5 DEF Completes
  <2>2. Head(rest) \in Runs /\ Head(rest) \in Range(rest)
    BY <1>5, HeadLemma
  <2>3. Head(rest) \notin reported
    BY <1>1, <2>2 DEF Completes, QueueInv
  <2> QED BY <1>2, <1>3, <2>1, <2>2, <2>3 DEF EndsCurr
<1> QED BY <1>4, <1>5

\* A limit is such a step.
LEMMA StopAtLimitEnds ==
  ASSUME TypeInv, QueueInv, curr \in Runs, NEW kind, StopAtLimit(kind)
  PROVE  EndsCurr(FirstError(curr, "limit"))
<1>1. /\ FirstError(curr, "limit") \in [Runs -> Errors]
      /\ \A r \in Runs : r # curr => FirstError(curr, "limit")[r] = err[r]
  BY DEF FirstError, TypeInv, TypeOK, Errors
<1>2. \/ CompleteRun(FirstError(curr, "limit"), <<>>, {}, Canceled(Pending))
      \/ CompleteRun(FirstError(curr, "limit"), queue, suspended, load)
  BY Zenon DEF StopAtLimit
<1>3. /\ <<>> \in Seq(Runs) /\ InOrder(<<>>) /\ Range(<<>>) \subseteq Range(queue)
      /\ queue \in Seq(Runs) /\ InOrder(queue)
  BY EmptyLemma, ArgumentTypes DEF QueueInv
<1> QED BY <1>1, <1>2, <1>3, CompleteRunEnds

\* The next run did nothing, and the run that ended is counted once more.
LEMMA EndsCurrErrors ==
  ASSUME TypeInv, curr \in reported \cap Runs, Untouched, CompletedOnce,
         NEW e \in [Runs -> Errors], EndsCurr(e),
         completed[curr] = 0 \/ (completed[curr] <= 1 /\ e[curr] = "max_api_count")
  PROVE  /\ Untouched' /\ CompletedOnce'
         /\ ~emuComplete' => completed'[curr'] = 0 /\ err'[curr'] = "none"
         /\ curr' # curr => completed'[curr'] = 0 /\ err'[curr'] = "none"
<1>1. completed \in [Runs -> Nat]
  BY DEF TypeInv, TypeOK
<1>2. reported \subseteq reported'
  BY DEF EndsCurr
<1>3. Untouched'
  <2> SUFFICES ASSUME NEW r \in Runs, r \notin reported'
               PROVE  completed'[r] = 0 /\ err'[r] = "none"
    BY DEF Untouched
  <2>1. r \notin reported /\ r # curr
    BY <1>2
  <2> QED BY <2>1 DEF Untouched, EndsCurr
<1>4. CompletedOnce'
  <2> SUFFICES ASSUME NEW r \in Runs, completed'[r] > 1
               PROVE  completed'[r] = 2 /\ err'[r] = "max_api_count"
    BY DEF CompletedOnce
  <2>1. CASE r # curr
    BY <2>1 DEF CompletedOnce, EndsCurr
  <2>2. CASE r = curr
    BY <1>1, <2>2 DEF EndsCurr
  <2> QED BY <2>1, <2>2
<1>5. curr' # curr => completed'[curr'] = 0 /\ err'[curr'] = "none"
  BY DEF EndsCurr, Untouched
<1>6. ~emuComplete' => curr' # curr
  BY DEF EndsCurr
<1> QED BY <1>3, <1>4, <1>5, <1>6

\* Every step keeps ErrorInv.
LEMMA ErrorStep == LoopInv /\ LoopInv' /\ QueueInv /\ ErrorInv /\ [Next]_vars => ErrorInv'
<1> SUFFICES ASSUME TypeInv, Control, ExitInv, TypeInv', Control', QueueInv, ErrorInv, [Next]_vars
             PROVE  ErrorInv'
  BY DEF LoopInv
<1>a. /\ err \in [Runs -> Errors] /\ completed \in [Runs -> Nat]
      /\ err' \in [Runs -> Errors] /\ completed' \in [Runs -> Nat]
  BY DEF TypeInv, TypeOK
<1>1. CASE StartExhausted
  BY <1>1, <1>a DEF StartExhausted, Control, ErrorInv, Untouched, CompletedOnce, runVars,
     countVars, timeVars, loopVars, InCall, Body
<1>2. CASE StartWithoutRuns
  BY <1>2, <1>a DEF StartWithoutRuns, Control, ErrorInv, Untouched, CompletedOnce, runVars,
     countVars, timeVars, loopVars, InCall, Body
<1>3. CASE Start
  <2>1. curr' \in Runs \ reported /\ reported' = reported \cup {curr'}
    <3> DEFINE p == Processes[proc]
               i == Initializers(p)
               q == i \o queue
    <3>1. p \in Range(Processes) /\ proc \in Later /\ queue \in Seq(Runs)
      BY <1>3 DEF Start, TypeInv, TypeOK, Range, Later
    <3>2. i \in Seq(Runs) /\ \A r \in Range(i) : r \in InitRuns /\ r.proc = p
      BY <3>1, InitializersLemma
    <3>3. \A r \in InitRuns : r.proc = p => r \in Fresh
      BY <3>1 DEF Fresh
    <3>4. \A r \in Range(i) \cup Range(queue) : r \notin reported
      BY <3>2, <3>3 DEF QueueInv
    <3> HIDE DEF i
    <3>5. q \in Seq(Runs) /\ q # <<>> /\ Range(q) = Range(i) \cup Range(queue)
      BY <1>3, <3>1, <3>2, ConcatLemma DEF Start
    <3>6. curr' = Head(q) /\ reported' = reported \cup {curr'}
      BY <1>3 DEF Start, i
    <3> HIDE DEF q
    <3>7. Head(q) \in Runs /\ Head(q) \in Range(q)
      BY <3>5, HeadLemma
    <3> QED BY <3>4, <3>5, <3>6, <3>7
  <2> QED
    BY <1>3, <2>1 DEF Start, ErrorInv, Untouched, CompletedOnce, runVars, countVars, timeVars,
       loopVars, InCall, Body
<1>4. CASE EnterCall
  BY <1>4, <1>a DEF EnterCall, Control, ErrorInv, Untouched, CompletedOnce, runVars, countVars,
     timeVars, loopVars, InCall, Body
<1>5. CASE EndAtTotalBudget
  <2>1. curr \in Runs /\ curr \in reported
    BY <1>5 DEF EndAtTotalBudget, QueueInv, TypeInv, Called
  <2>2. CASE runComplete
    BY <1>5, <2>2 DEF EndAtTotalBudget, ErrorInv, Untouched, CompletedOnce, runVars, countVars,
       timeVars, loopVars, InCall, Body
  <2>3. CASE ~runComplete
    <3>1. completed[curr] = 0
      BY <1>5, <2>1, <2>3 DEF EndAtTotalBudget, ErrorInv, Control, Called
    <3>2. <<>> \in Seq(Runs) /\ InOrder(<<>>) /\ Range(<<>>) \subseteq Range(queue)
      BY EmptyLemma
    <3>3. EndsCurr(err)
      BY <1>5, <1>a, <2>1, <2>3, <3>2, CompleteRunEnds DEF EndAtTotalBudget
    <3>4. Untouched' /\ CompletedOnce'
      BY <1>a, <2>1, <3>1, <3>3, EndsCurrErrors DEF ErrorInv
    <3> QED BY <1>5, <3>4 DEF EndAtTotalBudget, ErrorInv, InCall, Body
  <2> QED BY <2>2, <2>3
<1>6. CASE NextTurn
  BY <1>6 DEF NextTurn, Control, Called, ErrorInv, Untouched, CompletedOnce, runVars, countVars,
     timeVars, loopVars, InCall, Body
<1>7. CASE ExceptionEndsRun
  <2>1. curr \in Runs /\ curr \in reported /\ completed[curr] = 0
    BY <1>7 DEF ExceptionEndsRun, Control, ErrorInv, QueueInv, TypeInv, Called, InCall
  <2>2. /\ SetError(curr, "internal_error") \in [Runs -> Errors]
        /\ \A r \in Runs : r # curr => SetError(curr, "internal_error")[r] = err[r]
    BY <1>a, <2>1 DEF SetError, Errors
  <2>3. EndsCurr(SetError(curr, "internal_error"))
    BY <1>7, <2>1, <2>2, ArgumentTypes, CompleteRunEnds DEF ExceptionEndsRun, QueueInv
  <2>4. /\ Untouched' /\ CompletedOnce'
        /\ ~emuComplete' => completed'[curr'] = 0 /\ err'[curr'] = "none"
        /\ curr' # curr => completed'[curr'] = 0 /\ err'[curr'] = "none"
    BY <2>1, <2>2, <2>3, EndsCurrErrors DEF ErrorInv
  <2> QED
    BY <1>7, <2>1, <2>3, <2>4 DEF ExceptionEndsRun, ErrorInv, EndsCurr, Control, runVars,
       countVars, timeVars, loopVars, InCall, Body
<1>8. CASE ExceptionAfterExitEvent
  BY <1>8, <1>a DEF ExceptionAfterExitEvent, Control, ErrorInv, Untouched, CompletedOnce,
     runVars, countVars, timeVars, loopVars, InCall, Body
<1>9. CASE Done
  BY <1>9, <1>a DEF Done, Control, ErrorInv, Untouched, CompletedOnce, runVars, countVars,
     timeVars, loopVars, InCall, Body
<1>10. CASE NextChild
  BY <1>10, <1>a DEF NextChild, Control, ErrorInv, Untouched, CompletedOnce, runVars, countVars,
     timeVars, loopVars, InCall, Body
<1>11. CASE LoopEnds
  BY <1>11, <1>a DEF LoopEnds, Control, ErrorInv, Untouched, CompletedOnce, runVars, countVars,
     timeVars, loopVars, InCall, Body
<1>12. CASE LoopAtLimit
  <2>1. curr \in Runs /\ curr \in reported /\ completed[curr] = 0
    BY <1>12 DEF LoopAtLimit, Control, ErrorInv, QueueInv, TypeInv, Called, InCall
  <2>2. FirstError(curr, "limit") \in [Runs -> Errors]
    BY <1>a, <2>1, ErrorType DEF Errors
  <2>3. EndsCurr(FirstError(curr, "limit"))
    BY <1>12, <2>1, StopAtLimitEnds DEF LoopAtLimit
  <2>4. /\ Untouched' /\ CompletedOnce'
        /\ ~emuComplete' => completed'[curr'] = 0 /\ err'[curr'] = "none"
        /\ curr' # curr => completed'[curr'] = 0 /\ err'[curr'] = "none"
    BY <2>1, <2>2, <2>3, EndsCurrErrors DEF ErrorInv
  <2> QED
    BY <1>12, <2>1, <2>4 DEF LoopAtLimit, ErrorInv, Control, runVars, countVars, timeVars,
       loopVars, InCall, Body
<1>13. CASE StartUnicorn
  BY <1>13 DEF StartUnicorn, NoExit, Control, ErrorInv, Untouched, CompletedOnce, runVars,
     countVars, timeVars, loopVars, InCall, Body
<1>14. CASE LoopHandlesExit
  BY <1>14, <1>a DEF LoopHandlesExit, Control, ErrorInv, Untouched, CompletedOnce, runVars,
     countVars, timeVars, loopVars, InCall, Body
<1>15. CASE UnicornStopped
  <2>1. /\ pc = "stopped" /\ pc' \in {"exit", "finish", "loop"}
        /\ UNCHANGED <<curr, origin, reported, err, completed, emuComplete, raising>>
    BY <1>15 DEF UnicornStopped, runVars, countVars, timeVars, loopVars
  <2>2. err[curr] = "none" \/ emuComplete
    BY <2>1 DEF ErrorInv, ExitInv, InCall, Body
  <2> QED
    BY <2>1, <2>2 DEF Control, ErrorInv, Untouched, CompletedOnce, runVars, countVars, timeVars,
       loopVars, InCall, Body, Called
<1>16. CASE StopWithoutExit
  <2>1. curr \in Runs /\ curr \in reported
    BY <1>16 DEF StopWithoutExit, QueueInv, TypeInv, Called, InCall
  <2>2. CASE UNCHANGED runVars
    BY <1>16, <2>2 DEF StopWithoutExit, Control, ErrorInv, Untouched, CompletedOnce, runVars,
       countVars, timeVars, loopVars, InCall, Body
  <2>3. CASE /\ completed[curr] = 0 /\ curr = origin
             /\ \/ StopAtLimit(ReachedLimit)
                \/ CompleteRun(SetError(curr, "fault"), queue, suspended, load)
    <3>1. /\ FirstError(curr, "limit") \in [Runs -> Errors]
          /\ SetError(curr, "fault") \in [Runs -> Errors]
          /\ \A r \in Runs : r # curr => SetError(curr, "fault")[r] = err[r]
      BY <1>a, <2>1, ErrorType DEF SetError, Errors
    <3>2. EndsCurr(FirstError(curr, "limit")) \/ EndsCurr(SetError(curr, "fault"))
      BY <2>1, <2>3, <3>1, ArgumentTypes, StopAtLimitEnds, CompleteRunEnds DEF QueueInv
    <3>3. /\ Untouched' /\ CompletedOnce'
          /\ ~emuComplete' => completed'[curr'] = 0 /\ err'[curr'] = "none"
          /\ curr' # curr => completed'[curr'] = 0 /\ err'[curr'] = "none"
      BY <2>1, <2>3, <3>1, <3>2, EndsCurrErrors DEF ErrorInv
    <3>4. pc \in {"stopped", "dispatched"} /\ pc' \in {"handled", "finish"} /\ UNCHANGED <<origin, raising>>
      BY <1>16 DEF StopWithoutExit
    <3> QED BY <2>3, <3>3, <3>4 DEF ErrorInv, Control, InCall, Body
  <2>4. ~(UNCHANGED runVars) => completed[curr] = 0 /\ curr = origin
    BY <1>16 DEF StopWithoutExit, ErrorInv, InCall
  <2>5. \/ UNCHANGED runVars
        \/ StopAtLimit(ReachedLimit) \/ CompleteRun(SetError(curr, "fault"), queue, suspended, load)
    BY <1>16, Zenon DEF StopWithoutExit
  <2> QED BY <2>2, <2>3, <2>4, <2>5
<1>17. CASE HandleCpuException
  <2>1. curr \in Runs /\ curr \in reported /\ completed[curr] = 0
    BY <1>17 DEF HandleCpuException, Control, ErrorInv, QueueInv, TypeInv, Called, InCall
  <2>2. \/ err' = err /\ exit' \in {exit, NoExit}
        \/ err' = [err EXCEPT ![curr] = "fault"] /\ exit'.kind = "fault"
    BY <1>17 DEF HandleCpuException, Fail, SetError, Exit
  <2>3. err[curr] = "none" \/ exit.kind = "fault"
    BY <1>17 DEF HandleCpuException, Control, ErrorInv, InCall, Body
  <2> QED
    BY <1>17, <1>a, <2>1, <2>2, <2>3 DEF HandleCpuException, Control, ErrorInv, Untouched,
       CompletedOnce, runVars, countVars, timeVars, loopVars, InCall, Body
<1>18. CASE ApiAtLimit
  <2>1. curr \in Runs /\ curr \in reported /\ completed[curr] = 0
    BY <1>18 DEF ApiAtLimit, Control, ErrorInv, QueueInv, TypeInv, Called, InCall
  <2>2. FirstError(curr, "limit") \in [Runs -> Errors]
    BY <1>a, <2>1, ErrorType DEF Errors
  <2>3. EndsCurr(FirstError(curr, "limit"))
    BY <1>18, <2>1, StopAtLimitEnds DEF ApiAtLimit
  <2>4. /\ Untouched' /\ CompletedOnce'
        /\ ~emuComplete' => completed'[curr'] = 0 /\ err'[curr'] = "none"
        /\ curr' # curr => completed'[curr'] = 0 /\ err'[curr'] = "none"
    BY <2>1, <2>2, <2>3, EndsCurrErrors DEF ErrorInv
  <2> QED
    BY <1>18, <2>1, <2>4 DEF ApiAtLimit, ErrorInv, Control, runVars, countVars, timeVars,
       loopVars, InCall, Body
<1>19. CASE EnterApi
  BY <1>19, <1>a DEF EnterApi, Control, ErrorInv, Untouched, CompletedOnce, runVars, countVars,
     timeVars, loopVars, InCall, Body
<1>20. CASE ExitAtTotalTime
  <2>1. curr \in Runs /\ curr \in reported /\ completed[curr] = 0
    BY <1>20 DEF ExitAtTotalTime, Control, ErrorInv, QueueInv, TypeInv, Called, InCall
  <2>2. FirstError(curr, "limit") \in [Runs -> Errors]
    BY <1>a, <2>1, ErrorType DEF Errors
  <2>3. EndsCurr(FirstError(curr, "limit"))
    BY <1>20, <2>1, StopAtLimitEnds DEF ExitAtTotalTime
  <2>4. /\ Untouched' /\ CompletedOnce'
        /\ ~emuComplete' => completed'[curr'] = 0 /\ err'[curr'] = "none"
        /\ curr' # curr => completed'[curr'] = 0 /\ err'[curr'] = "none"
    BY <2>1, <2>2, <2>3, EndsCurrErrors DEF ErrorInv
  <2> QED
    BY <1>20, <2>1, <2>4 DEF ExitAtTotalTime, ErrorInv, Control, runVars, countVars, timeVars,
       loopVars, InCall, Body
<1>21. CASE HandleReturn
  <2>1. curr \in Runs /\ curr \in reported /\ completed[curr] = 0
    BY <1>21 DEF HandleReturn, Control, ErrorInv, QueueInv, TypeInv, Called, InCall
  <2>2. err \in [Runs -> Errors] /\ \A r \in Runs : r # curr => err[r] = err[r]
    BY <1>a, <2>1 DEF SetError, Errors
  <2>3. EndsCurr(err)
    BY <1>21, <2>1, <2>2, ArgumentTypes, CompleteRunEnds DEF HandleReturn, QueueInv
  <2>4. /\ Untouched' /\ CompletedOnce'
        /\ ~emuComplete' => completed'[curr'] = 0 /\ err'[curr'] = "none"
        /\ curr' # curr => completed'[curr'] = 0 /\ err'[curr'] = "none"
    BY <2>1, <2>2, <2>3, EndsCurrErrors DEF ErrorInv
  <2> QED
    BY <1>21, <2>1, <2>3, <2>4 DEF HandleReturn, ErrorInv, EndsCurr, Control, runVars,
       countVars, timeVars, loopVars, InCall, Body
<1>22. CASE HandleRecovery
  BY <1>22 DEF HandleRecovery, Control, ErrorInv, Untouched, CompletedOnce, runVars, countVars,
     timeVars, loopVars, InCall, Body
<1>23. CASE HandleCallbackReturn
  <2>1. curr \in Runs /\ curr \in reported /\ completed[curr] = 0
    BY <1>23 DEF HandleCallbackReturn, Control, ErrorInv, QueueInv, TypeInv, Called, InCall
  <2>2. \/ err' = err /\ exit' \in {exit, NoExit}
        \/ err' = [err EXCEPT ![curr] = "fault"] /\ exit'.kind = "fault"
    <3>1. (err' = err /\ exit' = NoExit) \/ Fail
      BY <1>23, Zenon DEF HandleCallbackReturn
    <3> QED BY <3>1 DEF Fail, SetError, Exit
  <2>3. err[curr] = "none" \/ exit.kind = "fault"
    BY <1>23 DEF HandleCallbackReturn, Control, ErrorInv, InCall, Body
  <2> QED
    BY <1>23, <1>a, <2>1, <2>2, <2>3 DEF HandleCallbackReturn, Control, ErrorInv, Untouched,
       CompletedOnce, runVars, countVars, timeVars, loopVars, InCall, Body
<1>24. CASE Handled
  BY <1>24, <1>a DEF Handled, Control, ErrorInv, Untouched, CompletedOnce, runVars, countVars,
     timeVars, loopVars, InCall, Body
<1>25. CASE FinishCall
  <2>1. curr \in Runs /\ origin \in Runs /\ curr \in reported /\ origin \in reported
    BY <1>25 DEF FinishCall, QueueInv, TypeInv, Called, InCall
  <2>2. completed' = completed /\ pc = "finish" /\ emuComplete' = emuComplete /\ origin' = origin
    BY <1>25 DEF FinishCall
  <2>3. err' = err \/ (err' = FirstError(curr, "limit") /\ curr = origin /\ ~runComplete)
    BY <1>25 DEF FinishCall, runVars, ExitEventStopped
  <2>4. ~runComplete /\ curr = origin => completed[curr] = 0
    BY <1>25 DEF FinishCall, ErrorInv, Control, Called, InCall
  <2>5. curr # origin => completed[curr] = 0 /\ err[curr] = "none"
    BY <1>25 DEF FinishCall, ErrorInv, Control, Called, InCall
  <2>6. CompletedOnce'
    BY <1>a, <2>1, <2>2, <2>3, <2>4 DEF ErrorInv, CompletedOnce, FirstError
  <2>7. Untouched'
    BY <1>25, <1>a, <2>1, <2>2, <2>3, <2>5 DEF FinishCall, runVars, ReportedWithout, ErrorInv,
       Untouched, FirstError
  <2>8. CASE OutOfTotalTime
    BY <1>25, <1>a, <2>1, <2>2, <2>4, <2>5, <2>6, <2>7, <2>8
    DEF FinishCall, FirstError, ErrorInv, Control, InCall, Body, Called
  <2>9. CASE ~OutOfTotalTime
    <3>1. UNCHANGED <<curr, reported, runComplete, exhausted, raising>>
      BY <1>25, <2>9 DEF FinishCall, runVars
    <3>2. exhausted => runComplete
      BY <1>25 DEF FinishCall, Control, Called, InCall
    <3>3. err'[curr] \in {err[curr], "limit"} /\ (curr # origin => err' = err)
      BY <1>a, <2>1, <2>3 DEF FirstError
    <3> QED BY <1>25, <2>1, <2>2, <2>4, <2>5, <2>6, <2>7, <3>1, <3>2, <3>3
        DEF FinishCall, ErrorInv, Control, InCall, Body, Called
  <2> QED BY <2>8, <2>9
<1>26. CASE ApiReturns
  BY <1>26, <1>a DEF ApiReturns, Control, ErrorInv, Untouched, CompletedOnce, runVars,
     countVars, timeVars, loopVars, InCall, Body
<1>27. CASE ApiEndsRun
  BY <1>27, <1>a DEF ApiEndsRun, Control, ErrorInv, Untouched, CompletedOnce, runVars,
     countVars, timeVars, loopVars, InCall, Body
<1>28. CASE ApiStartsCallback
  <2>1. curr \in Runs /\ curr \in reported /\ completed[curr] = 0
    BY <1>28 DEF ApiStartsCallback, Control, ErrorInv, QueueInv, TypeInv, Called, InCall
  <2>2. \/ err' = err /\ exit' \in {exit, NoExit}
        \/ err' = [err EXCEPT ![curr] = "fault"] /\ exit'.kind = "fault"
    BY <1>28 DEF ApiStartsCallback, Fail, SetError, Exit
  <2>3. err[curr] = "none" \/ exit.kind = "fault"
    BY <1>28 DEF ApiStartsCallback, Control, ErrorInv, InCall, Body
  <2> QED
    BY <1>28, <1>a, <2>1, <2>2, <2>3 DEF ApiStartsCallback, Control, ErrorInv, Untouched,
       CompletedOnce, runVars, countVars, timeVars, loopVars, InCall, Body
<1>29. CASE ApiRaisesInGuest
  BY <1>29, <1>a DEF ApiRaisesInGuest, Control, ErrorInv, Untouched, CompletedOnce, runVars,
     countVars, timeVars, loopVars, InCall, Body
<1>30. ASSUME NEW t \in Threads, ApiCreatesThread(t)
       PROVE  ErrorInv'
  BY <1>30, <1>a DEF ApiCreatesThread, Control, ErrorInv, Untouched, CompletedOnce, runVars,
     countVars, timeVars, loopVars, InCall, Body
<1>31. ASSUME NEW t \in Threads, ApiResumesThread(t)
       PROVE  ErrorInv'
  BY <1>31, <1>a DEF ApiResumesThread, Control, ErrorInv, Untouched, CompletedOnce, runVars,
     countVars, timeVars, loopVars, InCall, Body
<1>32. ASSUME NEW t \in Threads, ApiSuspendsThread(t)
       PROVE  ErrorInv'
  BY <1>32, <1>a DEF ApiSuspendsThread, Control, ErrorInv, Untouched, CompletedOnce, runVars,
     countVars, timeVars, loopVars, InCall, Body
<1>33. CASE ApiHandlerRaises
  <2>1. curr \in Runs /\ curr \in reported /\ completed[curr] = 0
    BY <1>33 DEF ApiHandlerRaises, Control, ErrorInv, QueueInv, TypeInv, Called, InCall
  <2>2. /\ SetError(curr, "internal_error") \in [Runs -> Errors]
        /\ \A r \in Runs : r # curr => SetError(curr, "internal_error")[r] = err[r]
    BY <1>a, <2>1 DEF SetError, Errors
  <2>3. EndsCurr(SetError(curr, "internal_error"))
    BY <1>33, <2>1, <2>2, ArgumentTypes, CompleteRunEnds DEF ApiHandlerRaises, QueueInv
  <2>4. /\ Untouched' /\ CompletedOnce'
        /\ ~emuComplete' => completed'[curr'] = 0 /\ err'[curr'] = "none"
        /\ curr' # curr => completed'[curr'] = 0 /\ err'[curr'] = "none"
    BY <2>1, <2>2, <2>3, EndsCurrErrors DEF ErrorInv
  <2> QED
    BY <1>33, <2>1, <2>3, <2>4 DEF ApiHandlerRaises, ErrorInv, EndsCurr, Control, runVars,
       countVars, timeVars, loopVars, InCall, Body
<1>34. CASE ApiArgumentFault
  <2>1. curr \in Runs /\ curr \in reported /\ completed[curr] = 0
    BY <1>34 DEF ApiArgumentFault, Control, ErrorInv, QueueInv, TypeInv, Called, InCall
  <2>2. \/ err' = err /\ exit' \in {exit, NoExit}
        \/ err' = [err EXCEPT ![curr] = "fault"] /\ exit'.kind = "fault"
    BY <1>34 DEF ApiArgumentFault, Fail, SetError, Exit
  <2>3. err[curr] = "none" \/ exit.kind = "fault"
    BY <1>34 DEF ApiArgumentFault, Control, ErrorInv, InCall, Body
  <2> QED
    BY <1>34, <1>a, <2>1, <2>2, <2>3 DEF ApiArgumentFault, Control, ErrorInv, Untouched,
       CompletedOnce, runVars, countVars, timeVars, loopVars, InCall, Body
<1>35. CASE ApiHookRaises
  BY <1>35, <1>a DEF ApiHookRaises, Control, ErrorInv, Untouched, CompletedOnce, runVars,
     countVars, timeVars, loopVars, InCall, Body
<1>36. CASE ApiUnsupported
  <2>1. curr \in Runs /\ curr \in reported /\ completed[curr] = 0
    BY <1>36 DEF ApiUnsupported, Control, ErrorInv, QueueInv, TypeInv, Called, InCall
  <2>2. /\ SetError(curr, "unsupported_api") \in [Runs -> Errors]
        /\ \A r \in Runs : r # curr => SetError(curr, "unsupported_api")[r] = err[r]
    BY <1>a, <2>1 DEF SetError, Errors
  <2>3. EndsCurr(SetError(curr, "unsupported_api"))
    BY <1>36, <2>1, <2>2, ArgumentTypes, CompleteRunEnds DEF ApiUnsupported, QueueInv
  <2>4. /\ Untouched' /\ CompletedOnce'
        /\ ~emuComplete' => completed'[curr'] = 0 /\ err'[curr'] = "none"
        /\ curr' # curr => completed'[curr'] = 0 /\ err'[curr'] = "none"
    BY <2>1, <2>2, <2>3, EndsCurrErrors DEF ErrorInv
  <2>5. emuComplete' => completed'[curr'] = 1 /\ err'[curr'] = "unsupported_api"
    <3>1. SetError(curr, "unsupported_api")[curr] = "unsupported_api" /\ ~emuComplete
      BY <1>36, <1>a, <2>1 DEF ApiUnsupported, SetError, Control
    <3>2. emuComplete' => curr' = curr
      BY <2>3, <3>1, Zenon DEF EndsCurr
    <3>3. completed'[curr] = 1 /\ err'[curr] = "unsupported_api"
      BY <2>1, <2>3, <3>1 DEF EndsCurr
    <3> QED BY <3>2, <3>3
  <2>6. pc' = "limit" /\ (~emuComplete' => completed'[curr'] <= 1)
    BY <1>36, <2>4 DEF ApiUnsupported
  <2> QED BY <2>4, <2>5, <2>6 DEF ErrorInv, Control, Called, InCall, Body
<1>37. CASE ApiLimitReached
  <2>1. curr \in Runs /\ curr \in reported /\ completed[curr] <= 1
    BY <1>37 DEF ApiLimitReached, ErrorInv, QueueInv, TypeInv, Called, InCall
  <2>2. /\ SetError(curr, "max_api_count") \in [Runs -> Errors]
        /\ SetError(curr, "max_api_count")[curr] = "max_api_count"
        /\ \A r \in Runs : r # curr => SetError(curr, "max_api_count")[r] = err[r]
    BY <1>a, <2>1 DEF SetError, Errors
  <2>3. EndsCurr(SetError(curr, "max_api_count"))
    BY <1>37, <2>1, <2>2, ArgumentTypes, CompleteRunEnds DEF ApiLimitReached, QueueInv
  <2>4. /\ Untouched' /\ CompletedOnce'
        /\ ~emuComplete' => completed'[curr'] = 0 /\ err'[curr'] = "none"
        /\ curr' # curr => completed'[curr'] = 0 /\ err'[curr'] = "none"
    BY <2>1, <2>2, <2>3, EndsCurrErrors DEF ErrorInv
  <2> QED
    BY <1>37, <2>1, <2>4 DEF ApiLimitReached, AboveApiLimit, ErrorInv, Control, runVars,
       countVars, timeVars, loopVars, InCall, Body
<1>38. CASE ApiLimitNotReached
  BY <1>38, <1>a DEF ApiLimitNotReached, Control, ErrorInv, Untouched, CompletedOnce, runVars,
     countVars, timeVars, loopVars, InCall, Body
<1>39. CASE ApiDidNotReturn
  <2>1. curr \in Runs /\ curr \in reported /\ completed[curr] = 0
    BY <1>39 DEF ApiDidNotReturn, Control, ErrorInv, QueueInv, TypeInv, Called, InCall
  <2>2. \/ err' = err /\ exit' \in {exit, NoExit}
        \/ err' = [err EXCEPT ![curr] = "fault"] /\ exit'.kind = "fault"
    BY <1>39 DEF ApiDidNotReturn, Fail, SetError, Exit
  <2>3. err[curr] = "none" \/ exit.kind = "fault"
    BY <1>39 DEF ApiDidNotReturn, Control, ErrorInv, InCall, Body
  <2> QED
    BY <1>39, <1>a, <2>1, <2>2, <2>3 DEF ApiDidNotReturn, Control, ErrorInv, Untouched,
       CompletedOnce, runVars, countVars, timeVars, loopVars, InCall, Body
<1>40. CASE ApiDispatched
  <2>1. curr \in Runs /\ curr \in reported
    BY <1>40 DEF ApiDispatched, QueueInv, TypeInv, Called, InCall
  <2>2. CASE UNCHANGED runVars /\ pc' = "handled"
    BY <1>40, <2>2 DEF ApiDispatched, Control, ErrorInv, Untouched, CompletedOnce, runVars,
       countVars, timeVars, loopVars, InCall, Body
  <2>3. CASE /\ completed[curr] = 0 /\ curr = origin
             /\ \/ StopAtLimit("max_total_time")
                \/ CompleteRun(err, queue, suspended, load)
    <3>1. /\ FirstError(curr, "limit") \in [Runs -> Errors]
          /\ err \in [Runs -> Errors] /\ \A r \in Runs : r # curr => err[r] = err[r]
      BY <1>a, <2>1, ErrorType DEF SetError, Errors
    <3>2. EndsCurr(FirstError(curr, "limit")) \/ EndsCurr(err)
      BY <2>1, <2>3, <3>1, ArgumentTypes, StopAtLimitEnds, CompleteRunEnds DEF QueueInv
    <3>3. /\ Untouched' /\ CompletedOnce'
          /\ ~emuComplete' => completed'[curr'] = 0 /\ err'[curr'] = "none"
          /\ curr' # curr => completed'[curr'] = 0 /\ err'[curr'] = "none"
      BY <2>1, <2>3, <3>1, <3>2, EndsCurrErrors DEF ErrorInv
    <3>4. pc \in {"stopped", "dispatched"} /\ pc' \in {"handled", "finish"} /\ UNCHANGED <<origin, raising>>
      BY <1>40 DEF ApiDispatched
    <3> QED BY <2>3, <3>3, <3>4 DEF ErrorInv, Control, InCall, Body
  <2>4. ~(UNCHANGED runVars /\ pc' = "handled") => completed[curr] = 0 /\ curr = origin
    BY <1>40 DEF ApiDispatched, ErrorInv, InCall, RunEndsAfterApi
  <2>5. \/ UNCHANGED runVars /\ pc' = "handled"
        \/ StopAtLimit("max_total_time") \/ CompleteRun(err, queue, suspended, load)
    BY <1>40, Zenon DEF ApiDispatched
  <2> QED BY <2>2, <2>3, <2>4, <2>5
<1>41. CASE GuestInstruction
  BY <1>41, <1>a DEF GuestInstruction, Control, ErrorInv, Untouched, CompletedOnce, runVars,
     countVars, timeVars, loopVars, InCall, Body
<1>42. ASSUME NEW kind \in ExitKinds, RecordExit(kind)
       PROVE  ErrorInv'
  BY <1>42, <1>a DEF RecordExit, Control, ErrorInv, Untouched, CompletedOnce, runVars,
     countVars, timeVars, loopVars, InCall, Body
<1>43. CASE EngineStops
  BY <1>43, <1>a DEF EngineStops, Control, ErrorInv, Untouched, CompletedOnce, runVars,
     countVars, timeVars, loopVars, InCall, Body
<1>44. CASE HookStops
  BY <1>44, <1>a DEF HookStops, Control, ErrorInv, Untouched, CompletedOnce, runVars, countVars,
     timeVars, loopVars, InCall, Body
<1>45. CASE HookFails
  <2>1. curr \in Runs /\ curr \in reported /\ completed[curr] = 0
    BY <1>45 DEF HookFails, Control, ErrorInv, QueueInv, TypeInv, Called, InCall
  <2> QED
    BY <1>45, <1>a, <2>1 DEF HookFails, SetError, Control, ErrorInv, Untouched, CompletedOnce,
       runVars, countVars, timeVars, loopVars, InCall, Body
<1>46. CASE UnhandledInterrupt
  <2>1. curr \in Runs /\ curr \in reported /\ completed[curr] = 0
    BY <1>46 DEF UnhandledInterrupt, Control, ErrorInv, QueueInv, TypeInv, Called, InCall
  <2>2. /\ SetError(curr, "fault") \in [Runs -> Errors]
        /\ \A r \in Runs : r # curr => SetError(curr, "fault")[r] = err[r]
    BY <1>a, <2>1 DEF SetError, Errors
  <2>3. EndsCurr(SetError(curr, "fault"))
    BY <1>46, <2>1, <2>2, ArgumentTypes, CompleteRunEnds DEF UnhandledInterrupt, QueueInv
  <2>4. /\ Untouched' /\ CompletedOnce'
        /\ ~emuComplete' => completed'[curr'] = 0 /\ err'[curr'] = "none"
        /\ curr' # curr => completed'[curr'] = 0 /\ err'[curr'] = "none"
    BY <2>1, <2>2, <2>3, EndsCurrErrors DEF ErrorInv
  <2> QED
    BY <1>46, <2>1, <2>3, <2>4 DEF UnhandledInterrupt, ErrorInv, EndsCurr, Control, runVars,
       countVars, timeVars, loopVars, InCall, Body
<1>47. CASE DeferredWork
  <2>1. curr \in Runs /\ curr \in reported /\ completed[curr] = 0
    BY <1>47 DEF DeferredWork, Control, ErrorInv, QueueInv, TypeInv, Called, InCall
  <2>2. err \in [Runs -> Errors] /\ \A r \in Runs : r # curr => err[r] = err[r]
    BY <1>a, <2>1 DEF SetError, Errors
  <2>3. EndsCurr(err)
    BY <1>47, <2>1, <2>2, ArgumentTypes, CompleteRunEnds DEF DeferredWork, QueueInv
  <2>4. /\ Untouched' /\ CompletedOnce'
        /\ ~emuComplete' => completed'[curr'] = 0 /\ err'[curr'] = "none"
        /\ curr' # curr => completed'[curr'] = 0 /\ err'[curr'] = "none"
    BY <2>1, <2>2, <2>3, EndsCurrErrors DEF ErrorInv
  <2> QED
    BY <1>47, <2>1, <2>3, <2>4 DEF DeferredWork, ErrorInv, EndsCurr, Control, runVars,
       countVars, timeVars, loopVars, InCall, Body
<1>48. CASE EngineRaises
  BY <1>48, <1>a DEF EngineRaises, Control, ErrorInv, Untouched, CompletedOnce, runVars,
     countVars, timeVars, loopVars, InCall, Body
<1>49. CASE Tick
  BY <1>49, <1>a DEF Tick, Control, ErrorInv, Untouched, CompletedOnce, runVars, countVars,
     timeVars, loopVars, InCall, Body
<1>50. CASE SetExitEvent
  BY <1>50, <1>a DEF SetExitEvent, Control, ErrorInv, Untouched, CompletedOnce, runVars,
     countVars, timeVars, loopVars, InCall, Body
<1>51. CASE UNCHANGED vars
  BY <1>51 DEF vars, ErrorInv, Untouched, CompletedOnce, runVars, countVars, timeVars, loopVars,
     InCall, Body
<1> QED
  BY <1>1, <1>2, <1>3, <1>4, <1>5, <1>6, <1>7, <1>8, <1>9, <1>10, <1>11, <1>12, <1>13,
     <1>14, <1>15, <1>16, <1>17, <1>18, <1>19, <1>20, <1>21, <1>22, <1>23, <1>24, <1>25, <1>26,
     <1>27, <1>28, <1>29, <1>30, <1>31, <1>32, <1>33, <1>34, <1>35, <1>36, <1>37, <1>38, <1>39,
     <1>40, <1>41, <1>42, <1>43, <1>44, <1>45, <1>46, <1>47, <1>48, <1>49, <1>50, <1>51 DEF
     Next, LoopStep, ApiStep, GuestStep, Terminated

\* ErrorInv holds at the beginning.
LEMMA InitErrorInv == Init => ErrorInv
BY DEF Init, ErrorInv, Untouched, CompletedOnce, InCall, Body

\* The three invariants hold in every state.
LEMMA ErrorInvariant == Spec => [](LoopInv /\ QueueInv /\ ErrorInv)
<1>1. Init => LoopInv /\ QueueInv /\ ErrorInv
  BY InitLoopInv, InitQueueInv, InitErrorInv
<1>2. LoopInv /\ QueueInv /\ ErrorInv /\ [Next]_vars => (LoopInv /\ QueueInv /\ ErrorInv)'
  BY LoopInvStep, QueueStep, ErrorStep
<1> QED BY <1>1, <1>2, PTL DEF Spec

\* No handler, callback, fault or limit completes a run a second time, with one
\* exception: a last run that goes above the API count in the call that already
\* ended it is completed once more and then has the error max_api_count.
THEOREM RunsCompleteOnce == Spec => []CompletedOnce
<1>1. ErrorInv => CompletedOnce
  BY DEF ErrorInv
<1> QED BY <1>1, ErrorInvariant, PTL

\* An error that a run got, other than a limit, stays its error, apart from the API count.
ErrorStays ==
  \A r \in Runs : err[r] \notin {"none", "limit"} => err'[r] \in {err[r], "max_api_count"}

\* Every step keeps the errors.
LEMMA ErrorStaysStep == LoopInv /\ QueueInv /\ ErrorInv /\ [Next]_vars => ErrorStays
<1> SUFFICES ASSUME TypeInv, Control, ExitInv, QueueInv, ErrorInv, [Next]_vars
             PROVE  ErrorStays
  BY DEF LoopInv
<1>a. err \in [Runs -> Errors]
  BY DEF TypeInv, TypeOK
<1>b. ASSUME NEW e, EndsCurr(e), e[curr] \in {err[curr], "max_api_count"} \/ err[curr] \in {"none", "limit"}
      PROVE  ErrorStays
  BY <1>b DEF EndsCurr, ErrorStays
<1>1. CASE StartExhausted
  BY <1>1 DEF StartExhausted, ErrorStays, runVars, countVars, timeVars, loopVars
<1>2. CASE StartWithoutRuns
  BY <1>2 DEF StartWithoutRuns, ErrorStays, runVars, countVars, timeVars, loopVars
<1>3. CASE Start
  BY <1>3 DEF Start, ErrorStays, runVars, countVars, timeVars, loopVars
<1>4. CASE EnterCall
  BY <1>4 DEF EnterCall, ErrorStays, runVars, countVars, timeVars, loopVars
<1>5. CASE EndAtTotalBudget
  <2>1. curr \in Runs
    BY <1>5 DEF EndAtTotalBudget, TypeInv, Called
  <2>2. CASE runComplete
    BY <1>5, <2>2 DEF EndAtTotalBudget, ErrorStays
  <2>3. CASE ~runComplete
    <3>1. <<>> \in Seq(Runs) /\ InOrder(<<>>) /\ Range(<<>>) \subseteq Range(queue)
      BY EmptyLemma
    <3>2. EndsCurr(err)
      BY <1>5, <1>a, <2>1, <2>3, <3>1, CompleteRunEnds DEF EndAtTotalBudget
    <3> QED BY <1>b, <3>2
  <2> QED BY <2>2, <2>3
<1>6. CASE NextTurn
  BY <1>6 DEF NextTurn, ErrorStays, runVars, countVars, timeVars, loopVars
<1>7. CASE ExceptionEndsRun
  <2>1. curr \in Runs
    BY <1>7 DEF ExceptionEndsRun, TypeInv, Called, InCall
  <2>2. /\ SetError(curr, "internal_error") \in [Runs -> Errors]
        /\ \A r \in Runs : r # curr => SetError(curr, "internal_error")[r] = err[r]
    BY <1>a, <2>1 DEF SetError, Errors
  <2>3. EndsCurr(SetError(curr, "internal_error"))
    BY <1>7, <2>1, <2>2, ArgumentTypes, CompleteRunEnds DEF ExceptionEndsRun, QueueInv
  <2>4. err[curr] \in {"none", "limit"}
    BY <1>7, <1>a, <2>1 DEF ExceptionEndsRun, ErrorInv, SetError
  <2> QED BY <1>b, <2>3, <2>4
<1>8. CASE ExceptionAfterExitEvent
  BY <1>8 DEF ExceptionAfterExitEvent, ErrorStays, runVars, countVars, timeVars, loopVars
<1>9. CASE Done
  BY <1>9 DEF Done, ErrorStays, runVars, countVars, timeVars, loopVars
<1>10. CASE NextChild
  BY <1>10 DEF NextChild, ErrorStays, runVars, countVars, timeVars, loopVars
<1>11. CASE LoopEnds
  BY <1>11 DEF LoopEnds, ErrorStays, runVars, countVars, timeVars, loopVars
<1>12. CASE LoopAtLimit
  <2>1. curr \in Runs
    BY <1>12 DEF LoopAtLimit, TypeInv, Called, InCall
  <2>2. EndsCurr(FirstError(curr, "limit"))
    BY <1>12, <2>1, StopAtLimitEnds DEF LoopAtLimit
  <2>3. FirstError(curr, "limit")[curr] = err[curr] \/ err[curr] = "none"
    BY DEF FirstError
  <2> QED BY <1>b, <2>2, <2>3
<1>13. CASE StartUnicorn
  BY <1>13 DEF StartUnicorn, ErrorStays, runVars, countVars, timeVars, loopVars
<1>14. CASE LoopHandlesExit
  BY <1>14 DEF LoopHandlesExit, ErrorStays, runVars, countVars, timeVars, loopVars
<1>15. CASE UnicornStopped
  BY <1>15 DEF UnicornStopped, ErrorStays, runVars, countVars, timeVars, loopVars
<1>16. CASE StopWithoutExit
  <2>1. curr \in Runs
    BY <1>16 DEF StopWithoutExit, TypeInv, Called, InCall
  <2>2. CASE UNCHANGED runVars
    BY <2>2 DEF runVars, ErrorStays
  <2>3. CASE StopAtLimit(ReachedLimit)
    <3>1. EndsCurr(FirstError(curr, "limit"))
      BY <2>1, <2>3, StopAtLimitEnds
    <3>2. FirstError(curr, "limit")[curr] = err[curr] \/ err[curr] = "none"
      BY DEF FirstError
    <3> QED BY <1>b, <3>1, <3>2
  <2>4. CASE CompleteRun(SetError(curr, "fault"), queue, suspended, load)
    <3>1. /\ SetError(curr, "fault") \in [Runs -> Errors]
          /\ \A r \in Runs : r # curr => SetError(curr, "fault")[r] = err[r]
      BY <1>a, <2>1 DEF SetError, Errors
    <3>2. EndsCurr(SetError(curr, "fault"))
      BY <2>1, <2>4, <3>1, ArgumentTypes, CompleteRunEnds DEF QueueInv
    <3>3. err[curr] = "none"
      BY <1>16 DEF StopWithoutExit, ErrorInv, ExitInv, NoExit, InCall, Body
    <3> QED BY <1>b, <3>2, <3>3
  <2> QED BY <1>16, <2>2, <2>3, <2>4 DEF StopWithoutExit
<1>17. CASE HandleCpuException
  <2>1. err' = err \/ err' = [err EXCEPT ![curr] = "fault"]
    BY <1>17, Zenon DEF HandleCpuException, Fail, SetError
  <2>2. err[curr] = "none"
    BY <1>17 DEF HandleCpuException, Control, ErrorInv, ExitInv, NoExit, InCall, Body
  <2> QED BY <1>a, <2>1, <2>2 DEF ErrorStays
<1>18. CASE ApiAtLimit
  <2>1. curr \in Runs
    BY <1>18 DEF ApiAtLimit, TypeInv, Called, InCall
  <2>2. EndsCurr(FirstError(curr, "limit"))
    BY <1>18, <2>1, StopAtLimitEnds DEF ApiAtLimit
  <2>3. FirstError(curr, "limit")[curr] = err[curr] \/ err[curr] = "none"
    BY DEF FirstError
  <2> QED BY <1>b, <2>2, <2>3
<1>19. CASE EnterApi
  BY <1>19 DEF EnterApi, ErrorStays, runVars, countVars, timeVars, loopVars
<1>20. CASE ExitAtTotalTime
  <2>1. curr \in Runs
    BY <1>20 DEF ExitAtTotalTime, TypeInv, Called, InCall
  <2>2. EndsCurr(FirstError(curr, "limit"))
    BY <1>20, <2>1, StopAtLimitEnds DEF ExitAtTotalTime
  <2>3. FirstError(curr, "limit")[curr] = err[curr] \/ err[curr] = "none"
    BY DEF FirstError
  <2> QED BY <1>b, <2>2, <2>3
<1>21. CASE HandleReturn
  <2>1. curr \in Runs
    BY <1>21 DEF HandleReturn, TypeInv, Called, InCall
  <2>2. err \in [Runs -> Errors] /\ \A r \in Runs : r # curr => err[r] = err[r]
    BY <1>a, <2>1 DEF SetError, Errors
  <2>3. EndsCurr(err)
    BY <1>21, <2>1, <2>2, ArgumentTypes, CompleteRunEnds DEF HandleReturn, QueueInv
  <2> QED BY <1>b, <2>3
<1>22. CASE HandleRecovery
  BY <1>22 DEF HandleRecovery, ErrorStays, runVars, countVars, timeVars, loopVars
<1>23. CASE HandleCallbackReturn
  <2>1. err' = err \/ err' = [err EXCEPT ![curr] = "fault"]
    BY <1>23, Zenon DEF HandleCallbackReturn, Fail, SetError
  <2>2. err[curr] = "none"
    BY <1>23 DEF HandleCallbackReturn, Control, ErrorInv, ExitInv, NoExit, InCall, Body
  <2> QED BY <1>a, <2>1, <2>2 DEF ErrorStays
<1>24. CASE Handled
  BY <1>24 DEF Handled, ErrorStays, runVars, countVars, timeVars, loopVars
<1>25. CASE FinishCall
  <2>1. err' = err \/ err' = FirstError(origin, "limit")
    BY <1>25 DEF FinishCall, runVars
  <2> QED BY <1>a, <2>1 DEF FirstError, ErrorStays
<1>26. CASE ApiReturns
  BY <1>26 DEF ApiReturns, ErrorStays, runVars, countVars, timeVars, loopVars
<1>27. CASE ApiEndsRun
  BY <1>27 DEF ApiEndsRun, ErrorStays, runVars, countVars, timeVars, loopVars
<1>28. CASE ApiStartsCallback
  <2>1. err' = err \/ err' = [err EXCEPT ![curr] = "fault"]
    BY <1>28, Zenon DEF ApiStartsCallback, Fail, SetError
  <2>2. err[curr] = "none"
    BY <1>28 DEF ApiStartsCallback, Control, ErrorInv, ExitInv, NoExit, InCall, Body
  <2> QED BY <1>a, <2>1, <2>2 DEF ErrorStays
<1>29. CASE ApiRaisesInGuest
  BY <1>29 DEF ApiRaisesInGuest, ErrorStays, runVars, countVars, timeVars, loopVars
<1>30. ASSUME NEW t \in Threads, ApiCreatesThread(t)
       PROVE  ErrorStays
  BY <1>30 DEF ApiCreatesThread, ErrorStays, runVars, countVars, timeVars, loopVars
<1>31. ASSUME NEW t \in Threads, ApiResumesThread(t)
       PROVE  ErrorStays
  BY <1>31 DEF ApiResumesThread, ErrorStays, runVars, countVars, timeVars, loopVars
<1>32. ASSUME NEW t \in Threads, ApiSuspendsThread(t)
       PROVE  ErrorStays
  BY <1>32 DEF ApiSuspendsThread, ErrorStays, runVars, countVars, timeVars, loopVars
<1>33. CASE ApiHandlerRaises
  <2>1. curr \in Runs
    BY <1>33 DEF ApiHandlerRaises, TypeInv, Called, InCall
  <2>2. /\ SetError(curr, "internal_error") \in [Runs -> Errors]
        /\ \A r \in Runs : r # curr => SetError(curr, "internal_error")[r] = err[r]
    BY <1>a, <2>1 DEF SetError, Errors
  <2>3. EndsCurr(SetError(curr, "internal_error"))
    BY <1>33, <2>1, <2>2, ArgumentTypes, CompleteRunEnds DEF ApiHandlerRaises, QueueInv
  <2>4. err[curr] \in {"none", "limit"}
    BY <1>33, <1>a, <2>1 DEF ApiHandlerRaises, ErrorInv, SetError
  <2> QED BY <1>b, <2>3, <2>4
<1>34. CASE ApiArgumentFault
  <2>1. err' = err \/ err' = [err EXCEPT ![curr] = "fault"]
    BY <1>34, Zenon DEF ApiArgumentFault, Fail, SetError
  <2>2. err[curr] = "none"
    BY <1>34 DEF ApiArgumentFault, Control, ErrorInv, ExitInv, NoExit, InCall, Body
  <2> QED BY <1>a, <2>1, <2>2 DEF ErrorStays
<1>35. CASE ApiHookRaises
  BY <1>35 DEF ApiHookRaises, ErrorStays, runVars, countVars, timeVars, loopVars
<1>36. CASE ApiUnsupported
  <2>1. curr \in Runs
    BY <1>36 DEF ApiUnsupported, TypeInv, Called, InCall
  <2>2. /\ SetError(curr, "unsupported_api") \in [Runs -> Errors]
        /\ \A r \in Runs : r # curr => SetError(curr, "unsupported_api")[r] = err[r]
    BY <1>a, <2>1 DEF SetError, Errors
  <2>3. EndsCurr(SetError(curr, "unsupported_api"))
    BY <1>36, <2>1, <2>2, ArgumentTypes, CompleteRunEnds DEF ApiUnsupported, QueueInv
  <2>4. err[curr] \in {"none", "limit"}
    BY <1>36, <1>a, <2>1 DEF ApiUnsupported, ErrorInv, SetError
  <2> QED BY <1>b, <2>3, <2>4
<1>37. CASE ApiLimitReached
  <2>1. curr \in Runs
    BY <1>37 DEF ApiLimitReached, TypeInv, Called, InCall
  <2>2. /\ SetError(curr, "max_api_count") \in [Runs -> Errors]
        /\ \A r \in Runs : r # curr => SetError(curr, "max_api_count")[r] = err[r]
    BY <1>a, <2>1 DEF SetError, Errors
  <2>3. EndsCurr(SetError(curr, "max_api_count"))
    BY <1>37, <2>1, <2>2, ArgumentTypes, CompleteRunEnds DEF ApiLimitReached, QueueInv
  <2>4. SetError(curr, "max_api_count")[curr] = "max_api_count"
    BY <1>37, <1>a, <2>1 DEF ApiLimitReached, ErrorInv, SetError
  <2> QED BY <1>b, <2>3, <2>4
<1>38. CASE ApiLimitNotReached
  BY <1>38 DEF ApiLimitNotReached, ErrorStays, runVars, countVars, timeVars, loopVars
<1>39. CASE ApiDidNotReturn
  <2>1. err' = err \/ err' = [err EXCEPT ![curr] = "fault"]
    BY <1>39, Zenon DEF ApiDidNotReturn, Fail, SetError
  <2>2. err[curr] = "none"
    BY <1>39 DEF ApiDidNotReturn, Control, ErrorInv, ExitInv, NoExit, InCall, Body
  <2> QED BY <1>a, <2>1, <2>2 DEF ErrorStays
<1>40. CASE ApiDispatched
  <2>1. curr \in Runs
    BY <1>40 DEF ApiDispatched, TypeInv, Called, InCall
  <2>2. CASE UNCHANGED runVars
    BY <2>2 DEF runVars, ErrorStays
  <2>3. CASE StopAtLimit("max_total_time")
    <3>1. EndsCurr(FirstError(curr, "limit"))
      BY <2>1, <2>3, StopAtLimitEnds
    <3>2. FirstError(curr, "limit")[curr] = err[curr] \/ err[curr] = "none"
      BY DEF FirstError
    <3> QED BY <1>b, <3>1, <3>2
  <2>4. CASE CompleteRun(err, queue, suspended, load)
    <3>1. err \in [Runs -> Errors] /\ \A r \in Runs : r # curr => err[r] = err[r]
      BY <1>a, <2>1 DEF SetError, Errors
    <3>2. EndsCurr(err)
      BY <2>1, <2>4, <3>1, ArgumentTypes, CompleteRunEnds DEF QueueInv
    <3> QED BY <1>b, <3>2
  <2> QED BY <1>40, <2>2, <2>3, <2>4 DEF ApiDispatched
<1>41. CASE GuestInstruction
  BY <1>41 DEF GuestInstruction, ErrorStays, runVars, countVars, timeVars, loopVars
<1>42. ASSUME NEW kind \in ExitKinds, RecordExit(kind)
       PROVE  ErrorStays
  BY <1>42 DEF RecordExit, ErrorStays, runVars, countVars, timeVars, loopVars
<1>43. CASE EngineStops
  BY <1>43 DEF EngineStops, ErrorStays, runVars, countVars, timeVars, loopVars
<1>44. CASE HookStops
  BY <1>44 DEF HookStops, ErrorStays, runVars, countVars, timeVars, loopVars
<1>45. CASE HookFails
  BY <1>45, <1>a DEF HookFails, SetError, ErrorInv, ErrorStays
<1>46. CASE UnhandledInterrupt
  <2>1. curr \in Runs
    BY <1>46 DEF UnhandledInterrupt, TypeInv, Called, InCall
  <2>2. /\ SetError(curr, "fault") \in [Runs -> Errors]
        /\ \A r \in Runs : r # curr => SetError(curr, "fault")[r] = err[r]
    BY <1>a, <2>1 DEF SetError, Errors
  <2>3. EndsCurr(SetError(curr, "fault"))
    BY <1>46, <2>1, <2>2, ArgumentTypes, CompleteRunEnds DEF UnhandledInterrupt, QueueInv
  <2>4. err[curr] \in {"none", "limit"}
    BY <1>46, <1>a, <2>1 DEF UnhandledInterrupt, ErrorInv, SetError
  <2> QED BY <1>b, <2>3, <2>4
<1>47. CASE DeferredWork
  <2>1. curr \in Runs
    BY <1>47 DEF DeferredWork, TypeInv, Called, InCall
  <2>2. err \in [Runs -> Errors] /\ \A r \in Runs : r # curr => err[r] = err[r]
    BY <1>a, <2>1 DEF SetError, Errors
  <2>3. EndsCurr(err)
    BY <1>47, <2>1, <2>2, ArgumentTypes, CompleteRunEnds DEF DeferredWork, QueueInv
  <2> QED BY <1>b, <2>3
<1>48. CASE EngineRaises
  BY <1>48 DEF EngineRaises, ErrorStays, runVars, countVars, timeVars, loopVars
<1>49. CASE Tick
  BY <1>49 DEF Tick, ErrorStays, runVars, countVars, timeVars, loopVars
<1>50. CASE SetExitEvent
  BY <1>50 DEF SetExitEvent, ErrorStays, runVars, countVars, timeVars, loopVars
<1>51. CASE UNCHANGED vars
  BY <1>51 DEF vars, ErrorStays, runVars, countVars, timeVars, loopVars
<1> QED
  BY <1>1, <1>2, <1>3, <1>4, <1>5, <1>6, <1>7, <1>8, <1>9, <1>10, <1>11, <1>12, <1>13,
     <1>14, <1>15, <1>16, <1>17, <1>18, <1>19, <1>20, <1>21, <1>22, <1>23, <1>24, <1>25, <1>26,
     <1>27, <1>28, <1>29, <1>30, <1>31, <1>32, <1>33, <1>34, <1>35, <1>36, <1>37, <1>38, <1>39,
     <1>40, <1>41, <1>42, <1>43, <1>44, <1>45, <1>46, <1>47, <1>48, <1>49, <1>50, <1>51 DEF
     Next, LoopStep, ApiStep, GuestStep, Terminated

\* An error of a run that no limit gave stays its error: no exit event, no
\* completion, no later run and no limit replaces it, but for max_api_count, which
\* the code assigns whatever the run has.
THEOREM ErrorsAreKept == Spec => ErrorIsKept
<1>1. LoopInv /\ QueueInv /\ ErrorInv /\ [Next]_vars =>
        [\A r \in Runs : err[r] \notin {"none", "limit"} => err'[r] \in {err[r], "max_api_count"}]_vars
  BY ErrorStaysStep DEF ErrorStays
<1> QED BY <1>1, ErrorInvariant, PTL DEF Spec, ErrorIsKept

-----------------------------------------------------------------------------
(* What is left when the emulation ends. *)

\* A complete emulation completed its last run and has no other, unless a hook
\* ended it.
LastRunCompleted ==
  ~aborted /\ emuComplete /\ pc \in Called => completed[curr] > 0 /\ queue = <<>>

\* Unless a hook or the exit event ends the emulation: every run before the
\* current one is completed, and a call ends only with its run completed or the
\* total time spent.
NothingDropped ==
  /\ \A r \in reported : r # curr => completed[r] > 0
  /\ pc \in InCall /\ curr # origin => ~runComplete
  /\ pc = "finish" /\ ~raising => emuComplete \/ curr # origin
  /\ pc = "after" => emuComplete \/ curr # origin \/ exhausted
  /\ pc = "after" /\ exhausted /\ runComplete => completed[curr] > 0
  /\ pc \in {"done", "ended", "start"} => \A r \in reported : completed[r] > 0
  /\ pc \in {"done", "ended"} => queue = <<>>
  /\ pc = "start" => Range(queue) \cap InitRuns = {}
  /\ pc = "stopped" /\ runComplete /\ exit = NoExit /\ curr = origin /\ ~emuComplete => LimitReached

EndInv == LastRunCompleted /\ (~aborted /\ ~exitEvent => NothingDropped)

\* A limit that is reached stays reached until the call ends.
LEMMA LimitKept ==
  ASSUME TypeInv, instrs' = instrs, total' = total, now' = now \/ now' = now + 1, LimitReached
  PROVE  LimitReached'
<1>1. Deadline' = Deadline /\ Deadline \in Nat
  BY LimitsAssumption, SMTT(60) DEF Deadline, TotalIsNearer, TotalLeft, TypeInv, TypeOK
<1>2. DeadlineReached => DeadlineReached'
  BY <1>1 DEF DeadlineReached, TypeInv, TypeOK
<1>3. InstructionsReached => InstructionsReached'
  BY DEF InstructionsReached
<1> QED BY <1>2, <1>3 DEF LimitReached

\* The current run ends: then all reported runs but the next one are completed.
LEMMA EndsCurrEnd ==
  ASSUME TypeInv, curr \in Runs, EndInv, NEW e, EndsCurr(e), emuComplete' => runComplete'
  PROVE  /\ emuComplete' => completed'[curr'] > 0 /\ queue' = <<>>
         /\ ~aborted /\ ~exitEvent =>
              /\ \A r \in reported' : r # curr' => completed'[r] > 0
              /\ emuComplete' => \A r \in reported' : completed'[r] > 0
<1>1. completed[curr] \in Nat /\ reported \subseteq Runs
  BY DEF TypeInv, TypeOK
<1>2. completed'[curr] > 0
  BY <1>1 DEF EndsCurr
<1>3. emuComplete' => curr' = curr /\ queue' = <<>> /\ reported' = reported
  BY Zenon DEF EndsCurr
<1>4. ASSUME ~aborted, ~exitEvent
      PROVE  \A r \in reported : completed'[r] > 0
  <2>1. \A r \in reported : r # curr => completed'[r] > 0
    BY <1>1, <1>4 DEF EndInv, NothingDropped, EndsCurr
  <2> QED BY <1>2, <2>1
<1>5. \A r \in reported' : r # curr' => r \in reported
  BY DEF EndsCurr
<1> QED BY <1>2, <1>3, <1>4, <1>5

\* Every step keeps EndInv.
LEMMA EndStep ==
  LoopInv /\ LoopInv' /\ QueueInv /\ ErrorInv /\ EndInv /\ [Next]_vars => EndInv'
<1> SUFFICES ASSUME TypeInv, Control, ExitInv, TypeInv', Control', QueueInv, ErrorInv, EndInv, [Next]_vars
             PROVE  EndInv'
  BY DEF LoopInv
<1>a. /\ err \in [Runs -> Errors] /\ completed \in [Runs -> Nat]
      /\ runComplete \in BOOLEAN /\ emuComplete \in BOOLEAN /\ aborted \in BOOLEAN /\ exitEvent \in BOOLEAN
  BY DEF TypeInv, TypeOK
<1>1. CASE StartExhausted
  BY <1>1 DEF StartExhausted, EndInv, LastRunCompleted, NothingDropped, runVars, countVars,
     timeVars, loopVars, InCall, Called
<1>2. CASE StartWithoutRuns
  BY <1>2, LimitKept DEF StartWithoutRuns, Control, EndInv, LastRunCompleted, NothingDropped,
     runVars, countVars, timeVars, loopVars, InCall, Called
<1>3. CASE Start
  <2>1. reported' \subseteq reported \cup {curr'}
    BY <1>3 DEF Start
  <2> QED
    BY <1>3, <2>1 DEF Start, EndInv, LastRunCompleted, NothingDropped, runVars, countVars,
       timeVars, loopVars, InCall, Called
<1>4. CASE EnterCall
  BY <1>4, LimitKept DEF EnterCall, Control, EndInv, LastRunCompleted, NothingDropped, runVars,
     countVars, timeVars, loopVars, InCall, Called
<1>5. CASE EndAtTotalBudget
  <2>1. curr \in Runs /\ curr \in reported
    BY <1>5 DEF EndAtTotalBudget, TypeInv, QueueInv, Called
  <2>2. CASE runComplete
    BY <1>5, <2>2 DEF EndAtTotalBudget, EndInv, LastRunCompleted, NothingDropped, runVars,
       countVars, timeVars, loopVars, InCall, Called
  <2>3. CASE ~runComplete
    <3>1. <<>> \in Seq(Runs) /\ InOrder(<<>>) /\ Range(<<>>) \subseteq Range(queue)
      BY EmptyLemma
    <3>2. EndsCurr(err)
      BY <1>5, <1>a, <2>1, <2>3, <3>1, CompleteRunEnds DEF EndAtTotalBudget
    <3>3. emuComplete' = TRUE /\ runComplete' = TRUE /\ queue' = <<>>
      BY <1>5, <2>3, <3>1, CompleteRunFlags DEF EndAtTotalBudget
    <3>4. ~aborted /\ ~exitEvent => \A r \in reported' : completed'[r] > 0
      BY <2>1, <3>2, <3>3, EndsCurrEnd
    <3> QED
      BY <1>5, <3>3, <3>4 DEF EndAtTotalBudget, EndInv, LastRunCompleted, NothingDropped,
         runVars, countVars, timeVars, loopVars, InCall, Called
  <2> QED BY <2>2, <2>3
<1>6. CASE NextTurn
  BY <1>6, LimitKept DEF NextTurn, Control, EndInv, LastRunCompleted, NothingDropped, runVars,
     countVars, timeVars, loopVars, InCall, Called
<1>7. CASE ExceptionEndsRun
  <2>1. curr \in Runs /\ curr \in reported
    BY <1>7 DEF ExceptionEndsRun, TypeInv, QueueInv, Called, InCall
  <2>2. /\ SetError(curr, "internal_error") \in [Runs -> Errors]
        /\ \A r \in Runs : r # curr => SetError(curr, "internal_error")[r] = err[r]
    BY <1>a, <2>1 DEF SetError, Errors
  <2>3. EndsCurr(SetError(curr, "internal_error"))
    BY <1>7, <2>1, <2>2, ArgumentTypes, CompleteRunEnds DEF ExceptionEndsRun, QueueInv
  <2>4. emuComplete' => runComplete'
    BY <1>7, <2>3, Zenon DEF ExceptionEndsRun, Control, EndsCurr
  <2>5. /\ emuComplete' => completed'[curr'] > 0 /\ queue' = <<>>
        /\ ~aborted /\ ~exitEvent =>
             /\ \A r \in reported' : r # curr' => completed'[r] > 0
             /\ emuComplete' => \A r \in reported' : completed'[r] > 0
    BY <2>1, <2>3, <2>4, EndsCurrEnd
  <2>6. ~emuComplete' => curr' # curr /\ ~runComplete'
    BY <2>1, <2>3 DEF EndsCurr
  <2> QED
    BY <1>7, <2>1, <2>5, <2>6 DEF ExceptionEndsRun, Control, EndInv, LastRunCompleted,
       NothingDropped, runVars, countVars, timeVars, loopVars, InCall, Called
<1>8. CASE ExceptionAfterExitEvent
  BY <1>8, <1>a DEF ExceptionAfterExitEvent, EndInv, LastRunCompleted, NothingDropped, runVars,
     countVars, timeVars, loopVars, InCall, Called
<1>9. CASE Done
  BY <1>9, LimitKept DEF Done, Control, EndInv, LastRunCompleted, NothingDropped, runVars,
     countVars, timeVars, loopVars, InCall, Called
<1>10. CASE NextChild
  <2>1. Range(EntryRuns[Processes[proc + 1]]) \cap InitRuns = {} /\ EntryRuns[Processes[proc + 1]] \in Seq(Runs)
    <3>1. Processes[proc + 1] \in Range(Processes)
      BY <1>10, ObjectsAssumption DEF NextChild, TypeInv, TypeOK, Range
    <3>2. Range(EntryRuns[Processes[proc + 1]]) \subseteq MainRuns
      BY <3>1 DEF MainRuns
    <3> QED BY <3>1, <3>2, EntryRunsType, ObjectsAssumption
  <2>2. queue = <<>> => Range(queue') \cap InitRuns = {}
    BY <1>10, <2>1, EmptyLemma, ConcatLemma DEF NextChild
  <2> QED
    BY <1>10, <2>2 DEF NextChild, EndInv, LastRunCompleted, NothingDropped, runVars, countVars,
       timeVars, loopVars, InCall, Called
<1>11. CASE LoopEnds
  BY <1>11, LimitKept DEF LoopEnds, Control, EndInv, LastRunCompleted, NothingDropped, runVars,
     countVars, timeVars, loopVars, InCall, Called
<1>12. CASE LoopAtLimit
  <2>1. curr \in Runs /\ curr \in reported
    BY <1>12 DEF LoopAtLimit, TypeInv, QueueInv, Called, InCall
  <2>2. EndsCurr(FirstError(curr, "limit"))
    BY <1>12, <2>1, StopAtLimitEnds DEF LoopAtLimit
  <2>3. emuComplete' => runComplete'
    BY <1>12 DEF LoopAtLimit, Control, Called, InCall
  <2>4. /\ emuComplete' => completed'[curr'] > 0 /\ queue' = <<>>
        /\ ~aborted /\ ~exitEvent =>
             /\ \A r \in reported' : r # curr' => completed'[r] > 0
             /\ emuComplete' => \A r \in reported' : completed'[r] > 0
    BY <2>1, <2>2, <2>3, EndsCurrEnd
  <2>5. ~emuComplete' => curr' # curr /\ ~runComplete'
    BY <2>1, <2>2 DEF EndsCurr
  <2> QED
    BY <1>12, <2>1, <2>4, <2>5 DEF LoopAtLimit, Control, EndInv, LastRunCompleted,
       NothingDropped, runVars, countVars, timeVars, loopVars, InCall, Called
<1>13. CASE StartUnicorn
  BY <1>13, LimitKept DEF StartUnicorn, Control, EndInv, LastRunCompleted, NothingDropped,
     runVars, countVars, timeVars, loopVars, InCall, Called
<1>14. CASE LoopHandlesExit
  BY <1>14, LimitKept DEF LoopHandlesExit, Control, EndInv, LastRunCompleted, NothingDropped,
     runVars, countVars, timeVars, loopVars, InCall, Called
<1>15. CASE UnicornStopped
  <2>1. /\ pc = "stopped"
        /\ pc' \in {"exit", "loop"} \/ (pc' = "finish" /\ (curr # origin \/ emuComplete))
        /\ UNCHANGED <<curr, queue, origin, reported, completed, emuComplete, runComplete, raising, aborted, exitEvent>>
    BY <1>15 DEF UnicornStopped, runVars, countVars, timeVars, loopVars
  <2>2. pc = "stopped"
    BY <1>15 DEF UnicornStopped
  <2> QED
    BY <2>1, <2>2 DEF Control, EndInv, LastRunCompleted, NothingDropped, runVars, countVars,
       timeVars, loopVars, InCall, Called
<1>16. CASE StopWithoutExit
  <2>1. curr \in Runs /\ curr \in reported
    BY <1>16 DEF StopWithoutExit, TypeInv, QueueInv, Called, InCall
  <2>2. CASE UNCHANGED <<runVars, exhausted>> /\ ~LimitReached /\ runComplete
    BY <1>16, <2>2 DEF StopWithoutExit, Control, EndInv, LastRunCompleted, NothingDropped,
       runVars, countVars, timeVars, loopVars, InCall, Called
  <2>3. CASE /\ curr = origin
             /\ StopAtLimit(ReachedLimit) \/ CompleteRun(SetError(curr, "fault"), queue, suspended, load)
    <3>1. /\ SetError(curr, "fault") \in [Runs -> Errors]
          /\ \A r \in Runs : r # curr => SetError(curr, "fault")[r] = err[r]
      BY <1>a, <2>1 DEF SetError, Errors
    <3>2. EndsCurr(FirstError(curr, "limit")) \/ EndsCurr(SetError(curr, "fault"))
      BY <2>1, <2>3, <3>1, ArgumentTypes, StopAtLimitEnds, CompleteRunEnds DEF QueueInv
    <3>3. /\ pc \in {"stopped", "dispatched"} /\ pc' \in {"handled", "finish"}
          /\ UNCHANGED <<origin, aborted, exitEvent>>
      BY <1>16 DEF StopWithoutExit
    <3>4. emuComplete' => runComplete'
      BY <3>3 DEF Control, Called, InCall
    <3>5. /\ emuComplete' => completed'[curr'] > 0 /\ queue' = <<>>
          /\ ~aborted /\ ~exitEvent =>
               /\ \A r \in reported' : r # curr' => completed'[r] > 0
               /\ emuComplete' => \A r \in reported' : completed'[r] > 0
      BY <2>1, <3>2, <3>4, EndsCurrEnd
    <3>6. ~emuComplete' => curr' # curr /\ ~runComplete'
      BY <2>1, <3>2 DEF EndsCurr
    <3>7. emuComplete' => curr' = curr
      BY <3>2, <3>4 DEF EndsCurr
    <3> QED
      BY <2>1, <2>3, <3>3, <3>5, <3>6, <3>7 DEF EndInv, LastRunCompleted, NothingDropped,
         runVars, countVars, timeVars, loopVars, InCall, Called
  <2> QED BY <1>16, <2>2, <2>3 DEF StopWithoutExit
<1>17. CASE HandleCpuException
  BY <1>17, LimitKept DEF HandleCpuException, Control, EndInv, LastRunCompleted, NothingDropped,
     runVars, countVars, timeVars, loopVars, InCall, Called
<1>18. CASE ApiAtLimit
  <2>1. curr \in Runs /\ curr \in reported
    BY <1>18 DEF ApiAtLimit, TypeInv, QueueInv, Called, InCall
  <2>2. EndsCurr(FirstError(curr, "limit"))
    BY <1>18, <2>1, StopAtLimitEnds DEF ApiAtLimit
  <2>3. emuComplete' => runComplete'
    BY <1>18 DEF ApiAtLimit, Control, Called, InCall
  <2>4. /\ emuComplete' => completed'[curr'] > 0 /\ queue' = <<>>
        /\ ~aborted /\ ~exitEvent =>
             /\ \A r \in reported' : r # curr' => completed'[r] > 0
             /\ emuComplete' => \A r \in reported' : completed'[r] > 0
    BY <2>1, <2>2, <2>3, EndsCurrEnd
  <2>5. ~emuComplete' => curr' # curr /\ ~runComplete'
    BY <2>1, <2>2 DEF EndsCurr
  <2> QED
    BY <1>18, <2>1, <2>4, <2>5 DEF ApiAtLimit, Control, EndInv, LastRunCompleted,
       NothingDropped, runVars, countVars, timeVars, loopVars, InCall, Called
<1>19. CASE EnterApi
  BY <1>19, LimitKept DEF EnterApi, Control, EndInv, LastRunCompleted, NothingDropped, runVars,
     countVars, timeVars, loopVars, InCall, Called
<1>20. CASE ExitAtTotalTime
  <2>1. curr \in Runs /\ curr \in reported
    BY <1>20 DEF ExitAtTotalTime, TypeInv, QueueInv, Called, InCall
  <2>2. EndsCurr(FirstError(curr, "limit"))
    BY <1>20, <2>1, StopAtLimitEnds DEF ExitAtTotalTime
  <2>3. emuComplete' => runComplete'
    BY <1>20 DEF ExitAtTotalTime, Control, Called, InCall
  <2>4. /\ emuComplete' => completed'[curr'] > 0 /\ queue' = <<>>
        /\ ~aborted /\ ~exitEvent =>
             /\ \A r \in reported' : r # curr' => completed'[r] > 0
             /\ emuComplete' => \A r \in reported' : completed'[r] > 0
    BY <2>1, <2>2, <2>3, EndsCurrEnd
  <2>5. ~emuComplete' => curr' # curr /\ ~runComplete'
    BY <2>1, <2>2 DEF EndsCurr
  <2> QED
    BY <1>20, <2>1, <2>4, <2>5 DEF ExitAtTotalTime, Control, EndInv, LastRunCompleted,
       NothingDropped, runVars, countVars, timeVars, loopVars, InCall, Called
<1>21. CASE HandleReturn
  <2>1. curr \in Runs /\ curr \in reported
    BY <1>21 DEF HandleReturn, TypeInv, QueueInv, Called, InCall
  <2>2. err \in [Runs -> Errors] /\ \A r \in Runs : r # curr => err[r] = err[r]
    BY <1>a, <2>1 DEF SetError, Errors
  <2>3. EndsCurr(err)
    BY <1>21, <2>1, <2>2, ArgumentTypes, CompleteRunEnds DEF HandleReturn, QueueInv
  <2>4. emuComplete' => runComplete'
    BY <1>21 DEF HandleReturn, Control, Called, InCall
  <2>5. /\ emuComplete' => completed'[curr'] > 0 /\ queue' = <<>>
        /\ ~aborted /\ ~exitEvent =>
             /\ \A r \in reported' : r # curr' => completed'[r] > 0
             /\ emuComplete' => \A r \in reported' : completed'[r] > 0
    BY <2>1, <2>3, <2>4, EndsCurrEnd
  <2>6. ~emuComplete' => curr' # curr /\ ~runComplete'
    BY <2>1, <2>3 DEF EndsCurr
  <2> QED
    BY <1>21, <2>1, <2>5, <2>6 DEF HandleReturn, Control, EndInv, LastRunCompleted,
       NothingDropped, runVars, countVars, timeVars, loopVars, InCall, Called
<1>22. CASE HandleRecovery
  BY <1>22, LimitKept DEF HandleRecovery, Control, EndInv, LastRunCompleted, NothingDropped,
     runVars, countVars, timeVars, loopVars, InCall, Called
<1>23. CASE HandleCallbackReturn
  BY <1>23, LimitKept DEF HandleCallbackReturn, Control, EndInv, LastRunCompleted,
     NothingDropped, runVars, countVars, timeVars, loopVars, InCall, Called
<1>24. CASE Handled
  BY <1>24, LimitKept DEF Handled, Control, EndInv, LastRunCompleted, NothingDropped, runVars,
     countVars, timeVars, loopVars, InCall, Called
<1>25. CASE FinishCall
  <2>1. /\ pc = "finish" /\ pc' = IF raising THEN "except" ELSE "after"
        /\ UNCHANGED <<completed, emuComplete, origin, raising, exitEvent, aborted>>
        /\ queue' = queue \/ queue' = <<>>
    BY <1>25 DEF FinishCall, runVars
  <2>2. \/ UNCHANGED <<curr, reported, runComplete>>
        \/ /\ curr # origin /\ curr' = origin /\ reported' = reported \ {curr}
           /\ runComplete' = TRUE /\ exhausted' = TRUE
    BY <1>25 DEF FinishCall, runVars, ReportedWithout
  <2>3. exhausted' = exhausted \/ exhausted' = TRUE
    BY <1>25 DEF FinishCall
  <2>4. origin \in reported
    BY <2>1 DEF QueueInv, Called, InCall
  <2>5. emuComplete => curr = origin /\ UNCHANGED <<curr, reported, runComplete>>
    BY <2>1, <2>2 DEF Control, Called, InCall
  <2>6. LastRunCompleted'
    BY <2>1, <2>5, <1>a DEF EndInv, LastRunCompleted, Called, InCall
  <2>7. ASSUME ~aborted, ~exitEvent
        PROVE  NothingDropped'
    <3>1. NothingDropped
      BY <2>7 DEF EndInv
    <3>2. emuComplete => completed[curr] > 0
      BY <2>1, <2>7 DEF EndInv, LastRunCompleted, Called, InCall
    <3>3. curr # origin => completed[origin] > 0
      BY <2>4, <3>1 DEF NothingDropped
    <3>4. \A r \in reported' : r # curr' => completed'[r] > 0
      BY <2>1, <2>2, <3>1 DEF NothingDropped
    <3>5. pc' = "after" => emuComplete' \/ curr' # origin' \/ exhausted'
      BY <2>1, <2>2, <2>3, <3>1 DEF NothingDropped
    <3>6. pc' = "after" /\ exhausted' /\ runComplete' => completed'[curr'] > 0
      <4>1. pc' = "after" => emuComplete \/ curr # origin
        BY <2>1, <3>1 DEF NothingDropped
      <4>2. CASE UNCHANGED <<curr, reported, runComplete>>
        BY <2>1, <3>1, <3>2, <4>1, <4>2 DEF NothingDropped, InCall
      <4>3. CASE curr # origin /\ curr' = origin
        BY <2>1, <3>3, <4>3
      <4> QED BY <2>2, <4>2, <4>3
    <3> QED BY <2>1, <3>4, <3>5, <3>6 DEF NothingDropped, InCall
  <2> QED BY <2>1, <2>6, <2>7 DEF EndInv
<1>26. CASE ApiReturns
  BY <1>26, LimitKept DEF ApiReturns, Control, EndInv, LastRunCompleted, NothingDropped,
     runVars, countVars, timeVars, loopVars, InCall, Called
<1>27. CASE ApiEndsRun
  BY <1>27, LimitKept DEF ApiEndsRun, Control, EndInv, LastRunCompleted, NothingDropped,
     runVars, countVars, timeVars, loopVars, InCall, Called
<1>28. CASE ApiStartsCallback
  BY <1>28, LimitKept DEF ApiStartsCallback, Control, EndInv, LastRunCompleted, NothingDropped,
     runVars, countVars, timeVars, loopVars, InCall, Called
<1>29. CASE ApiRaisesInGuest
  BY <1>29, LimitKept DEF ApiRaisesInGuest, Control, EndInv, LastRunCompleted, NothingDropped,
     runVars, countVars, timeVars, loopVars, InCall, Called
<1>30. ASSUME NEW t \in Threads, ApiCreatesThread(t)
       PROVE  EndInv'
  BY <1>30, LimitKept DEF ApiCreatesThread, Control, EndInv, LastRunCompleted, NothingDropped,
     runVars, countVars, timeVars, loopVars, InCall, Called
<1>31. ASSUME NEW t \in Threads, ApiResumesThread(t)
       PROVE  EndInv'
  BY <1>31, LimitKept DEF ApiResumesThread, Control, EndInv, LastRunCompleted, NothingDropped,
     runVars, countVars, timeVars, loopVars, InCall, Called
<1>32. ASSUME NEW t \in Threads, ApiSuspendsThread(t)
       PROVE  EndInv'
  BY <1>32, LimitKept DEF ApiSuspendsThread, Control, EndInv, LastRunCompleted, NothingDropped,
     runVars, countVars, timeVars, loopVars, InCall, Called
<1>33. CASE ApiHandlerRaises
  <2>1. curr \in Runs /\ curr \in reported
    BY <1>33 DEF ApiHandlerRaises, TypeInv, QueueInv, Called, InCall
  <2>2. /\ SetError(curr, "internal_error") \in [Runs -> Errors]
        /\ \A r \in Runs : r # curr => SetError(curr, "internal_error")[r] = err[r]
    BY <1>a, <2>1 DEF SetError, Errors
  <2>3. EndsCurr(SetError(curr, "internal_error"))
    BY <1>33, <2>1, <2>2, ArgumentTypes, CompleteRunEnds DEF ApiHandlerRaises, QueueInv
  <2>4. emuComplete' => runComplete'
    BY <1>33 DEF ApiHandlerRaises, Control, Called, InCall
  <2>5. /\ emuComplete' => completed'[curr'] > 0 /\ queue' = <<>>
        /\ ~aborted /\ ~exitEvent =>
             /\ \A r \in reported' : r # curr' => completed'[r] > 0
             /\ emuComplete' => \A r \in reported' : completed'[r] > 0
    BY <2>1, <2>3, <2>4, EndsCurrEnd
  <2>6. ~emuComplete' => curr' # curr /\ ~runComplete'
    BY <2>1, <2>3 DEF EndsCurr
  <2> QED
    BY <1>33, <2>1, <2>5, <2>6 DEF ApiHandlerRaises, Control, EndInv, LastRunCompleted,
       NothingDropped, runVars, countVars, timeVars, loopVars, InCall, Called
<1>34. CASE ApiArgumentFault
  BY <1>34, LimitKept DEF ApiArgumentFault, Control, EndInv, LastRunCompleted, NothingDropped,
     runVars, countVars, timeVars, loopVars, InCall, Called
<1>35. CASE ApiHookRaises
  BY <1>35, LimitKept DEF ApiHookRaises, Control, EndInv, LastRunCompleted, NothingDropped,
     runVars, countVars, timeVars, loopVars, InCall, Called
<1>36. CASE ApiUnsupported
  <2>1. curr \in Runs /\ curr \in reported
    BY <1>36 DEF ApiUnsupported, TypeInv, QueueInv, Called, InCall
  <2>2. /\ SetError(curr, "unsupported_api") \in [Runs -> Errors]
        /\ \A r \in Runs : r # curr => SetError(curr, "unsupported_api")[r] = err[r]
    BY <1>a, <2>1 DEF SetError, Errors
  <2>3. EndsCurr(SetError(curr, "unsupported_api"))
    BY <1>36, <2>1, <2>2, ArgumentTypes, CompleteRunEnds DEF ApiUnsupported, QueueInv
  <2>4. emuComplete' => runComplete'
    BY <1>36 DEF ApiUnsupported, Control, Called, InCall
  <2>5. /\ emuComplete' => completed'[curr'] > 0 /\ queue' = <<>>
        /\ ~aborted /\ ~exitEvent =>
             /\ \A r \in reported' : r # curr' => completed'[r] > 0
             /\ emuComplete' => \A r \in reported' : completed'[r] > 0
    BY <2>1, <2>3, <2>4, EndsCurrEnd
  <2>6. ~emuComplete' => curr' # curr /\ ~runComplete'
    BY <2>1, <2>3 DEF EndsCurr
  <2> QED
    BY <1>36, <2>1, <2>5, <2>6 DEF ApiUnsupported, Control, EndInv, LastRunCompleted,
       NothingDropped, runVars, countVars, timeVars, loopVars, InCall, Called
<1>37. CASE ApiLimitReached
  <2>1. curr \in Runs /\ curr \in reported
    BY <1>37 DEF ApiLimitReached, TypeInv, QueueInv, Called, InCall
  <2>2. /\ SetError(curr, "max_api_count") \in [Runs -> Errors]
        /\ \A r \in Runs : r # curr => SetError(curr, "max_api_count")[r] = err[r]
    BY <1>a, <2>1 DEF SetError, Errors
  <2>3. EndsCurr(SetError(curr, "max_api_count"))
    BY <1>37, <2>1, <2>2, ArgumentTypes, CompleteRunEnds DEF ApiLimitReached, QueueInv
  <2>4. emuComplete' => runComplete'
    BY <1>37 DEF ApiLimitReached, Control, Called, InCall
  <2>5. /\ emuComplete' => completed'[curr'] > 0 /\ queue' = <<>>
        /\ ~aborted /\ ~exitEvent =>
             /\ \A r \in reported' : r # curr' => completed'[r] > 0
             /\ emuComplete' => \A r \in reported' : completed'[r] > 0
    BY <2>1, <2>3, <2>4, EndsCurrEnd
  <2>6. ~emuComplete' => curr' # curr /\ ~runComplete'
    BY <2>1, <2>3 DEF EndsCurr
  <2> QED
    BY <1>37, <2>1, <2>5, <2>6 DEF ApiLimitReached, Control, EndInv, LastRunCompleted,
       NothingDropped, runVars, countVars, timeVars, loopVars, InCall, Called, AboveApiLimit
<1>38. CASE ApiLimitNotReached
  BY <1>38, LimitKept DEF ApiLimitNotReached, Control, EndInv, LastRunCompleted, NothingDropped,
     runVars, countVars, timeVars, loopVars, InCall, Called
<1>39. CASE ApiDidNotReturn
  BY <1>39, LimitKept DEF ApiDidNotReturn, Control, EndInv, LastRunCompleted, NothingDropped,
     runVars, countVars, timeVars, loopVars, InCall, Called
<1>40. CASE ApiDispatched
  <2>1. curr \in Runs /\ curr \in reported
    BY <1>40 DEF ApiDispatched, TypeInv, QueueInv, Called, InCall
  <2>2. CASE UNCHANGED <<runVars, exhausted>> /\ pc' = "handled"
    BY <1>40, <2>2 DEF ApiDispatched, Control, EndInv, LastRunCompleted, NothingDropped,
       runVars, countVars, timeVars, loopVars, InCall, Called
  <2>3. CASE /\ curr = origin
             /\ StopAtLimit("max_total_time") \/ CompleteRun(err, queue, suspended, load)
    <3>1. err \in [Runs -> Errors] /\ \A r \in Runs : r # curr => err[r] = err[r]
      BY <1>a, <2>1 DEF SetError, Errors
    <3>2. EndsCurr(FirstError(curr, "limit")) \/ EndsCurr(err)
      BY <2>1, <2>3, <3>1, ArgumentTypes, StopAtLimitEnds, CompleteRunEnds DEF QueueInv
    <3>3. /\ pc \in {"stopped", "dispatched"} /\ pc' \in {"handled", "finish"}
          /\ UNCHANGED <<origin, aborted, exitEvent>>
      BY <1>40 DEF ApiDispatched
    <3>4. emuComplete' => runComplete'
      BY <3>3 DEF Control, Called, InCall
    <3>5. /\ emuComplete' => completed'[curr'] > 0 /\ queue' = <<>>
          /\ ~aborted /\ ~exitEvent =>
               /\ \A r \in reported' : r # curr' => completed'[r] > 0
               /\ emuComplete' => \A r \in reported' : completed'[r] > 0
      BY <2>1, <3>2, <3>4, EndsCurrEnd
    <3>6. ~emuComplete' => curr' # curr /\ ~runComplete'
      BY <2>1, <3>2 DEF EndsCurr
    <3>7. emuComplete' => curr' = curr
      BY <3>2, <3>4 DEF EndsCurr
    <3> QED
      BY <2>1, <2>3, <3>3, <3>5, <3>6, <3>7 DEF EndInv, LastRunCompleted, NothingDropped,
         runVars, countVars, timeVars, loopVars, InCall, Called
  <2> QED BY <1>40, <2>2, <2>3 DEF ApiDispatched, RunEndsAfterApi
<1>41. CASE GuestInstruction
  BY <1>41, LimitKept DEF GuestInstruction, Control, EndInv, LastRunCompleted, NothingDropped,
     runVars, countVars, timeVars, loopVars, InCall, Called
<1>42. ASSUME NEW kind \in ExitKinds, RecordExit(kind)
       PROVE  EndInv'
  BY <1>42 DEF RecordExit, Exit, NoExit, Control, EndInv, LastRunCompleted, NothingDropped,
     runVars, countVars, timeVars, loopVars, InCall, Called
<1>43. CASE EngineStops
  BY <1>43, LimitKept DEF EngineStops, Control, EndInv, LastRunCompleted, NothingDropped,
     runVars, countVars, timeVars, loopVars, InCall, Called
<1>44. CASE HookStops
  BY <1>44, LimitKept DEF HookStops, Control, EndInv, LastRunCompleted, NothingDropped, runVars,
     countVars, timeVars, loopVars, InCall, Called
<1>45. CASE HookFails
  BY <1>45, LimitKept DEF HookFails, Control, EndInv, LastRunCompleted, NothingDropped, runVars,
     countVars, timeVars, loopVars, InCall, Called
<1>46. CASE UnhandledInterrupt
  <2>1. curr \in Runs /\ curr \in reported
    BY <1>46 DEF UnhandledInterrupt, TypeInv, QueueInv, Called, InCall
  <2>2. /\ SetError(curr, "fault") \in [Runs -> Errors]
        /\ \A r \in Runs : r # curr => SetError(curr, "fault")[r] = err[r]
    BY <1>a, <2>1 DEF SetError, Errors
  <2>3. EndsCurr(SetError(curr, "fault"))
    BY <1>46, <2>1, <2>2, ArgumentTypes, CompleteRunEnds DEF UnhandledInterrupt, QueueInv
  <2>4. emuComplete' => runComplete'
    BY <1>46 DEF UnhandledInterrupt, Control, Called, InCall
  <2>5. /\ emuComplete' => completed'[curr'] > 0 /\ queue' = <<>>
        /\ ~aborted /\ ~exitEvent =>
             /\ \A r \in reported' : r # curr' => completed'[r] > 0
             /\ emuComplete' => \A r \in reported' : completed'[r] > 0
    BY <2>1, <2>3, <2>4, EndsCurrEnd
  <2>6. ~emuComplete' => curr' # curr /\ ~runComplete'
    BY <2>1, <2>3 DEF EndsCurr
  <2> QED
    BY <1>46, <2>1, <2>5, <2>6 DEF UnhandledInterrupt, Control, EndInv, LastRunCompleted,
       NothingDropped, runVars, countVars, timeVars, loopVars, InCall, Called
<1>47. CASE DeferredWork
  <2>1. curr \in Runs /\ curr \in reported
    BY <1>47 DEF DeferredWork, TypeInv, QueueInv, Called, InCall
  <2>2. err \in [Runs -> Errors] /\ \A r \in Runs : r # curr => err[r] = err[r]
    BY <1>a, <2>1 DEF SetError, Errors
  <2>3. EndsCurr(err)
    BY <1>47, <2>1, <2>2, ArgumentTypes, CompleteRunEnds DEF DeferredWork, QueueInv
  <2>4. emuComplete' => runComplete'
    BY <1>47 DEF DeferredWork, Control, Called, InCall
  <2>5. /\ emuComplete' => completed'[curr'] > 0 /\ queue' = <<>>
        /\ ~aborted /\ ~exitEvent =>
             /\ \A r \in reported' : r # curr' => completed'[r] > 0
             /\ emuComplete' => \A r \in reported' : completed'[r] > 0
    BY <2>1, <2>3, <2>4, EndsCurrEnd
  <2>6. ~emuComplete' => curr' # curr /\ ~runComplete'
    BY <2>1, <2>3 DEF EndsCurr
  <2> QED
    BY <1>47, <2>1, <2>5, <2>6 DEF DeferredWork, Control, EndInv, LastRunCompleted,
       NothingDropped, runVars, countVars, timeVars, loopVars, InCall, Called
<1>48. CASE EngineRaises
  BY <1>48, LimitKept DEF EngineRaises, Control, EndInv, LastRunCompleted, NothingDropped,
     runVars, countVars, timeVars, loopVars, InCall, Called
<1>49. CASE Tick
  BY <1>49, LimitKept DEF Tick, Control, EndInv, LastRunCompleted, NothingDropped, runVars,
     countVars, timeVars, loopVars, InCall, Called
<1>50. CASE SetExitEvent
  BY <1>50, LimitKept DEF SetExitEvent, Control, EndInv, LastRunCompleted, NothingDropped,
     runVars, countVars, timeVars, loopVars, InCall, Called
<1>51. CASE UNCHANGED vars
  BY <1>51, LimitKept DEF vars, EndInv, LastRunCompleted, NothingDropped, runVars, countVars,
     timeVars, loopVars, InCall, Called
<1> QED
  BY <1>1, <1>2, <1>3, <1>4, <1>5, <1>6, <1>7, <1>8, <1>9, <1>10, <1>11, <1>12, <1>13,
     <1>14, <1>15, <1>16, <1>17, <1>18, <1>19, <1>20, <1>21, <1>22, <1>23, <1>24, <1>25, <1>26,
     <1>27, <1>28, <1>29, <1>30, <1>31, <1>32, <1>33, <1>34, <1>35, <1>36, <1>37, <1>38, <1>39,
     <1>40, <1>41, <1>42, <1>43, <1>44, <1>45, <1>46, <1>47, <1>48, <1>49, <1>50, <1>51 DEF
     Next, LoopStep, ApiStep, GuestStep, Terminated

\* EndInv holds at the beginning.
LEMMA InitEndInv == Init => EndInv
<1> SUFFICES ASSUME Init
             PROVE  EndInv
  OBVIOUS
<1>1. Processes[1] \in Range(Processes)
  BY ObjectsAssumption DEF Range
<1>2. Range(EntryRuns[Processes[1]]) \subseteq MainRuns
  BY <1>1 DEF MainRuns
<1>3. Range(queue) \cap InitRuns = {}
  BY <1>2, ObjectsAssumption DEF Init
<1> QED BY <1>3 DEF Init, EndInv, LastRunCompleted, NothingDropped, Called, InCall

\* The four invariants together.
RunInv == LoopInv /\ QueueInv /\ ErrorInv /\ EndInv

\* Every step keeps RunInv.
LEMMA RunInvStep == RunInv /\ [Next]_vars => RunInv'
BY LoopInvStep, QueueStep, ErrorStep, EndStep DEF RunInv

\* RunInv is an invariant of the run loop.
LEMMA RunInvariant == Spec => []RunInv
<1>1. Init => RunInv
  BY InitLoopInv, InitQueueInv, InitErrorInv, InitEndInv DEF RunInv
<1> QED BY <1>1, RunInvStep, PTL DEF Spec

-----------------------------------------------------------------------------
(***************************************************************************)
(* The startup initializers of guest DLLs, what is left when the emulation *)
(* ends, and the total time.                                               *)
(***************************************************************************)

(* Load states. *)

\* Where a process that started goes on with a run.
Running ==
  /\ ~emuComplete
  /\ \/ pc \in Body \cup {"outer", "loop", "finish"}
     \/ pc = "after" /\ curr # origin /\ ~exhausted
     \/ pc = "except" /\ queue # <<>>

\* Where the current run is still to be completed.
CurrPending ==
  \/ pc \in Body \cup {"outer", "loop"} /\ ~emuComplete
  \/ pc \in {"finish", "after"} /\ curr # origin

\* Until a hook ends the emulation or the loop sees the exit event.
Ord == ~aborted /\ (exitEvent => pc \in Body)

State(r) == load[r.proc][r.mod]
Waiting == Range(queue) \cup (IF CurrPending THEN {curr} ELSE {})
Passed(r) == completed[r] = 1 /\ err[r] = "none"

\* No process is initialized before it starts, and after its start all its
\* modules were at least begun.
LoadsBegin ==
  /\ \A j \in Later, m \in Range(Modules) : load[Processes[j]][m] = "none"
  /\ Running => \A m \in Range(Modules) : load[Processes[proc]][m] # "none"

\* An initializer waits only while its module is being initialized.
WaitingIsInitializing == \A r \in InitRuns : r \in Waiting => State(r) = "initializing"

\* The DllMain of a module that is being initialized is still to be completed.
DllMainIsLeft ==
  \A p \in Range(Processes), m \in Range(Modules) :
    load[p][m] = "initializing" =>
      InitRun(p, m, 2) \in Range(queue) \cup {curr} /\ completed[InitRun(p, m, 2)] = 0

\* When a DllMain waits, the TLS callback before it waits or passed.
TlsBeforeDllMain ==
  \A p \in Range(Processes), m \in HasTls :
    InitRun(p, m, 2) \in Waiting =>
      InitRun(p, m, 1) \in Range(queue) \cup {curr} \/ Passed(InitRun(p, m, 1))

\* All initializers of a module that is ready passed.
ReadyHasPassed == \A r \in InitRuns : State(r) = "ready" => Passed(r)

LoadInv ==
  /\ curr \in Runs => curr \in reported
  /\ LoadsBegin
  /\ WaitingIsInitializing
  /\ Ord => DllMainIsLeft /\ TlsBeforeDllMain
  /\ ~aborted => ReadyHasPassed

\* A step that leaves the load states, the initializers that wait and the
\* current run.
LEMMA LoadKept ==
  ASSUME LoadInv,
         UNCHANGED <<load, completed, curr, reported>>,
         \A r \in InitRuns : r \in Range(queue') <=> r \in Range(queue),
         Later' \subseteq Later, Running' => Running /\ proc' = proc,
         CurrPending' => CurrPending, Ord' => Ord, aborted => aborted',
         \A r \in InitRuns : err'[r] = err[r] \/ completed[r] # 1 \/ aborted'
  PROVE  LoadInv'
<1>1. LoadsBegin'
  BY DEF LoadInv, LoadsBegin
<1>2. \A r \in InitRuns : r \in Waiting' => r \in Waiting
  BY DEF Waiting
<1>3. WaitingIsInitializing'
  BY <1>2 DEF LoadInv, WaitingIsInitializing, State
<1>4. \A p \in Range(Processes), m \in Range(Modules) : InitRun(p, m, 2) \in InitRuns
  BY DEF InitRuns
<1>5. \A p \in Range(Processes), m \in HasTls : InitRun(p, m, 1) \in InitRuns /\ m \in Range(Modules)
  BY ObjectsAssumption DEF InitRuns
<1>6. \A r \in InitRuns : Passed(r) => Passed(r)' \/ aborted'
  BY DEF Passed
<1>7. Ord' => DllMainIsLeft'
  BY <1>4 DEF LoadInv, DllMainIsLeft
<1>8. Ord' => TlsBeforeDllMain'
  <2> SUFFICES ASSUME Ord', NEW p \in Range(Processes), NEW m \in HasTls, InitRun(p, m, 2) \in Waiting'
               PROVE  \/ InitRun(p, m, 1) \in Range(queue') \cup {curr'}
                      \/ Passed(InitRun(p, m, 1))'
    BY DEF TlsBeforeDllMain
  <2>1. InitRun(p, m, 1) \in Range(queue) \cup {curr} \/ Passed(InitRun(p, m, 1))
    BY <1>2, <1>4, <1>5 DEF LoadInv, TlsBeforeDllMain
  <2>2. ~aborted'
    BY DEF Ord
  <2> QED BY <1>5, <1>6, <2>1, <2>2
<1>9. ~aborted' => ReadyHasPassed'
  BY <1>6 DEF LoadInv, ReadyHasPassed, State
<1> QED BY <1>1, <1>3, <1>7, <1>8, <1>9 DEF LoadInv

\* What cancelling runs leaves.
LEMMA CanceledLemma ==
  ASSUME NEW rs, NEW p \in Range(Processes), NEW m \in Range(Modules)
  PROVE  /\ load[p][m] = "none" => Canceled(rs)[p][m] = "none"
         /\ Canceled(rs)[p][m] \notin {"none", "initializing"} => Canceled(rs)[p][m] = load[p][m]
         /\ Canceled(rs)[p][m] = "initializing" =>
              load[p][m] = "initializing" /\ InitRun(p, m, 2) \notin rs
<1>1. InitRun(p, m, 2) \in InitRuns /\ InitRun(p, m, 2).proc = p /\ InitRun(p, m, 2).mod = m
  BY DEF InitRuns, InitRun
<1> QED BY <1>1 DEF Canceled

\* What a completion does to the load states and the initializers that are left.
EndsLoad ==
  /\ \A j \in Later, m \in Range(Modules) : load'[Processes[j]][m] = "none"
  /\ ~emuComplete' => \A p \in Range(Processes), m \in Range(Modules) :
                        load[p][m] # "none" => load'[p][m] # "none"
  /\ \A r \in InitRuns : r \in Range(queue') \cup {curr'} /\ r # curr => State(r)' = "initializing"
  /\ curr \notin Range(queue')
  /\ Ord => \A p \in Range(Processes), m \in Range(Modules) :
              load'[p][m] = "initializing" =>
                /\ InitRun(p, m, 2) \in Range(queue') \cup {curr'}
                /\ completed'[InitRun(p, m, 2)] = 0
  /\ Ord => \A p \in Range(Processes), m \in HasTls :
              InitRun(p, m, 2) \in (Range(queue') \cup {curr'}) \ {curr} =>
                InitRun(p, m, 1) \in Range(queue') \cup {curr'} \/ Passed(InitRun(p, m, 1))'
  /\ ~aborted => ReadyHasPassed'
  /\ curr' \in reported'

\* CompleteRun and the load states: a failed initializer takes those of its
\* module with it, and a DllMain that passes makes its module ready, when the
\* TLS callback before it passed.
LEMMA CompleteRunLoad ==
  ASSUME TypeInv, QueueInv, LoadInv, curr \in Runs, curr \in reported,
         \A r \in Range(queue) : <<curr, r>> \in MayPrecede,
         NEW e \in [Runs -> Errors], \A r \in Runs : r # curr => e[r] = err[r],
         NEW q \in Seq(Runs), NEW sus, NEW ld \in Loads,
         \/ q = queue /\ ld = load
         \/ q = <<>> /\ ld = Canceled(Pending) /\ e[curr] # "none",
         e[curr] = "none" /\ curr \in InitRuns =>
           CurrPending /\ (~aborted => Ord) /\ completed[curr] = 0,
         CompleteRun(e, q, sus, ld)
  PROVE  EndsLoad
<1>1. PICK failed \in BOOLEAN, rest \in Seq(Runs) : Completes(e, q, sus, ld, failed, rest)
  BY CompleteRunLemma
<1> DEFINE Mine(p, m) == curr \in InitRuns /\ p = curr.proc /\ m = curr.mod
<1>2. /\ Range(rest) = IF failed THEN Range(q) \ OfModule(curr) ELSE Range(q)
      /\ Range(q) \subseteq Range(queue) /\ (Range(q) # {} => q = queue /\ ld = load)
  BY <1>1, EmptyLemma DEF Completes
<1>3. curr \notin Range(queue)
  BY DEF MayPrecede
<1>4. /\ (Range(queue') \cup {curr'}) \ {curr} \subseteq Range(rest)
      /\ Range(rest) \subseteq Range(queue') \cup {curr'}
      /\ Range(queue') \subseteq Range(rest)
      /\ curr' \in reported'
      /\ ~emuComplete' => rest # <<>>
  <2>1. CASE rest = <<>>
    <3>1. emuComplete' = TRUE /\ queue' = <<>> /\ curr' = curr /\ reported' = reported
      BY <1>1, <2>1 DEF Completes
    <3> QED BY <2>1, <3>1, EmptyLemma
  <2>2. CASE rest # <<>>
    <3>1. queue' = Tail(rest) /\ curr' = Head(rest) /\ reported' = reported \cup {Head(rest)}
      BY <1>1, <2>2 DEF Completes
    <3>2. Range(rest) = {Head(rest)} \cup Range(Tail(rest))
      BY <2>2, HeadLemma
    <3> QED BY <2>2, <3>1, <3>2
  <2> QED BY <2>1, <2>2
<1>5. /\ \A r \in Runs : r # curr => completed'[r] = completed[r] /\ err'[r] = err[r]
      /\ completed'[curr] = completed[curr] + 1
      /\ ~failed => err'[curr] = e[curr]
  <2>1. /\ err' = IF failed /\ e[curr] = "none"
                  THEN [e EXCEPT ![curr] = "dll_initialization_failed"] ELSE e
        /\ completed' = [completed EXCEPT ![curr] = completed[curr] + 1]
    BY <1>1 DEF Completes
  <2> QED BY <2>1 DEF TypeInv, TypeOK
<1>6. (failed => curr \in InitRuns) /\ (curr \in InitRuns /\ ~failed => e[curr] = "none")
  BY <1>1 DEF Completes
<1>7. /\ \A p \in Range(Processes), m \in Range(Modules) : ~Mine(p, m) => load'[p][m] = ld[p][m]
      /\ curr \in InitRuns /\ failed => load'[curr.proc][curr.mod] = "init_error"
      /\ curr \in InitRuns /\ ~failed /\ curr.fn = 2 => load'[curr.proc][curr.mod] = "ready"
      /\ curr \in InitRuns /\ ~failed /\ curr.fn # 2 => load' = ld
  <2>1. load' = IF failed THEN [ld EXCEPT ![curr.proc][curr.mod] = "init_error"]
                ELSE IF curr \in InitRuns /\ curr.fn = 2
                THEN [ld EXCEPT ![curr.proc][curr.mod] = "ready"] ELSE ld
    BY <1>1 DEF Completes, IsLast
  <2>2. CASE curr \in InitRuns
    BY <2>1, <2>2, InitRunType DEF Loads
  <2>3. CASE curr \notin InitRuns
    BY <1>6, <2>1, <2>3 DEF Loads
  <2> QED BY <2>2, <2>3
<1>8. \A p \in Range(Processes), m \in Range(Modules) :
        /\ load[p][m] = "none" => ld[p][m] = "none"
        /\ ld[p][m] \notin {"none", "initializing"} => ld[p][m] = load[p][m]
        /\ ld[p][m] = "initializing" =>
             load[p][m] = "initializing" /\ (InitRun(p, m, 2) \in Range(queue) => q = queue /\ ld = load)
  BY CanceledLemma DEF Pending
<1>9. \A p \in Range(Processes), m \in Range(Modules) :
        /\ InitRun(p, m, 2) \in InitRuns /\ InitRun(p, m, 2) \in Runs
        /\ InitRun(p, m, 2).proc = p /\ InitRun(p, m, 2).mod = m /\ InitRun(p, m, 2).fn = 2
  <2>1. \A p \in Range(Processes), m \in Range(Modules) : InitRun(p, m, 2) \in InitRuns
    BY DEF InitRuns
  <2> QED BY <2>1 DEF InitRun, Runs
<1>10. \A p \in Range(Processes), m \in HasTls :
        /\ InitRun(p, m, 1) \in InitRuns /\ InitRun(p, m, 1) \in Runs /\ m \in Range(Modules)
        /\ InitRun(p, m, 1).proc = p /\ InitRun(p, m, 1).mod = m /\ InitRun(p, m, 1).fn = 1
  <2>1. \A p \in Range(Processes), m \in HasTls : InitRun(p, m, 1) \in InitRuns /\ m \in Range(Modules)
    BY ObjectsAssumption DEF InitRuns
  <2> QED BY <2>1 DEF InitRun, Runs
<1>11. \A r \in InitRuns : r \in Runs /\ r.proc \in Range(Processes) /\ r.mod \in Range(Modules)
                           /\ r.fn \in {1, 2} /\ r = InitRun(r.proc, r.mod, r.fn) /\ (r.fn = 1 => r.mod \in HasTls)
  BY InitRunType
\* What the order of the queue says of the module of the current run.
<1>12. \A r \in InitRuns : r \in Range(queue) /\ Mine(r.proc, r.mod) => curr.fn # 2
  BY DEF MayPrecede
<1>13. \A r \in InitRuns : Mine(r.proc, r.mod) <=> curr \in InitRuns /\ r \in OfModule(curr)
  BY DEF OfModule
<1> HIDE DEF Mine
\* The conjuncts of EndsLoad.
<1>14. \A j \in Later, m \in Range(Modules) : load'[Processes[j]][m] = "none"
  <2> SUFFICES ASSUME NEW j \in Later, NEW m \in Range(Modules)
               PROVE  load'[Processes[j]][m] = "none"
    OBVIOUS
  <2>1. Processes[j] \in Range(Processes) /\ load[Processes[j]][m] = "none"
    BY DEF Later, Range, LoadInv, LoadsBegin
  <2>2. curr \in InitRuns => curr.proc # Processes[j]
    BY DEF QueueInv, Fresh
  <2>3. ~Mine(Processes[j], m)
    BY <2>2 DEF Mine
  <2> QED BY <1>7, <1>8, <2>1, <2>3
<1>15. ~emuComplete' => \A p \in Range(Processes), m \in Range(Modules) :
                          load[p][m] # "none" => load'[p][m] # "none"
  <2> SUFFICES ASSUME ~emuComplete', NEW p \in Range(Processes), NEW m \in Range(Modules), load[p][m] # "none"
               PROVE  load'[p][m] # "none"
    OBVIOUS
  <2>1. rest # <<>>
    BY <1>4
  <2>2. Range(rest) # {}
    BY <2>1, EmptyRange
  <2>3. ld = load
    BY <1>2, <2>2
  <2>4. CASE Mine(p, m)
    BY <1>7, <2>3, <2>4 DEF Mine
  <2>5. CASE ~Mine(p, m)
    BY <1>7, <2>3, <2>5
  <2> QED BY <2>4, <2>5
<1>16. \A r \in InitRuns : r \in Range(rest) =>
         State(r)' = "initializing" /\ ld = load /\ r \in Range(queue) /\ (Mine(r.proc, r.mod) => ~failed /\ curr.fn # 2)
  <2> SUFFICES ASSUME NEW r \in InitRuns, r \in Range(rest)
               PROVE  State(r)' = "initializing" /\ ld = load /\ r \in Range(queue)
                      /\ (Mine(r.proc, r.mod) => ~failed /\ curr.fn # 2)
    OBVIOUS
  <2>1. ld = load /\ r \in Range(queue)
    BY <1>2
  <2>2. load[r.proc][r.mod] = "initializing"
    BY <2>1 DEF LoadInv, WaitingIsInitializing, State, Waiting
  <2>3. Mine(r.proc, r.mod) => ~failed /\ curr.fn # 2
    BY <1>2, <1>12, <1>13, <2>1
  <2>4. load'[r.proc][r.mod] = "initializing"
    <3>1. CASE Mine(r.proc, r.mod)
      BY <1>7, <2>1, <2>2, <2>3, <3>1 DEF Mine
    <3>2. CASE ~Mine(r.proc, r.mod)
      BY <1>7, <1>11, <2>1, <2>2, <3>2
    <3> QED BY <3>1, <3>2
  <2> QED BY <2>1, <2>3, <2>4 DEF State
<1>17. \A r \in InitRuns : r \in Range(queue') \cup {curr'} /\ r # curr => State(r)' = "initializing"
  BY <1>4, <1>16
<1>18. Ord => \A p \in Range(Processes), m \in Range(Modules) :
                load'[p][m] = "initializing" =>
                  /\ InitRun(p, m, 2) \in Range(queue') \cup {curr'}
                  /\ completed'[InitRun(p, m, 2)] = 0
  <2> SUFFICES ASSUME Ord, NEW p \in Range(Processes), NEW m \in Range(Modules), load'[p][m] = "initializing"
               PROVE  /\ InitRun(p, m, 2) \in Range(queue') \cup {curr'}
                      /\ completed'[InitRun(p, m, 2)] = 0
    OBVIOUS
  <2>1. Mine(p, m) => ~failed /\ curr.fn # 2
    BY <1>7 DEF Mine
  <2>2. ld[p][m] = "initializing"
    BY <1>7, <2>1 DEF Mine
  <2>3. load[p][m] = "initializing"
    BY <1>8, <2>2
  <2>4. InitRun(p, m, 2) \in Range(queue) \cup {curr} /\ completed[InitRun(p, m, 2)] = 0
    BY <2>3 DEF LoadInv, DllMainIsLeft
  <2>5. InitRun(p, m, 2) # curr
    BY <1>9, <2>1 DEF Mine
  <2>6. InitRun(p, m, 2) \in Range(q)
    BY <1>8, <2>2, <2>4, <2>5
  <2>7. InitRun(p, m, 2) \in Range(rest)
    BY <1>2, <1>9, <1>13, <2>1, <2>6, <1>6
  <2> QED BY <1>4, <1>5, <1>9, <2>4, <2>5, <2>7
<1>19. Ord => \A p \in Range(Processes), m \in HasTls :
                InitRun(p, m, 2) \in (Range(queue') \cup {curr'}) \ {curr} =>
                  InitRun(p, m, 1) \in Range(queue') \cup {curr'} \/ Passed(InitRun(p, m, 1))'
  <2> SUFFICES ASSUME Ord, NEW p \in Range(Processes), NEW m \in HasTls,
                      InitRun(p, m, 2) \in (Range(queue') \cup {curr'}) \ {curr}
               PROVE  InitRun(p, m, 1) \in Range(queue') \cup {curr'} \/ Passed(InitRun(p, m, 1))'
    OBVIOUS
  <2>1. InitRun(p, m, 2) \in Range(rest)
    BY <1>4
  <2>2. InitRun(p, m, 2) \in Range(queue) /\ ld = load /\ (Mine(p, m) => ~failed)
    BY <1>9, <1>10, <1>16, <2>1
  <2>3. InitRun(p, m, 1) \in Range(queue) \cup {curr} \/ Passed(InitRun(p, m, 1))
    BY <2>2 DEF LoadInv, TlsBeforeDllMain, Waiting
  <2>4. CASE InitRun(p, m, 1) \in Range(queue)
    <3>1. InitRun(p, m, 1) \in Range(q)
      BY <1>2, <2>1, <2>4
    <3>2. InitRun(p, m, 1) \in Range(rest)
      BY <1>2, <1>6, <1>10, <1>13, <2>2, <3>1
    <3> QED BY <1>4, <3>2
  <2>5. CASE InitRun(p, m, 1) = curr
    <3>1. ~failed /\ e[curr] = "none" /\ completed[curr] = 0
      BY <1>6, <1>10, <2>2, <2>5 DEF Mine
    <3>2. completed'[curr] = 1 /\ err'[curr] = "none"
      BY <1>5, <3>1
    <3> QED BY <2>5, <3>2 DEF Passed
  <2>6. CASE InitRun(p, m, 1) # curr /\ Passed(InitRun(p, m, 1))
    BY <1>5, <1>10, <2>6 DEF Passed
  <2> QED BY <2>3, <2>4, <2>5, <2>6
<1>20. ~aborted => ReadyHasPassed'
  <2> SUFFICES ASSUME ~aborted, NEW r \in InitRuns, load'[r.proc][r.mod] = "ready"
               PROVE  completed'[r] = 1 /\ err'[r] = "none"
    BY DEF ReadyHasPassed, State, Passed
  <2>1. CASE ~Mine(r.proc, r.mod)
    <3>1. load[r.proc][r.mod] = "ready"
      BY <1>7, <1>8, <1>11, <2>1
    <3>2. Passed(r)
      BY <3>1 DEF LoadInv, ReadyHasPassed, State
    <3>3. r # curr
      BY <2>1 DEF Mine
    <3> QED BY <1>5, <1>11, <3>2, <3>3 DEF Passed
  <2>2. CASE Mine(r.proc, r.mod)
    <3>1. curr \in InitRuns /\ ~failed /\ e[curr] = "none"
      BY <1>6, <1>7, <2>2 DEF Mine
    <3>2. CurrPending /\ Ord /\ completed[curr] = 0 /\ ld = load
      BY <3>1
    <3>3. load[curr.proc][curr.mod] = "initializing"
      BY <3>1, <3>2 DEF LoadInv, WaitingIsInitializing, Waiting, State
    <3>4. curr.fn = 2
      BY <1>7, <2>2, <3>1, <3>2, <3>3 DEF Mine
    <3>5. completed'[curr] = 1 /\ err'[curr] = "none"
      BY <1>5, <3>1, <3>2
    <3>6. CASE r.fn = 2
      BY <1>11, <2>2, <3>1, <3>4, <3>5, <3>6 DEF Mine
    <3>7. CASE r.fn = 1
      <4>1. r = InitRun(r.proc, r.mod, 1) /\ r.mod \in HasTls /\ curr = InitRun(r.proc, r.mod, 2)
        BY <1>11, <2>2, <3>1, <3>4, <3>7 DEF Mine
      <4>2. r \in Range(queue) \cup {curr} \/ Passed(r)
        BY <1>11, <3>2, <4>1 DEF LoadInv, TlsBeforeDllMain, Waiting
      <4>3. r \notin Range(queue) /\ r # curr
        BY <1>12, <2>2, <3>4, <3>7
      <4> QED BY <1>5, <1>11, <4>2, <4>3 DEF Passed
    <3> QED BY <1>11, <3>6, <3>7
  <2> QED BY <2>1, <2>2
<1>21. curr \notin Range(queue')
  BY <1>2, <1>3, <1>4
<1> QED BY <1>4, <1>14, <1>15, <1>17, <1>18, <1>19, <1>20, <1>21 DEF EndsLoad

\* The same for a limit, which is an error, so that an initializer fails.
LEMMA StopAtLimitLoad ==
  ASSUME TypeInv, QueueInv, LoadInv, curr \in Runs, curr \in reported, pc \in Called,
         NEW kind, StopAtLimit(kind)
  PROVE  EndsLoad
<1> DEFINE e == FirstError(curr, "limit")
<1>1. /\ e \in [Runs -> Errors] /\ e[curr] # "none"
      /\ \A r \in Runs : r # curr => e[r] = err[r]
  BY DEF FirstError, TypeInv, TypeOK, Errors
<1>2. \/ CompleteRun(e, <<>>, {}, Canceled(Pending))
      \/ CompleteRun(e, queue, suspended, load)
  BY Zenon DEF StopAtLimit
<1>3. /\ <<>> \in Seq(Runs) /\ queue \in Seq(Runs)
      /\ load \in Loads /\ Canceled(Pending) \in Loads
  BY EmptyLemma, ArgumentTypes
<1>4. \A r \in Range(queue) : <<curr, r>> \in MayPrecede
  BY DEF QueueInv
<1> HIDE DEF e
<1>5. CASE CompleteRun(e, <<>>, {}, Canceled(Pending))
  BY <1>1, <1>3, <1>4, <1>5, CompleteRunLoad
<1>6. CASE CompleteRun(e, queue, suspended, load)
  BY <1>1, <1>3, <1>4, <1>6, CompleteRunLoad
<1> QED BY <1>2, <1>5, <1>6

\* The current run is completed, and the next one is current.
LEMMA EndsLoadStep ==
  ASSUME LoadInv, EndsLoad, UNCHANGED <<proc, aborted>>, Later' \subseteq Later,
         Running' => Running, CurrPending' => curr' # curr, Ord' => Ord,
         proc \in DOMAIN Processes
  PROVE  LoadInv'
<1>1. Waiting' \subseteq (Range(queue') \cup {curr'}) \ {curr}
  BY DEF EndsLoad, Waiting
<1>2. LoadsBegin'
  <2>1. Processes[proc] \in Range(Processes)
    BY DEF Range
  <2>2. Running' => ~emuComplete'
    BY DEF Running
  <2> QED BY <2>1, <2>2 DEF LoadInv, LoadsBegin, EndsLoad
<1>3. WaitingIsInitializing'
  BY <1>1 DEF WaitingIsInitializing, EndsLoad
<1>4. Ord' => DllMainIsLeft'
  BY DEF DllMainIsLeft, EndsLoad
<1>5. Ord' => TlsBeforeDllMain'
  BY <1>1 DEF TlsBeforeDllMain, EndsLoad
<1>6. ~aborted' => ReadyHasPassed'
  BY DEF EndsLoad
<1> QED BY <1>2, <1>3, <1>4, <1>5, <1>6 DEF LoadInv, EndsLoad

\* All runs that wait are cancelled, rs among them, and no run is current any more.
LEMMA CancelLoad ==
  ASSUME TypeInv, LoadInv, NEW rs, Pending \subseteq rs, load' = Canceled(rs), queue' = <<>>,
         UNCHANGED <<completed, proc, aborted>>, Later' \subseteq Later,
         ~Running', ~CurrPending', Ord' => Ord,
         curr' \in Runs => curr' \in reported', curr' = curr \/ curr \in rs,
         \A r \in InitRuns : err'[r] = err[r] \/ completed[r] # 1
  PROVE  LoadInv'
<1>1. Range(queue') = {} /\ Waiting' = {}
  BY EmptyLemma DEF Waiting
<1>2. LoadsBegin'
  <2>1. \A j \in Later : Processes[j] \in Range(Processes)
    BY DEF Later, Range
  <2> QED BY <2>1, CanceledLemma DEF LoadInv, LoadsBegin
<1>3. WaitingIsInitializing' /\ TlsBeforeDllMain'
  BY <1>1 DEF WaitingIsInitializing, TlsBeforeDllMain
<1>4. Ord' => DllMainIsLeft'
  <2> SUFFICES ASSUME Ord', NEW p \in Range(Processes), NEW m \in Range(Modules), load'[p][m] = "initializing"
               PROVE  InitRun(p, m, 2) \in Range(queue') \cup {curr'} /\ completed'[InitRun(p, m, 2)] = 0
    BY DEF DllMainIsLeft
  <2>1. load[p][m] = "initializing" /\ InitRun(p, m, 2) \notin rs
    BY CanceledLemma
  <2>2. InitRun(p, m, 2) \in Range(queue) \cup {curr} /\ completed[InitRun(p, m, 2)] = 0
    BY <2>1 DEF LoadInv, DllMainIsLeft
  <2> QED BY <2>1, <2>2 DEF Pending
<1>5. ~aborted' => ReadyHasPassed'
  <2> SUFFICES ASSUME ~aborted, NEW r \in InitRuns, load'[r.proc][r.mod] = "ready"
               PROVE  completed'[r] = 1 /\ err'[r] = "none"
    BY DEF ReadyHasPassed, State, Passed
  <2>1. load[r.proc][r.mod] = "ready"
    BY CanceledLemma, InitRunType
  <2> QED BY <2>1 DEF LoadInv, ReadyHasPassed, State, Passed
<1> QED BY <1>2, <1>3, <1>4, <1>5 DEF LoadInv

\* Every step keeps the invariant of the load states.
LEMMA LoadStep == RunInv /\ RunInv' /\ LoadInv /\ [Next]_vars => LoadInv'
<1> SUFFICES ASSUME TypeInv, Control, ExitInv, QueueInv, ErrorInv, EndInv, LoadInv,
                    TypeInv', Control', QueueInv', [Next]_vars
             PROVE  LoadInv'
  BY DEF RunInv, LoopInv
<1>a. /\ err \in [Runs -> Errors] /\ completed \in [Runs -> Nat]
      /\ runComplete \in BOOLEAN /\ emuComplete \in BOOLEAN /\ aborted \in BOOLEAN /\ exitEvent \in BOOLEAN
      /\ proc \in DOMAIN Processes /\ queue \in Seq(Runs)
  BY DEF TypeInv, TypeOK
<1>b. \A r \in InitRuns : r \in Runs
  BY InitRunType
<1>1. CASE StartExhausted
  <2>1. /\ load' = Canceled(Pending) /\ queue' = <<>>
        /\ UNCHANGED <<completed, curr, reported, err, proc, aborted>>
    BY <1>1 DEF StartExhausted, runVars, countVars, timeVars, loopVars
  <2>2. Later' \subseteq Later /\ (Ord' => Ord) /\ ~Running' /\ ~CurrPending'
    BY <1>1 DEF StartExhausted, runVars, countVars, timeVars, loopVars, Running, CurrPending,
       Ord, Later, Body, InCall, Called
  <2> QED BY <2>1, <2>2, CancelLoad DEF LoadInv
<1>2. CASE StartWithoutRuns
  <2>1. /\ UNCHANGED <<load, completed, curr, reported, err, queue, proc>>
        /\ Later' \subseteq Later /\ (aborted => aborted')
    BY <1>2 DEF StartWithoutRuns, runVars, countVars, timeVars, loopVars, Running, CurrPending,
       Ord, Later, Body, InCall, Called
  <2>2. (Running' => Running) /\ (CurrPending' => CurrPending) /\ (Ord' => Ord)
    BY <1>2 DEF StartWithoutRuns, Control, runVars, countVars, timeVars, loopVars, Running,
       CurrPending, Ord, Later, Body, InCall, Called
  <2> QED BY <2>1, <2>2, LoadKept
<1>3. CASE Start
  <2> DEFINE p == Processes[proc]
             q == Initializers(p) \o queue
  <2>1. p \in Range(Processes)
    BY <1>a DEF Range
  <2>2. /\ Initializers(p) \in Seq(Runs)
        /\ Range(Initializers(p)) = {r \in InitRuns : r.proc = p /\ load[p][r.mod] = "none"}
    BY <2>1, InitializersLemma
  <2>3. /\ pc = "start" /\ pc' = "outer" /\ queue # <<>>
        /\ load' = [load EXCEPT ![p] = [m \in Range(Modules) |->
                       IF load[p][m] = "none" THEN "initializing" ELSE load[p][m]]]
        /\ curr' = Head(q) /\ queue' = Tail(q) /\ reported' = reported \cup {Head(q)}
        /\ UNCHANGED <<completed, err, proc, exitEvent, aborted>>
    BY <1>3 DEF Start, loopVars
  <2>4. q \in Seq(Runs) /\ Range(q) = Range(Initializers(p)) \cup Range(queue) /\ q # <<>>
    BY <1>a, <2>2, <2>3, ConcatLemma
  <2> HIDE DEF q
  <2>5. curr' \in reported' /\ Range(queue') \cup {curr'} = Range(q)
    BY <2>3, <2>4, HeadLemma
  <2>6. \A m \in Range(Modules) : load[p][m] = "none"
    BY <1>a, <2>3 DEF LoadInv, LoadsBegin, Later
  <2>7. /\ \A m \in Range(Modules) : load'[p][m] = "initializing"
        /\ \A s \in Range(Processes) : s # p => load'[s] = load[s]
    BY <2>1, <2>3, <2>6 DEF TypeInv, TypeOK
  <2>8. Range(Initializers(p)) = {r \in InitRuns : r.proc = p}
    BY <2>2, <2>6, InitRunType
  <2> HIDE DEF p
  <2>9. \A j \in Later' : j \in Later /\ Processes[j] \in Range(Processes) /\ Processes[j] # p
    BY <1>a, <2>3, ObjectsAssumption DEF Later, IsInjective, Range, p
  <2>10. LoadsBegin'
    BY <2>3, <2>7, <2>9 DEF LoadInv, LoadsBegin, p
  <2>11. \A r \in InitRuns : r.proc = p => r \notin Range(queue) /\ r \notin reported
    <3>1. proc \in Later
      BY <1>a, <2>3 DEF Later
    <3> QED BY <3>1 DEF QueueInv, Fresh, p
  <2>12. WaitingIsInitializing'
    <3> SUFFICES ASSUME NEW r \in InitRuns, r \in Waiting'
                 PROVE  load'[r.proc][r.mod] = "initializing"
      BY DEF WaitingIsInitializing, State
    <3>1. r \in Range(q)
      BY <2>5 DEF Waiting
    <3>2. CASE r.proc = p
      BY <2>7, <3>2, InitRunType
    <3>3. CASE r.proc # p
      <4>1. r \in Range(queue)
        BY <2>4, <2>8, <3>1, <3>3
      <4>2. load[r.proc][r.mod] = "initializing"
        BY <4>1 DEF LoadInv, WaitingIsInitializing, Waiting, State
      <4> QED BY <2>7, <3>3, <4>2, InitRunType
    <3> QED BY <3>2, <3>3
  <2>13. \A s \in Range(Processes), m \in Range(Modules) :
           /\ InitRun(s, m, 2) \in InitRuns /\ InitRun(s, m, 2) \in Runs
           /\ InitRun(s, m, 2).proc = s
    <3>1. \A s \in Range(Processes), m \in Range(Modules) : InitRun(s, m, 2) \in InitRuns
      BY DEF InitRuns
    <3> QED BY <3>1 DEF InitRun, Runs
  <2>14. Ord' => ~aborted /\ ~exitEvent /\ Ord
    BY <2>3 DEF Ord, Body, InCall
  <2>15. Ord' => Range(queue) \cap InitRuns = {}
    BY <2>3, <2>14 DEF EndInv, NothingDropped
  <2>16. Ord' => DllMainIsLeft'
    <3> SUFFICES ASSUME Ord', NEW s \in Range(Processes), NEW m \in Range(Modules),
                        load'[s][m] = "initializing"
                 PROVE  InitRun(s, m, 2) \in Range(queue') \cup {curr'} /\ completed'[InitRun(s, m, 2)] = 0
      BY DEF DllMainIsLeft
    <3>1. CASE s = p
      BY <2>3, <2>4, <2>5, <2>8, <2>11, <2>13, <3>1 DEF ErrorInv, Untouched
    <3>2. CASE s # p
      <4>1. load[s][m] = "initializing"
        BY <2>7, <3>2
      <4>2. InitRun(s, m, 2) \in Range(queue) \cup {curr} /\ completed[InitRun(s, m, 2)] = 0
        BY <2>14, <4>1 DEF LoadInv, DllMainIsLeft
      <4>3. InitRun(s, m, 2) = curr
        BY <2>13, <2>15, <4>2
      <4>4. curr \in reported
        BY <2>13, <4>3 DEF LoadInv
      <4>5. completed[curr] > 0
        BY <2>3, <2>14, <4>4 DEF EndInv, NothingDropped
      <4> QED BY <4>2, <4>3, <4>5
    <3> QED BY <3>1, <3>2
  <2>17. Ord' => TlsBeforeDllMain'
    <3> SUFFICES ASSUME Ord', NEW s \in Range(Processes), NEW m \in HasTls,
                        InitRun(s, m, 2) \in Waiting'
                 PROVE  InitRun(s, m, 1) \in Range(queue') \cup {curr'}
      BY DEF TlsBeforeDllMain
    <3>1. InitRun(s, m, 2) \in Range(q) /\ m \in Range(Modules)
      BY <2>5, ObjectsAssumption DEF Waiting
    <3>2. s = p
      BY <2>4, <2>8, <2>13, <2>15, <3>1
    <3>3. InitRun(s, m, 1) \in InitRuns
      BY DEF InitRuns
    <3>4. InitRun(s, m, 1).proc = s
      BY DEF InitRun
    <3> QED BY <2>4, <2>5, <2>8, <3>2, <3>3, <3>4
  <2>18. ~aborted' => ReadyHasPassed'
    <3> SUFFICES ASSUME ~aborted, NEW r \in InitRuns, load'[r.proc][r.mod] = "ready"
                 PROVE  completed'[r] = 1 /\ err'[r] = "none"
      BY <2>3 DEF ReadyHasPassed, State, Passed
    <3>1. load[r.proc][r.mod] = "ready"
      BY <2>7, InitRunType
    <3> QED BY <2>3, <3>1 DEF LoadInv, ReadyHasPassed, State, Passed
  <2> QED BY <2>5, <2>10, <2>12, <2>16, <2>17, <2>18 DEF LoadInv
<1>4. CASE EnterCall
  <2>1. /\ UNCHANGED <<load, completed, curr, reported, err, queue, proc>>
        /\ Later' \subseteq Later /\ (aborted => aborted')
    BY <1>4 DEF EnterCall, runVars, countVars, timeVars, loopVars, Running, CurrPending, Ord,
       Later, Body, InCall, Called
  <2>2. (Running' => Running) /\ (CurrPending' => CurrPending) /\ (Ord' => Ord)
    BY <1>4 DEF EnterCall, Control, runVars, countVars, timeVars, loopVars, Running,
       CurrPending, Ord, Later, Body, InCall, Called
  <2> QED BY <2>1, <2>2, LoadKept
<1>5. CASE EndAtTotalBudget
  <2>1. curr \in Runs /\ curr \in reported /\ \A r \in Range(queue) : <<curr, r>> \in MayPrecede
    BY <1>5 DEF EndAtTotalBudget, TypeInv, QueueInv, Called
  <2>2. /\ UNCHANGED <<proc, aborted>> /\ Later' \subseteq Later /\ (Ord' => Ord)
        /\ ~Running' /\ ~CurrPending'
    BY <1>5 DEF EndAtTotalBudget, runVars, countVars, timeVars, loopVars, Running, CurrPending,
       Ord, Later, Body, InCall, Called
  <2>3. CASE runComplete
    <3>1. /\ load' = Canceled(Pending) /\ queue' = <<>>
          /\ UNCHANGED <<completed, curr, reported, err>>
      BY <1>5, <2>3 DEF EndAtTotalBudget
    <3> QED BY <2>1, <2>2, <3>1, CancelLoad
  <2>4. CASE ~runComplete
    <3>1. CompleteRun(err, <<>>, {}, Canceled(Pending)) /\ err[curr] # "none"
      BY <1>5, <2>4 DEF EndAtTotalBudget, ErrorInv
    <3>2. /\ <<>> \in Seq(Runs) /\ Canceled(Pending) \in Loads
      BY EmptyLemma, ArgumentTypes
    <3>3. EndsLoad
      BY <1>a, <2>1, <3>1, <3>2, CompleteRunLoad
    <3> QED BY <1>a, <2>2, <3>3, EndsLoadStep
  <2> QED BY <2>3, <2>4
<1>6. CASE NextTurn
  <2>1. /\ UNCHANGED <<load, completed, curr, reported, err, queue, proc>>
        /\ Later' \subseteq Later /\ (aborted => aborted')
    BY <1>6 DEF NextTurn, runVars, countVars, timeVars, loopVars, Running, CurrPending, Ord,
       Later, Body, InCall, Called
  <2>2. (Running' => Running) /\ (CurrPending' => CurrPending) /\ (Ord' => Ord)
    BY <1>6 DEF NextTurn, Control, runVars, countVars, timeVars, loopVars, Running, CurrPending,
       Ord, Later, Body, InCall, Called
  <2> QED BY <2>1, <2>2, LoadKept
<1>7. CASE ExceptionEndsRun
  <2>1. curr \in Runs /\ curr \in reported /\ \A r \in Range(queue) : <<curr, r>> \in MayPrecede
    BY <1>7 DEF ExceptionEndsRun, TypeInv, QueueInv, Called, InCall
  <2>2. /\ SetError(curr, "internal_error") \in [Runs -> Errors]
        /\ \A r \in Runs : r # curr => SetError(curr, "internal_error")[r] = err[r]
    BY <1>a, <2>1 DEF SetError, Errors
  <2>3. SetError(curr, "internal_error")[curr] = "none" /\ curr \in InitRuns =>
          CurrPending /\ (~aborted => Ord) /\ completed[curr] = 0
    BY <1>7, <1>a, <2>1 DEF ExceptionEndsRun, SetError, Control, ErrorInv, Running, CurrPending,
       Ord, Later, Body, InCall, Called
  <2>4. CompleteRun(SetError(curr, "internal_error"), queue, suspended, load)
    BY <1>7 DEF ExceptionEndsRun
  <2>5. EndsCurr(SetError(curr, "internal_error"))
    BY <2>1, <2>2, <2>4, ArgumentTypes, CompleteRunEnds DEF QueueInv
  <2>6. EndsLoad
    BY <2>1, <2>2, <2>3, <2>4, ArgumentTypes, CompleteRunLoad
  <2>7. UNCHANGED <<proc, aborted>> /\ Later' \subseteq Later /\ (Ord' => Ord)
    BY <1>7 DEF ExceptionEndsRun, runVars, countVars, timeVars, loopVars, Running, CurrPending,
       Ord, Later, Body, InCall, Called
  <2>8. ~emuComplete' => queue # <<>>
    <3>1. ~emuComplete' => curr' # curr
      BY <2>1, <2>5 DEF EndsCurr
    <3>2. curr' = curr \/ curr' \in Range(queue)
      BY <2>4, ArgumentTypes, CompleteRunQueue DEF QueueInv
    <3> QED BY <3>1, <3>2, EmptyLemma
  <2>9. (Running' => Running) /\ (CurrPending' => curr' # curr)
    BY <1>7, <2>1, <2>5, <2>8 DEF ExceptionEndsRun, EndsCurr, Control, runVars, countVars,
       timeVars, loopVars, Running, CurrPending, Ord, Later, Body, InCall, Called
  <2> QED BY <1>a, <2>6, <2>7, <2>9, EndsLoadStep
<1>8. CASE ExceptionAfterExitEvent
  <2>1. /\ UNCHANGED <<load, completed, curr, reported, err, queue, proc>>
        /\ Later' \subseteq Later /\ (aborted => aborted')
    BY <1>8 DEF ExceptionAfterExitEvent, runVars, countVars, timeVars, loopVars, Running,
       CurrPending, Ord, Later, Body, InCall, Called
  <2>2. (Running' => Running) /\ (CurrPending' => CurrPending) /\ (Ord' => Ord)
    BY <1>8 DEF ExceptionAfterExitEvent, Control, runVars, countVars, timeVars, loopVars,
       Running, CurrPending, Ord, Later, Body, InCall, Called
  <2> QED BY <2>1, <2>2, LoadKept
<1>9. CASE Done
  <2>1. /\ UNCHANGED <<load, completed, curr, reported, err, queue, proc>>
        /\ Later' \subseteq Later /\ (aborted => aborted')
    BY <1>9 DEF Done, runVars, countVars, timeVars, loopVars, Running, CurrPending, Ord, Later,
       Body, InCall, Called
  <2>2. (Running' => Running) /\ (CurrPending' => CurrPending) /\ (Ord' => Ord)
    BY <1>9 DEF Done, Control, runVars, countVars, timeVars, loopVars, Running, CurrPending,
       Ord, Later, Body, InCall, Called
  <2> QED BY <2>1, <2>2, LoadKept
<1>10. CASE NextChild
  <2>1. UNCHANGED <<load, completed, curr, reported, err, aborted>>
    BY <1>10 DEF NextChild, runVars, countVars, timeVars, loopVars
  <2>2. Later' \subseteq Later /\ ~Running' /\ ~CurrPending' /\ (Ord' => Ord)
    BY <1>10, <1>a, ObjectsAssumption DEF NextChild, runVars, countVars, timeVars, loopVars,
       Running, CurrPending, Ord, Later, Body, InCall, Called
  <2>3. Processes[proc + 1] \in Range(Processes)
    BY <1>10, <1>a, ObjectsAssumption DEF NextChild, Range
  <2>4. EntryRuns[Processes[proc + 1]] \in Seq(Runs) /\ Range(EntryRuns[Processes[proc + 1]]) \cap InitRuns = {}
    BY <2>3, EntryRunsType, ObjectsAssumption DEF MainRuns
  <2>5. \A r \in InitRuns : r \in Range(queue') <=> r \in Range(queue)
    BY <1>10, <1>a, <2>4, ConcatLemma DEF NextChild
  <2> QED BY <2>1, <2>2, <2>5, LoadKept
<1>11. CASE LoopEnds
  <2>1. /\ UNCHANGED <<load, completed, curr, reported, err, queue, proc>>
        /\ Later' \subseteq Later /\ (aborted => aborted')
    BY <1>11 DEF LoopEnds, runVars, countVars, timeVars, loopVars, Running, CurrPending, Ord,
       Later, Body, InCall, Called
  <2>2. (Running' => Running) /\ (CurrPending' => CurrPending) /\ (Ord' => Ord)
    BY <1>11 DEF LoopEnds, Control, runVars, countVars, timeVars, loopVars, Running,
       CurrPending, Ord, Later, Body, InCall, Called
  <2> QED BY <2>1, <2>2, LoadKept
<1>12. CASE LoopAtLimit
  <2>1. curr \in Runs /\ curr \in reported /\ pc \in Called
    BY <1>12 DEF LoopAtLimit, TypeInv, QueueInv, Called, InCall
  <2>2. EndsCurr(FirstError(curr, "limit"))
    BY <1>12, <2>1, StopAtLimitEnds DEF LoopAtLimit
  <2>3. EndsLoad
    BY <1>12, <2>1, StopAtLimitLoad DEF LoopAtLimit
  <2>4. UNCHANGED <<proc, aborted>> /\ Later' \subseteq Later /\ (Ord' => Ord)
    BY <1>12 DEF LoopAtLimit, runVars, countVars, timeVars, loopVars, Running, CurrPending, Ord,
       Later, Body, InCall, Called
  <2>5. (Running' => Running) /\ (CurrPending' => curr' # curr)
    BY <1>12, <2>1, <2>2 DEF LoopAtLimit, EndsCurr, Control, runVars, countVars, timeVars,
       loopVars, Running, CurrPending, Ord, Later, Body, InCall, Called
  <2> QED BY <1>a, <2>3, <2>4, <2>5, EndsLoadStep
<1>13. CASE StartUnicorn
  <2>1. /\ UNCHANGED <<load, completed, curr, reported, err, queue, proc>>
        /\ Later' \subseteq Later /\ (aborted => aborted')
    BY <1>13 DEF StartUnicorn, runVars, countVars, timeVars, loopVars, Running, CurrPending,
       Ord, Later, Body, InCall, Called
  <2>2. (Running' => Running) /\ (CurrPending' => CurrPending) /\ (Ord' => Ord)
    BY <1>13 DEF StartUnicorn, Control, runVars, countVars, timeVars, loopVars, Running,
       CurrPending, Ord, Later, Body, InCall, Called
  <2> QED BY <2>1, <2>2, LoadKept
<1>14. CASE LoopHandlesExit
  <2>1. /\ UNCHANGED <<load, completed, curr, reported, err, queue, proc>>
        /\ Later' \subseteq Later /\ (aborted => aborted')
    BY <1>14 DEF LoopHandlesExit, runVars, countVars, timeVars, loopVars, Running, CurrPending,
       Ord, Later, Body, InCall, Called
  <2>2. (Running' => Running) /\ (CurrPending' => CurrPending) /\ (Ord' => Ord)
    BY <1>14 DEF LoopHandlesExit, Control, runVars, countVars, timeVars, loopVars, Running,
       CurrPending, Ord, Later, Body, InCall, Called
  <2> QED BY <2>1, <2>2, LoadKept
<1>15. CASE UnicornStopped
  <2>1. /\ UNCHANGED <<load, completed, curr, reported, err, queue, proc>>
        /\ Later' \subseteq Later /\ (aborted => aborted')
    BY <1>15 DEF UnicornStopped, runVars, countVars, timeVars, loopVars, Running, CurrPending,
       Ord, Later, Body, InCall, Called
  <2>2. (Running' => Running) /\ (CurrPending' => CurrPending) /\ (Ord' => Ord)
    BY <1>15 DEF UnicornStopped, Control, runVars, countVars, timeVars, loopVars, Running,
       CurrPending, Ord, Later, Body, InCall, Called
  <2> QED BY <2>1, <2>2, LoadKept
<1>16. CASE StopWithoutExit
  <2>1. /\ curr \in Runs /\ curr \in reported /\ pc \in Called
        /\ \A r \in Range(queue) : <<curr, r>> \in MayPrecede
    BY <1>16 DEF StopWithoutExit, TypeInv, QueueInv, Called, InCall
  <2>2. CASE UNCHANGED <<runVars, exhausted>> /\ runComplete
    <3>1. /\ UNCHANGED <<load, completed, curr, reported, err, queue, proc>>
          /\ Later' \subseteq Later /\ (aborted => aborted')
      BY <1>16, <2>2 DEF StopWithoutExit, runVars, countVars, timeVars, loopVars, Running,
         CurrPending, Ord, Later, Body, InCall, Called
    <3>2. (Running' => Running) /\ (CurrPending' => CurrPending) /\ (Ord' => Ord)
      BY <1>16, <2>2 DEF StopWithoutExit, Control, runVars, countVars, timeVars, loopVars,
         Running, CurrPending, Ord, Later, Body, InCall, Called
    <3> QED BY <3>1, <3>2, LoadKept
  <2>3. CASE /\ curr = origin /\ ~emuComplete
             /\ StopAtLimit(ReachedLimit) \/ CompleteRun(SetError(curr, "fault"), queue, suspended, load)
    <3>1. /\ SetError(curr, "fault") \in [Runs -> Errors]
          /\ \A r \in Runs : r # curr => SetError(curr, "fault")[r] = err[r]
      BY <1>a, <2>1 DEF SetError, Errors
    <3>2. EndsCurr(FirstError(curr, "limit")) \/ EndsCurr(SetError(curr, "fault"))
      BY <2>1, <2>3, <3>1, ArgumentTypes, StopAtLimitEnds, CompleteRunEnds DEF QueueInv
    <3>3. /\ pc \in {"stopped", "dispatched"} /\ pc' \in {"handled", "finish"}
          /\ UNCHANGED <<proc, origin, aborted, exitEvent>>
      BY <1>16 DEF StopWithoutExit
    <3>4. SetError(curr, "fault")[curr] = "none" /\ curr \in InitRuns =>
            CurrPending /\ (~aborted => Ord) /\ completed[curr] = 0
      BY <1>16, <1>a, <2>1, <2>3, <3>3 DEF StopWithoutExit, ErrorInv, Running, CurrPending, Ord,
         Later, Body, InCall, Called
    <3>5. EndsLoad
      BY <2>1, <2>3, <3>1, <3>4, ArgumentTypes, StopAtLimitLoad, CompleteRunLoad
    <3>6. Later' \subseteq Later /\ (Ord' => Ord)
      BY <3>3 DEF Running, CurrPending, Ord, Later, Body, InCall, Called
    <3>7. (Running' => Running) /\ (CurrPending' => curr' # curr)
      BY <2>1, <2>3, <3>2, <3>3 DEF EndsCurr, Control, Running, CurrPending, Ord, Later, Body,
         InCall, Called
    <3> QED BY <1>a, <3>3, <3>5, <3>6, <3>7, EndsLoadStep
  <2> QED BY <1>16, <2>2, <2>3 DEF StopWithoutExit
<1>17. CASE HandleCpuException
  <2>1. /\ UNCHANGED <<load, completed, curr, reported, queue, proc>>
        /\ Later' \subseteq Later /\ (aborted => aborted')
    BY <1>17 DEF HandleCpuException, runVars, countVars, timeVars, loopVars, Running,
       CurrPending, Ord, Later, Body, InCall, Called
  <2>2. (Running' => Running) /\ (CurrPending' => CurrPending) /\ (Ord' => Ord)
    BY <1>17 DEF HandleCpuException, Control, runVars, countVars, timeVars, loopVars, Running,
       CurrPending, Ord, Later, Body, InCall, Called
  <2>3. \A r \in Runs : r # curr => err'[r] = err[r]
    BY <1>17, <1>a DEF HandleCpuException, Fail, SetError
  <2>4. completed[curr] = 0
    BY <1>17 DEF HandleCpuException, Control, ErrorInv, InCall
  <2>5. \A r \in InitRuns : err'[r] = err[r] \/ completed[r] # 1
    BY <1>b, <2>3, <2>4
  <2> QED BY <2>1, <2>2, <2>5, LoadKept
<1>18. CASE ApiAtLimit
  <2>1. curr \in Runs /\ curr \in reported /\ pc \in Called
    BY <1>18 DEF ApiAtLimit, TypeInv, QueueInv, Called, InCall
  <2>2. EndsCurr(FirstError(curr, "limit"))
    BY <1>18, <2>1, StopAtLimitEnds DEF ApiAtLimit
  <2>3. EndsLoad
    BY <1>18, <2>1, StopAtLimitLoad DEF ApiAtLimit
  <2>4. UNCHANGED <<proc, aborted>> /\ Later' \subseteq Later /\ (Ord' => Ord)
    BY <1>18 DEF ApiAtLimit, runVars, countVars, timeVars, loopVars, Running, CurrPending, Ord,
       Later, Body, InCall, Called
  <2>5. (Running' => Running) /\ (CurrPending' => curr' # curr)
    BY <1>18, <2>1, <2>2 DEF ApiAtLimit, EndsCurr, Control, runVars, countVars, timeVars,
       loopVars, Running, CurrPending, Ord, Later, Body, InCall, Called
  <2> QED BY <1>a, <2>3, <2>4, <2>5, EndsLoadStep
<1>19. CASE EnterApi
  <2>1. /\ UNCHANGED <<load, completed, curr, reported, err, queue, proc>>
        /\ Later' \subseteq Later /\ (aborted => aborted')
    BY <1>19 DEF EnterApi, runVars, countVars, timeVars, loopVars, Running, CurrPending, Ord,
       Later, Body, InCall, Called
  <2>2. (Running' => Running) /\ (CurrPending' => CurrPending) /\ (Ord' => Ord)
    BY <1>19 DEF EnterApi, Control, runVars, countVars, timeVars, loopVars, Running,
       CurrPending, Ord, Later, Body, InCall, Called
  <2> QED BY <2>1, <2>2, LoadKept
<1>20. CASE ExitAtTotalTime
  <2>1. curr \in Runs /\ curr \in reported /\ pc \in Called
    BY <1>20 DEF ExitAtTotalTime, TypeInv, QueueInv, Called, InCall
  <2>2. EndsCurr(FirstError(curr, "limit"))
    BY <1>20, <2>1, StopAtLimitEnds DEF ExitAtTotalTime
  <2>3. EndsLoad
    BY <1>20, <2>1, StopAtLimitLoad DEF ExitAtTotalTime
  <2>4. UNCHANGED <<proc, aborted>> /\ Later' \subseteq Later /\ (Ord' => Ord)
    BY <1>20 DEF ExitAtTotalTime, runVars, countVars, timeVars, loopVars, Running, CurrPending,
       Ord, Later, Body, InCall, Called
  <2>5. (Running' => Running) /\ (CurrPending' => curr' # curr)
    BY <1>20, <2>1, <2>2 DEF ExitAtTotalTime, EndsCurr, Control, runVars, countVars, timeVars,
       loopVars, Running, CurrPending, Ord, Later, Body, InCall, Called
  <2> QED BY <1>a, <2>3, <2>4, <2>5, EndsLoadStep
<1>21. CASE HandleReturn
  <2>1. curr \in Runs /\ curr \in reported /\ \A r \in Range(queue) : <<curr, r>> \in MayPrecede
    BY <1>21 DEF HandleReturn, TypeInv, QueueInv, Called, InCall
  <2>2. err \in [Runs -> Errors] /\ \A r \in Runs : r # curr => err[r] = err[r]
    BY <1>a, <2>1 DEF SetError, Errors
  <2>3. err[curr] = "none" /\ curr \in InitRuns =>
          CurrPending /\ (~aborted => Ord) /\ completed[curr] = 0
    BY <1>21, <1>a, <2>1 DEF HandleReturn, SetError, Control, ErrorInv, Running, CurrPending,
       Ord, Later, Body, InCall, Called
  <2>4. CompleteRun(err, queue, suspended, load)
    BY <1>21 DEF HandleReturn
  <2>5. EndsCurr(err)
    BY <2>1, <2>2, <2>4, ArgumentTypes, CompleteRunEnds DEF QueueInv
  <2>6. EndsLoad
    BY <2>1, <2>2, <2>3, <2>4, ArgumentTypes, CompleteRunLoad
  <2>7. UNCHANGED <<proc, aborted>> /\ Later' \subseteq Later /\ (Ord' => Ord)
    BY <1>21 DEF HandleReturn, runVars, countVars, timeVars, loopVars, Running, CurrPending,
       Ord, Later, Body, InCall, Called
  <2>8. (Running' => Running) /\ (CurrPending' => curr' # curr)
    BY <1>21, <2>1, <2>5 DEF HandleReturn, EndsCurr, Control, runVars, countVars, timeVars,
       loopVars, Running, CurrPending, Ord, Later, Body, InCall, Called
  <2> QED BY <1>a, <2>6, <2>7, <2>8, EndsLoadStep
<1>22. CASE HandleRecovery
  <2>1. /\ UNCHANGED <<load, completed, curr, reported, err, queue, proc>>
        /\ Later' \subseteq Later /\ (aborted => aborted')
    BY <1>22 DEF HandleRecovery, runVars, countVars, timeVars, loopVars, Running, CurrPending,
       Ord, Later, Body, InCall, Called
  <2>2. (Running' => Running) /\ (CurrPending' => CurrPending) /\ (Ord' => Ord)
    BY <1>22 DEF HandleRecovery, Control, runVars, countVars, timeVars, loopVars, Running,
       CurrPending, Ord, Later, Body, InCall, Called
  <2> QED BY <2>1, <2>2, LoadKept
<1>23. CASE HandleCallbackReturn
  <2>1. /\ UNCHANGED <<load, completed, curr, reported, queue, proc>>
        /\ Later' \subseteq Later /\ (aborted => aborted')
    BY <1>23 DEF HandleCallbackReturn, runVars, countVars, timeVars, loopVars, Running,
       CurrPending, Ord, Later, Body, InCall, Called
  <2>2. (Running' => Running) /\ (CurrPending' => CurrPending) /\ (Ord' => Ord)
    BY <1>23 DEF HandleCallbackReturn, Control, runVars, countVars, timeVars, loopVars, Running,
       CurrPending, Ord, Later, Body, InCall, Called
  <2>3. \A r \in Runs : r # curr => err'[r] = err[r]
    BY <1>23, <1>a DEF HandleCallbackReturn, Fail, SetError
  <2>4. completed[curr] = 0
    BY <1>23 DEF HandleCallbackReturn, Control, ErrorInv, InCall
  <2>5. \A r \in InitRuns : err'[r] = err[r] \/ completed[r] # 1
    BY <1>b, <2>3, <2>4
  <2> QED BY <2>1, <2>2, <2>5, LoadKept
<1>24. CASE Handled
  <2>1. /\ UNCHANGED <<load, completed, curr, reported, err, queue, proc>>
        /\ Later' \subseteq Later /\ (aborted => aborted')
    BY <1>24 DEF Handled, runVars, countVars, timeVars, loopVars, Running, CurrPending, Ord,
       Later, Body, InCall, Called
  <2>2. (Running' => Running) /\ (CurrPending' => CurrPending) /\ (Ord' => Ord)
    BY <1>24 DEF Handled, Control, runVars, countVars, timeVars, loopVars, Running, CurrPending,
       Ord, Later, Body, InCall, Called
  <2> QED BY <2>1, <2>2, LoadKept
<1>25. CASE FinishCall
  <2>1. /\ pc = "finish" /\ pc' = IF raising THEN "except" ELSE "after"
        /\ UNCHANGED <<completed, emuComplete, origin, proc, raising, exitEvent, aborted>>
    BY <1>25 DEF FinishCall, runVars
  <2>2. Later' \subseteq Later /\ (Ord' => Ord)
    BY <2>1 DEF Running, CurrPending, Ord, Later, Body, InCall, Called
  <2>3. curr \in Runs /\ curr \in reported /\ origin \in reported
    BY <2>1 DEF TypeInv, QueueInv, Called, InCall
  <2>4. CASE ~OutOfTotalTime /\ ~ExitEventStopped
    <3>1. UNCHANGED <<load, curr, reported, err, queue, exhausted>>
      BY <1>25, <2>4 DEF FinishCall, runVars
    <3>2. (Running' => Running) /\ (CurrPending' => CurrPending)
      BY <2>1, <3>1 DEF Control, Running, CurrPending, Ord, Later, Body, InCall, Called
    <3> QED BY <2>1, <2>2, <3>1, <3>2, LoadKept
  <2>5. CASE curr = origin /\ ~(~OutOfTotalTime /\ ~ExitEventStopped)
    <3>1. /\ load' = Canceled(Pending) /\ queue' = <<>>
          /\ UNCHANGED <<curr, reported>>
          /\ err' = err \/ (~runComplete /\ err' = FirstError(origin, "limit"))
          /\ OutOfTotalTime => exhausted'
      BY <1>25, <2>5, Zenon DEF FinishCall, ExitEventStopped
    <3>2. ~Running' /\ ~CurrPending'
      BY <2>1, <2>5, <3>1 DEF Running, CurrPending, Ord, Later, Body, InCall, Called
    <3>3. ~runComplete => completed[curr] = 0
      BY <2>1 DEF Control, ErrorInv, Called, InCall
    <3>4. \A r \in Runs : err'[r] = err[r] \/ completed[r] # 1
      BY <1>a, <2>3, <2>5, <3>1, <3>3 DEF FirstError
    <3> QED BY <1>b, <2>1, <2>2, <2>3, <3>1, <3>2, <3>4, CancelLoad
  <2>6. CASE curr # origin /\ ~(~OutOfTotalTime /\ ~ExitEventStopped)
    <3>1. /\ load' = Canceled(Pending \cup {curr}) /\ queue' = <<>> /\ exhausted'
          /\ curr' = origin /\ reported' = reported \ {curr} /\ err' = err
      BY <1>25, <2>6, Zenon DEF FinishCall, ExitEventStopped, ReportedWithout
    <3>2. ~Running' /\ ~CurrPending'
      BY <2>1, <3>1 DEF Running, CurrPending, Ord, Later, Body, InCall, Called
    <3>3. curr' \in reported'
      BY <2>3, <2>6, <3>1
    <3> QED BY <2>1, <2>2, <3>1, <3>2, <3>3, CancelLoad
  <2> QED BY <2>4, <2>5, <2>6
<1>26. CASE ApiReturns
  <2>1. /\ UNCHANGED <<load, completed, curr, reported, err, queue, proc>>
        /\ Later' \subseteq Later /\ (aborted => aborted')
    BY <1>26 DEF ApiReturns, runVars, countVars, timeVars, loopVars, Running, CurrPending, Ord,
       Later, Body, InCall, Called
  <2>2. (Running' => Running) /\ (CurrPending' => CurrPending) /\ (Ord' => Ord)
    BY <1>26 DEF ApiReturns, Control, runVars, countVars, timeVars, loopVars, Running,
       CurrPending, Ord, Later, Body, InCall, Called
  <2> QED BY <2>1, <2>2, LoadKept
<1>27. CASE ApiEndsRun
  <2>1. /\ UNCHANGED <<load, completed, curr, reported, err, queue, proc>>
        /\ Later' \subseteq Later /\ (aborted => aborted')
    BY <1>27 DEF ApiEndsRun, runVars, countVars, timeVars, loopVars, Running, CurrPending, Ord,
       Later, Body, InCall, Called
  <2>2. (Running' => Running) /\ (CurrPending' => CurrPending) /\ (Ord' => Ord)
    BY <1>27 DEF ApiEndsRun, Control, runVars, countVars, timeVars, loopVars, Running,
       CurrPending, Ord, Later, Body, InCall, Called
  <2> QED BY <2>1, <2>2, LoadKept
<1>28. CASE ApiStartsCallback
  <2>1. /\ UNCHANGED <<load, completed, curr, reported, queue, proc>>
        /\ Later' \subseteq Later /\ (aborted => aborted')
    BY <1>28 DEF ApiStartsCallback, runVars, countVars, timeVars, loopVars, Running,
       CurrPending, Ord, Later, Body, InCall, Called
  <2>2. (Running' => Running) /\ (CurrPending' => CurrPending) /\ (Ord' => Ord)
    BY <1>28 DEF ApiStartsCallback, Control, runVars, countVars, timeVars, loopVars, Running,
       CurrPending, Ord, Later, Body, InCall, Called
  <2>3. \A r \in Runs : r # curr => err'[r] = err[r]
    BY <1>28, <1>a DEF ApiStartsCallback, Fail, SetError
  <2>4. completed[curr] = 0
    BY <1>28 DEF ApiStartsCallback, Control, ErrorInv, InCall
  <2>5. \A r \in InitRuns : err'[r] = err[r] \/ completed[r] # 1
    BY <1>b, <2>3, <2>4
  <2> QED BY <2>1, <2>2, <2>5, LoadKept
<1>29. CASE ApiRaisesInGuest
  <2>1. /\ UNCHANGED <<load, completed, curr, reported, err, queue, proc>>
        /\ Later' \subseteq Later /\ (aborted => aborted')
    BY <1>29 DEF ApiRaisesInGuest, runVars, countVars, timeVars, loopVars, Running, CurrPending,
       Ord, Later, Body, InCall, Called
  <2>2. (Running' => Running) /\ (CurrPending' => CurrPending) /\ (Ord' => Ord)
    BY <1>29 DEF ApiRaisesInGuest, Control, runVars, countVars, timeVars, loopVars, Running,
       CurrPending, Ord, Later, Body, InCall, Called
  <2> QED BY <2>1, <2>2, LoadKept
<1>30. ASSUME NEW t \in Threads, ApiCreatesThread(t)
       PROVE  LoadInv'
  <2>1. /\ UNCHANGED <<load, completed, curr, reported, err, proc>>
        /\ Later' \subseteq Later /\ (aborted => aborted')
    BY <1>30 DEF ApiCreatesThread, runVars, countVars, timeVars, loopVars, Running, CurrPending,
       Ord, Later, Body, InCall, Called
  <2>2. (Running' => Running) /\ (CurrPending' => CurrPending) /\ (Ord' => Ord)
    BY <1>30 DEF ApiCreatesThread, Control, runVars, countVars, timeVars, loopVars, Running,
       CurrPending, Ord, Later, Body, InCall, Called
  <2>3. t \in Runs /\ t \notin InitRuns
    BY ObjectsAssumption DEF Runs
  <2>4. \A r \in InitRuns : r \in Range(queue') <=> r \in Range(queue)
    <3>1. queue' = queue \/ queue' = Append(queue, t)
      BY <1>30 DEF ApiCreatesThread
    <3> QED BY <1>a, <2>3, <3>1, AppendLemma
  <2> QED BY <2>1, <2>2, <2>4, LoadKept
<1>31. ASSUME NEW t \in Threads, ApiResumesThread(t)
       PROVE  LoadInv'
  <2>1. /\ UNCHANGED <<load, completed, curr, reported, err, proc>>
        /\ Later' \subseteq Later /\ (aborted => aborted')
    BY <1>31 DEF ApiResumesThread, runVars, countVars, timeVars, loopVars, Running, CurrPending,
       Ord, Later, Body, InCall, Called
  <2>2. (Running' => Running) /\ (CurrPending' => CurrPending) /\ (Ord' => Ord)
    BY <1>31 DEF ApiResumesThread, Control, runVars, countVars, timeVars, loopVars, Running,
       CurrPending, Ord, Later, Body, InCall, Called
  <2>3. t \in Runs /\ t \notin InitRuns
    BY ObjectsAssumption DEF Runs
  <2>4. \A r \in InitRuns : r \in Range(queue') <=> r \in Range(queue)
    BY <1>31, <1>a, <2>3, AppendLemma DEF ApiResumesThread
  <2> QED BY <2>1, <2>2, <2>4, LoadKept
<1>32. ASSUME NEW t \in Threads, ApiSuspendsThread(t)
       PROVE  LoadInv'
  <2>1. /\ UNCHANGED <<load, completed, curr, reported, err, proc>>
        /\ Later' \subseteq Later /\ (aborted => aborted')
    BY <1>32 DEF ApiSuspendsThread, runVars, countVars, timeVars, loopVars, Running,
       CurrPending, Ord, Later, Body, InCall, Called
  <2>2. (Running' => Running) /\ (CurrPending' => CurrPending) /\ (Ord' => Ord)
    BY <1>32 DEF ApiSuspendsThread, Control, runVars, countVars, timeVars, loopVars, Running,
       CurrPending, Ord, Later, Body, InCall, Called
  <2>3. t \in Runs /\ t \notin InitRuns
    BY ObjectsAssumption DEF Runs
  <2>4. \A r \in InitRuns : r \in Range(queue') <=> r \in Range(queue)
    BY <1>32, <1>a, <2>3, WithoutRunLemma DEF ApiSuspendsThread
  <2> QED BY <2>1, <2>2, <2>4, LoadKept
<1>33. CASE ApiHandlerRaises
  <2>1. curr \in Runs /\ curr \in reported /\ \A r \in Range(queue) : <<curr, r>> \in MayPrecede
    BY <1>33 DEF ApiHandlerRaises, TypeInv, QueueInv, Called, InCall
  <2>2. /\ SetError(curr, "internal_error") \in [Runs -> Errors]
        /\ \A r \in Runs : r # curr => SetError(curr, "internal_error")[r] = err[r]
    BY <1>a, <2>1 DEF SetError, Errors
  <2>3. SetError(curr, "internal_error")[curr] = "none" /\ curr \in InitRuns =>
          CurrPending /\ (~aborted => Ord) /\ completed[curr] = 0
    BY <1>33, <1>a, <2>1 DEF ApiHandlerRaises, SetError, Control, ErrorInv, Running,
       CurrPending, Ord, Later, Body, InCall, Called
  <2>4. CompleteRun(SetError(curr, "internal_error"), queue, suspended, load)
    BY <1>33 DEF ApiHandlerRaises
  <2>5. EndsCurr(SetError(curr, "internal_error"))
    BY <2>1, <2>2, <2>4, ArgumentTypes, CompleteRunEnds DEF QueueInv
  <2>6. EndsLoad
    BY <2>1, <2>2, <2>3, <2>4, ArgumentTypes, CompleteRunLoad
  <2>7. UNCHANGED <<proc, aborted>> /\ Later' \subseteq Later /\ (Ord' => Ord)
    BY <1>33 DEF ApiHandlerRaises, runVars, countVars, timeVars, loopVars, Running, CurrPending,
       Ord, Later, Body, InCall, Called
  <2>8. (Running' => Running) /\ (CurrPending' => curr' # curr)
    BY <1>33, <2>1, <2>5 DEF ApiHandlerRaises, EndsCurr, Control, runVars, countVars, timeVars,
       loopVars, Running, CurrPending, Ord, Later, Body, InCall, Called
  <2> QED BY <1>a, <2>6, <2>7, <2>8, EndsLoadStep
<1>34. CASE ApiArgumentFault
  <2>1. /\ UNCHANGED <<load, completed, curr, reported, queue, proc>>
        /\ Later' \subseteq Later /\ (aborted => aborted')
    BY <1>34 DEF ApiArgumentFault, runVars, countVars, timeVars, loopVars, Running, CurrPending,
       Ord, Later, Body, InCall, Called
  <2>2. (Running' => Running) /\ (CurrPending' => CurrPending) /\ (Ord' => Ord)
    BY <1>34 DEF ApiArgumentFault, Control, runVars, countVars, timeVars, loopVars, Running,
       CurrPending, Ord, Later, Body, InCall, Called
  <2>3. \A r \in Runs : r # curr => err'[r] = err[r]
    BY <1>34, <1>a DEF ApiArgumentFault, Fail, SetError
  <2>4. completed[curr] = 0
    BY <1>34 DEF ApiArgumentFault, Control, ErrorInv, InCall
  <2>5. \A r \in InitRuns : err'[r] = err[r] \/ completed[r] # 1
    BY <1>b, <2>3, <2>4
  <2> QED BY <2>1, <2>2, <2>5, LoadKept
<1>35. CASE ApiHookRaises
  <2>1. /\ UNCHANGED <<load, completed, curr, reported, err, queue, proc>>
        /\ Later' \subseteq Later /\ (aborted => aborted')
    BY <1>35 DEF ApiHookRaises, runVars, countVars, timeVars, loopVars, Running, CurrPending,
       Ord, Later, Body, InCall, Called
  <2>2. (Running' => Running) /\ (CurrPending' => CurrPending) /\ (Ord' => Ord)
    BY <1>35 DEF ApiHookRaises, Control, runVars, countVars, timeVars, loopVars, Running,
       CurrPending, Ord, Later, Body, InCall, Called
  <2> QED BY <2>1, <2>2, LoadKept
<1>36. CASE ApiUnsupported
  <2>1. curr \in Runs /\ curr \in reported /\ \A r \in Range(queue) : <<curr, r>> \in MayPrecede
    BY <1>36 DEF ApiUnsupported, TypeInv, QueueInv, Called, InCall
  <2>2. /\ SetError(curr, "unsupported_api") \in [Runs -> Errors]
        /\ \A r \in Runs : r # curr => SetError(curr, "unsupported_api")[r] = err[r]
    BY <1>a, <2>1 DEF SetError, Errors
  <2>3. SetError(curr, "unsupported_api")[curr] = "none" /\ curr \in InitRuns =>
          CurrPending /\ (~aborted => Ord) /\ completed[curr] = 0
    BY <1>36, <1>a, <2>1 DEF ApiUnsupported, SetError, Control, ErrorInv, Running, CurrPending,
       Ord, Later, Body, InCall, Called
  <2>4. CompleteRun(SetError(curr, "unsupported_api"), queue, suspended, load)
    BY <1>36 DEF ApiUnsupported
  <2>5. EndsCurr(SetError(curr, "unsupported_api"))
    BY <2>1, <2>2, <2>4, ArgumentTypes, CompleteRunEnds DEF QueueInv
  <2>6. EndsLoad
    BY <2>1, <2>2, <2>3, <2>4, ArgumentTypes, CompleteRunLoad
  <2>7. UNCHANGED <<proc, aborted>> /\ Later' \subseteq Later /\ (Ord' => Ord)
    BY <1>36 DEF ApiUnsupported, runVars, countVars, timeVars, loopVars, Running, CurrPending,
       Ord, Later, Body, InCall, Called
  <2>8. (Running' => Running) /\ (CurrPending' => curr' # curr)
    BY <1>36, <2>1, <2>5 DEF ApiUnsupported, EndsCurr, Control, runVars, countVars, timeVars,
       loopVars, Running, CurrPending, Ord, Later, Body, InCall, Called
  <2> QED BY <1>a, <2>6, <2>7, <2>8, EndsLoadStep
<1>37. CASE ApiLimitReached
  <2>1. curr \in Runs /\ curr \in reported /\ \A r \in Range(queue) : <<curr, r>> \in MayPrecede
    BY <1>37 DEF ApiLimitReached, TypeInv, QueueInv, Called, InCall
  <2>2. /\ SetError(curr, "max_api_count") \in [Runs -> Errors]
        /\ \A r \in Runs : r # curr => SetError(curr, "max_api_count")[r] = err[r]
    BY <1>a, <2>1 DEF SetError, Errors
  <2>3. SetError(curr, "max_api_count")[curr] = "none" /\ curr \in InitRuns =>
          CurrPending /\ (~aborted => Ord) /\ completed[curr] = 0
    BY <1>37, <1>a, <2>1 DEF ApiLimitReached, SetError, Control, ErrorInv, Running, CurrPending,
       Ord, Later, Body, InCall, Called
  <2>4. CompleteRun(SetError(curr, "max_api_count"), queue, suspended, load)
    BY <1>37 DEF ApiLimitReached
  <2>5. EndsCurr(SetError(curr, "max_api_count"))
    BY <2>1, <2>2, <2>4, ArgumentTypes, CompleteRunEnds DEF QueueInv
  <2>6. EndsLoad
    BY <2>1, <2>2, <2>3, <2>4, ArgumentTypes, CompleteRunLoad
  <2>7. UNCHANGED <<proc, aborted>> /\ Later' \subseteq Later /\ (Ord' => Ord)
    BY <1>37 DEF ApiLimitReached, runVars, countVars, timeVars, loopVars, Running, CurrPending,
       Ord, Later, Body, InCall, Called
  <2>8. (Running' => Running) /\ (CurrPending' => curr' # curr)
    BY <1>37, <2>1, <2>5 DEF ApiLimitReached, EndsCurr, Control, runVars, countVars, timeVars,
       loopVars, Running, CurrPending, Ord, Later, Body, InCall, Called
  <2> QED BY <1>a, <2>6, <2>7, <2>8, EndsLoadStep
<1>38. CASE ApiLimitNotReached
  <2>1. /\ UNCHANGED <<load, completed, curr, reported, err, queue, proc>>
        /\ Later' \subseteq Later /\ (aborted => aborted')
    BY <1>38 DEF ApiLimitNotReached, runVars, countVars, timeVars, loopVars, Running,
       CurrPending, Ord, Later, Body, InCall, Called
  <2>2. (Running' => Running) /\ (CurrPending' => CurrPending) /\ (Ord' => Ord)
    BY <1>38 DEF ApiLimitNotReached, Control, runVars, countVars, timeVars, loopVars, Running,
       CurrPending, Ord, Later, Body, InCall, Called
  <2> QED BY <2>1, <2>2, LoadKept
<1>39. CASE ApiDidNotReturn
  <2>1. /\ UNCHANGED <<load, completed, curr, reported, queue, proc>>
        /\ Later' \subseteq Later /\ (aborted => aborted')
    BY <1>39 DEF ApiDidNotReturn, runVars, countVars, timeVars, loopVars, Running, CurrPending,
       Ord, Later, Body, InCall, Called
  <2>2. (Running' => Running) /\ (CurrPending' => CurrPending) /\ (Ord' => Ord)
    BY <1>39 DEF ApiDidNotReturn, Control, runVars, countVars, timeVars, loopVars, Running,
       CurrPending, Ord, Later, Body, InCall, Called
  <2>3. \A r \in Runs : r # curr => err'[r] = err[r]
    BY <1>39, <1>a DEF ApiDidNotReturn, Fail, SetError
  <2>4. completed[curr] = 0
    BY <1>39 DEF ApiDidNotReturn, Control, ErrorInv, InCall
  <2>5. \A r \in InitRuns : err'[r] = err[r] \/ completed[r] # 1
    BY <1>b, <2>3, <2>4
  <2> QED BY <2>1, <2>2, <2>5, LoadKept
<1>40. CASE ApiDispatched
  <2>1. /\ curr \in Runs /\ curr \in reported /\ pc \in Called
        /\ \A r \in Range(queue) : <<curr, r>> \in MayPrecede
    BY <1>40 DEF ApiDispatched, TypeInv, QueueInv, Called, InCall
  <2>2. CASE UNCHANGED <<runVars, exhausted>> /\ pc' = "handled"
    <3>1. /\ UNCHANGED <<load, completed, curr, reported, err, queue, proc>>
          /\ Later' \subseteq Later /\ (aborted => aborted')
      BY <1>40, <2>2 DEF ApiDispatched, runVars, countVars, timeVars, loopVars, Running,
         CurrPending, Ord, Later, Body, InCall, Called
    <3>2. (Running' => Running) /\ (CurrPending' => CurrPending) /\ (Ord' => Ord)
      BY <1>40, <2>2 DEF ApiDispatched, Control, runVars, countVars, timeVars, loopVars,
         Running, CurrPending, Ord, Later, Body, InCall, Called
    <3> QED BY <3>1, <3>2, LoadKept
  <2>3. CASE /\ curr = origin /\ ~emuComplete
             /\ StopAtLimit("max_total_time") \/ CompleteRun(err, queue, suspended, load)
    <3>1. err \in [Runs -> Errors] /\ \A r \in Runs : r # curr => err[r] = err[r]
      BY <1>a, <2>1 DEF SetError, Errors
    <3>2. EndsCurr(FirstError(curr, "limit")) \/ EndsCurr(err)
      BY <2>1, <2>3, <3>1, ArgumentTypes, StopAtLimitEnds, CompleteRunEnds DEF QueueInv
    <3>3. /\ pc \in {"stopped", "dispatched"} /\ pc' \in {"handled", "finish"}
          /\ UNCHANGED <<proc, origin, aborted, exitEvent>>
      BY <1>40 DEF ApiDispatched
    <3>4. err[curr] = "none" /\ curr \in InitRuns =>
            CurrPending /\ (~aborted => Ord) /\ completed[curr] = 0
      BY <1>40, <1>a, <2>1, <2>3, <3>3 DEF ApiDispatched, ErrorInv, Running, CurrPending, Ord,
         Later, Body, InCall, Called
    <3>5. EndsLoad
      BY <2>1, <2>3, <3>1, <3>4, ArgumentTypes, StopAtLimitLoad, CompleteRunLoad
    <3>6. Later' \subseteq Later /\ (Ord' => Ord)
      BY <3>3 DEF Running, CurrPending, Ord, Later, Body, InCall, Called
    <3>7. (Running' => Running) /\ (CurrPending' => curr' # curr)
      BY <2>1, <2>3, <3>2, <3>3 DEF EndsCurr, Control, Running, CurrPending, Ord, Later, Body,
         InCall, Called
    <3> QED BY <1>a, <3>3, <3>5, <3>6, <3>7, EndsLoadStep
  <2> QED BY <1>40, <2>2, <2>3 DEF ApiDispatched, RunEndsAfterApi
<1>41. CASE GuestInstruction
  <2>1. /\ UNCHANGED <<load, completed, curr, reported, err, queue, proc>>
        /\ Later' \subseteq Later /\ (aborted => aborted')
    BY <1>41 DEF GuestInstruction, runVars, countVars, timeVars, loopVars, Running, CurrPending,
       Ord, Later, Body, InCall, Called
  <2>2. (Running' => Running) /\ (CurrPending' => CurrPending) /\ (Ord' => Ord)
    BY <1>41 DEF GuestInstruction, Control, runVars, countVars, timeVars, loopVars, Running,
       CurrPending, Ord, Later, Body, InCall, Called
  <2> QED BY <2>1, <2>2, LoadKept
<1>42. ASSUME NEW kind \in ExitKinds, RecordExit(kind)
       PROVE  LoadInv'
  <2>1. /\ UNCHANGED <<load, completed, curr, reported, err, queue, proc>>
        /\ Later' \subseteq Later /\ (aborted => aborted')
    BY <1>42 DEF RecordExit, runVars, countVars, timeVars, loopVars, Running, CurrPending, Ord,
       Later, Body, InCall, Called
  <2>2. (Running' => Running) /\ (CurrPending' => CurrPending) /\ (Ord' => Ord)
    BY <1>42 DEF RecordExit, Control, runVars, countVars, timeVars, loopVars, Running,
       CurrPending, Ord, Later, Body, InCall, Called
  <2> QED BY <2>1, <2>2, LoadKept
<1>43. CASE EngineStops
  <2>1. /\ UNCHANGED <<load, completed, curr, reported, err, queue, proc>>
        /\ Later' \subseteq Later /\ (aborted => aborted')
    BY <1>43 DEF EngineStops, runVars, countVars, timeVars, loopVars, Running, CurrPending, Ord,
       Later, Body, InCall, Called
  <2>2. (Running' => Running) /\ (CurrPending' => CurrPending) /\ (Ord' => Ord)
    BY <1>43 DEF EngineStops, Control, runVars, countVars, timeVars, loopVars, Running,
       CurrPending, Ord, Later, Body, InCall, Called
  <2> QED BY <2>1, <2>2, LoadKept
<1>44. CASE HookStops
  <2>1. /\ UNCHANGED <<load, completed, curr, reported, err, queue, proc>>
        /\ Later' \subseteq Later /\ (aborted => aborted')
    BY <1>44 DEF HookStops, runVars, countVars, timeVars, loopVars, Running, CurrPending, Ord,
       Later, Body, InCall, Called
  <2>2. (Running' => Running) /\ (CurrPending' => CurrPending) /\ (Ord' => Ord)
    BY <1>44 DEF HookStops, Control, runVars, countVars, timeVars, loopVars, Running,
       CurrPending, Ord, Later, Body, InCall, Called
  <2> QED BY <2>1, <2>2, LoadKept
<1>45. CASE HookFails
  <2>1. /\ UNCHANGED <<load, completed, curr, reported, queue, proc>>
        /\ Later' \subseteq Later /\ aborted'
    BY <1>45 DEF HookFails, runVars, countVars, timeVars, loopVars, Running, CurrPending, Ord,
       Later, Body, InCall, Called
  <2>2. (Running' => Running) /\ (CurrPending' => CurrPending) /\ (Ord' => Ord)
    BY <1>45 DEF HookFails, runVars, countVars, timeVars, loopVars, Running, CurrPending, Ord,
       Later, Body, InCall, Called
  <2> QED BY <2>1, <2>2, LoadKept
<1>46. CASE UnhandledInterrupt
  <2>1. curr \in Runs /\ curr \in reported /\ \A r \in Range(queue) : <<curr, r>> \in MayPrecede
    BY <1>46 DEF UnhandledInterrupt, TypeInv, QueueInv, Called, InCall
  <2>2. /\ SetError(curr, "fault") \in [Runs -> Errors]
        /\ \A r \in Runs : r # curr => SetError(curr, "fault")[r] = err[r]
    BY <1>a, <2>1 DEF SetError, Errors
  <2>3. SetError(curr, "fault")[curr] = "none" /\ curr \in InitRuns =>
          CurrPending /\ (~aborted => Ord) /\ completed[curr] = 0
    BY <1>46, <1>a, <2>1 DEF UnhandledInterrupt, SetError, Control, ErrorInv, Running,
       CurrPending, Ord, Later, Body, InCall, Called
  <2>4. CompleteRun(SetError(curr, "fault"), queue, suspended, load)
    BY <1>46 DEF UnhandledInterrupt
  <2>5. EndsCurr(SetError(curr, "fault"))
    BY <2>1, <2>2, <2>4, ArgumentTypes, CompleteRunEnds DEF QueueInv
  <2>6. EndsLoad
    BY <2>1, <2>2, <2>3, <2>4, ArgumentTypes, CompleteRunLoad
  <2>7. UNCHANGED <<proc, aborted>> /\ Later' \subseteq Later /\ (Ord' => Ord)
    BY <1>46 DEF UnhandledInterrupt, runVars, countVars, timeVars, loopVars, Running,
       CurrPending, Ord, Later, Body, InCall, Called
  <2>8. (Running' => Running) /\ (CurrPending' => curr' # curr)
    BY <1>46, <2>1, <2>5 DEF UnhandledInterrupt, EndsCurr, Control, runVars, countVars,
       timeVars, loopVars, Running, CurrPending, Ord, Later, Body, InCall, Called
  <2> QED BY <1>a, <2>6, <2>7, <2>8, EndsLoadStep
<1>47. CASE DeferredWork
  <2>1. curr \in Runs /\ curr \in reported /\ \A r \in Range(queue) : <<curr, r>> \in MayPrecede
    BY <1>47 DEF DeferredWork, TypeInv, QueueInv, Called, InCall
  <2>2. err \in [Runs -> Errors] /\ \A r \in Runs : r # curr => err[r] = err[r]
    BY <1>a, <2>1 DEF SetError, Errors
  <2>3. err[curr] = "none" /\ curr \in InitRuns =>
          CurrPending /\ (~aborted => Ord) /\ completed[curr] = 0
    BY <1>47, <1>a, <2>1 DEF DeferredWork, SetError, Control, ErrorInv, Running, CurrPending,
       Ord, Later, Body, InCall, Called
  <2>4. CompleteRun(err, queue, suspended, load)
    BY <1>47 DEF DeferredWork
  <2>5. EndsCurr(err)
    BY <2>1, <2>2, <2>4, ArgumentTypes, CompleteRunEnds DEF QueueInv
  <2>6. EndsLoad
    BY <2>1, <2>2, <2>3, <2>4, ArgumentTypes, CompleteRunLoad
  <2>7. UNCHANGED <<proc, aborted>> /\ Later' \subseteq Later /\ (Ord' => Ord)
    BY <1>47 DEF DeferredWork, runVars, countVars, timeVars, loopVars, Running, CurrPending,
       Ord, Later, Body, InCall, Called
  <2>8. (Running' => Running) /\ (CurrPending' => curr' # curr)
    BY <1>47, <2>1, <2>5 DEF DeferredWork, EndsCurr, Control, runVars, countVars, timeVars,
       loopVars, Running, CurrPending, Ord, Later, Body, InCall, Called
  <2> QED BY <1>a, <2>6, <2>7, <2>8, EndsLoadStep
<1>48. CASE EngineRaises
  <2>1. /\ UNCHANGED <<load, completed, curr, reported, err, queue, proc>>
        /\ Later' \subseteq Later /\ (aborted => aborted')
    BY <1>48 DEF EngineRaises, runVars, countVars, timeVars, loopVars, Running, CurrPending,
       Ord, Later, Body, InCall, Called
  <2>2. (Running' => Running) /\ (CurrPending' => CurrPending) /\ (Ord' => Ord)
    BY <1>48 DEF EngineRaises, Control, runVars, countVars, timeVars, loopVars, Running,
       CurrPending, Ord, Later, Body, InCall, Called
  <2> QED BY <2>1, <2>2, LoadKept
<1>49. CASE Tick
  <2>1. /\ UNCHANGED <<load, completed, curr, reported, err, queue, proc>>
        /\ Later' \subseteq Later /\ (aborted => aborted')
    BY <1>49 DEF Tick, runVars, countVars, timeVars, loopVars, Running, CurrPending, Ord, Later,
       Body, InCall, Called
  <2>2. (Running' => Running) /\ (CurrPending' => CurrPending) /\ (Ord' => Ord)
    BY <1>49 DEF Tick, Control, runVars, countVars, timeVars, loopVars, Running, CurrPending,
       Ord, Later, Body, InCall, Called
  <2> QED BY <2>1, <2>2, LoadKept
<1>50. CASE SetExitEvent
  <2>1. /\ UNCHANGED <<load, completed, curr, reported, err, queue, proc>>
        /\ Later' \subseteq Later /\ (aborted => aborted')
    BY <1>50 DEF SetExitEvent, runVars, countVars, timeVars, loopVars, Running, CurrPending,
       Ord, Later, Body, InCall, Called
  <2>2. (Running' => Running) /\ (CurrPending' => CurrPending) /\ (Ord' => Ord)
    BY <1>50 DEF SetExitEvent, Control, runVars, countVars, timeVars, loopVars, Running,
       CurrPending, Ord, Later, Body, InCall, Called
  <2> QED BY <2>1, <2>2, LoadKept
<1>51. CASE UNCHANGED vars
  BY <1>51, LoadKept DEF vars, runVars, countVars, timeVars, loopVars, Running, CurrPending,
     Ord, Later, Body, InCall, Called
<1> QED
  BY <1>1, <1>2, <1>3, <1>4, <1>5, <1>6, <1>7, <1>8, <1>9, <1>10, <1>11, <1>12, <1>13,
     <1>14, <1>15, <1>16, <1>17, <1>18, <1>19, <1>20, <1>21, <1>22, <1>23, <1>24, <1>25, <1>26,
     <1>27, <1>28, <1>29, <1>30, <1>31, <1>32, <1>33, <1>34, <1>35, <1>36, <1>37, <1>38, <1>39,
     <1>40, <1>41, <1>42, <1>43, <1>44, <1>45, <1>46, <1>47, <1>48, <1>49, <1>50, <1>51 DEF
     Next, LoopStep, ApiStep, GuestStep, Terminated

\* The load states are right at the beginning.
LEMMA InitLoadInv == Init => LoadInv
<1> SUFFICES ASSUME Init
             PROVE  LoadInv
  OBVIOUS
<1>1. \A p \in Range(Processes), m \in Range(Modules) : load[p][m] = "none"
  BY DEF Init
<1>2. Range(queue) \cap InitRuns = {} /\ ~CurrPending /\ ~Running
  <2>1. Processes[1] \in Range(Processes)
    BY ObjectsAssumption DEF Range
  <2> QED BY <2>1, ObjectsAssumption DEF Init, MainRuns, CurrPending, Running, Body, InCall
<1>3. LoadsBegin
  <2>1. \A j \in Later : Processes[j] \in Range(Processes)
    BY DEF Later, Range
  <2> QED BY <1>1, <1>2, <2>1 DEF LoadsBegin
<1>4. WaitingIsInitializing /\ TlsBeforeDllMain
  <2>1. \A p \in Range(Processes), m \in HasTls : InitRun(p, m, 2) \in InitRuns
    BY ObjectsAssumption DEF InitRuns
  <2> QED BY <1>2, <2>1 DEF WaitingIsInitializing, TlsBeforeDllMain, Waiting
<1>5. DllMainIsLeft /\ ReadyHasPassed
  BY <1>1, InitRunType DEF DllMainIsLeft, ReadyHasPassed, State
<1>6. curr \notin Runs
  BY ObjectsAssumption DEF Init
<1> QED BY <1>3, <1>4, <1>5, <1>6 DEF LoadInv

\* LoadInv is an invariant of the run loop.
LEMMA LoadInvariant == Spec => [](RunInv /\ LoadInv)
<1>1. Init => LoadInv
  BY InitLoadInv
<1>2. RunInv /\ RunInv' /\ LoadInv /\ [Next]_vars => LoadInv'
  BY LoadStep
<1> QED BY <1>1, <1>2, RunInvariant, PTL DEF Spec

\* Guest code of a process other than its startup initializers runs only when
\* every DLL that was loaded at process start is initialized or failed.
THEOREM ModulesInitializeFirst == Spec => []InitializedBeforeEntry
<1>1. RunInv /\ LoadInv => InitializedBeforeEntry
  <2> SUFFICES ASSUME LoopInv, QueueInv, LoadInv,
                      pc \in {"guest", "api"}, curr \notin InitRuns, ~aborted,
                      NEW m \in Range(Modules)
               PROVE  load[Processes[proc]][m] \in {"ready", "init_error"}
    BY DEF RunInv, InitializedBeforeEntry
  <2> DEFINE p == Processes[proc]
  <2>1. p \in Range(Processes) /\ load[p][m] \in LoadStates
    BY DEF LoopInv, TypeInv, TypeOK, Range, LoadStates
  <2>2. load[p][m] # "none"
    BY DEF LoadInv, LoadsBegin, Running, LoopInv, Control, Body, InCall
  <2>3. load[p][m] # "initializing"
    <3> SUFFICES ASSUME load[p][m] = "initializing"
                 PROVE  FALSE
      OBVIOUS
    <3>1. InitRun(p, m, 2) \in Range(queue) \cup {curr}
      BY <2>1 DEF LoadInv, DllMainIsLeft, Ord, Body, InCall
    <3>2. InitRun(p, m, 2) \in InitRuns
      BY <2>1 DEF InitRuns
    <3>3. <<curr, InitRun(p, m, 2)>> \in MayPrecede
      BY <3>1, <3>2 DEF QueueInv, Called, InCall
    <3> QED BY <3>2, <3>3 DEF MayPrecede
  <2> QED BY <2>1, <2>2, <2>3 DEF LoadStates
<1> QED BY <1>1, LoadInvariant, PTL

\* After one initializer of a DLL failed, the others never run, and a DLL that
\* became ready passed all its initializers.
THEOREM FailedModulesStayFailed == Spec => []FailedModuleStaysFailed
<1>1. RunInv /\ LoadInv => FailedModuleStaysFailed
  <2> SUFFICES ASSUME LoopInv, LoadInv, ~aborted, NEW r \in InitRuns
               PROVE  /\ load[r.proc][r.mod] = "init_error" =>
                           r \notin Range(queue) /\ (pc = "guest" => r # curr)
                      /\ load[r.proc][r.mod] = "ready" => err[r] = "none" /\ completed[r] = 1
    BY DEF RunInv, FailedModuleStaysFailed
  <2>1. pc = "guest" => CurrPending
    BY DEF LoopInv, Control, CurrPending, Body, InCall
  <2>2. r \in Range(queue) \/ (pc = "guest" /\ r = curr) => load[r.proc][r.mod] = "initializing"
    BY <2>1 DEF LoadInv, WaitingIsInitializing, Waiting, State
  <2>3. load[r.proc][r.mod] = "ready" => err[r] = "none" /\ completed[r] = 1
    BY DEF LoadInv, ReadyHasPassed, Passed, State
  <2> QED BY <2>2, <2>3
<1> QED BY <1>1, LoadInvariant, PTL

\* When the emulation ends by itself or at the total time, every reported run
\* was completed, no run waits and no DLL stays INITIALIZING.
LEMMA EndIsClean == RunInv /\ LoadInv => NothingLeftAtEnd
<1> SUFFICES ASSUME LoopInv, EndInv, LoadInv, pc = "ended", ~exitEvent, ~aborted
             PROVE  /\ queue = <<>>
                    /\ \A r \in reported : completed[r] > 0
                    /\ \A p \in Range(Processes), m \in Range(Modules) : load[p][m] # "initializing"
  BY DEF RunInv, NothingLeftAtEnd
<1>1. queue = <<>> /\ \A r \in reported : completed[r] > 0
  BY DEF EndInv, NothingDropped
<1>2. ASSUME NEW p \in Range(Processes), NEW m \in Range(Modules), load[p][m] = "initializing"
      PROVE  FALSE
  <2>1. InitRun(p, m, 2) \in Range(queue) \cup {curr} /\ completed[InitRun(p, m, 2)] = 0
    BY <1>2 DEF LoadInv, DllMainIsLeft, Ord
  <2>2. InitRun(p, m, 2) = curr
    BY <1>1, <2>1, EmptyLemma
  <2>3. curr \in Runs
    BY <2>2 DEF InitRuns, Runs
  <2>4. curr \in reported
    BY <2>3 DEF LoadInv
  <2> QED BY <1>1, <2>1, <2>2, <2>4
<1> QED BY <1>1, <1>2

\* The same, of every behaviour.
THEOREM EndLeavesNothing == Spec => []NothingLeftAtEnd
BY EndIsClean, LoadInvariant, PTL

-----------------------------------------------------------------------------
(* The total time. *)

\* total is the time of all calls that ended, and now that of the open call.
TimeInv == ticks = IF pc \in InCall THEN total + now ELSE total

\* The deadline of a call is not after the total time.
LEMMA DeadlineInTotalTime ==
  ASSUME TypeOK, TotalTime > 0, now < Deadline
  PROVE  total + now < TotalTime
<1>1. TotalTime \in Nat /\ RunTime \in Nat
  BY LimitsAssumption
<1>2. TotalLeft \in Nat /\ Deadline <= TotalLeft
  BY <1>1 DEF TypeOK, TotalLeft, Deadline, TotalIsNearer
<1>3. now < TotalLeft
  BY <1>1, <1>2 DEF TypeOK, Deadline
<1> QED BY <1>1, <1>3 DEF TypeOK, TotalLeft

\* Only Unicorn's start and EnterApi lead to guest code or to an API, before a limit.
Starts == pc \in {"loop", "exit"} /\ pc' \in {"guest", "api"}

\* Every step keeps the account of the time, and starts nothing at a limit.
LEMMA TimeStep == TypeOK /\ TimeInv /\ [Next]_vars => TimeInv' /\ (Starts => ~LimitReached)
<1> SUFFICES ASSUME TypeOK, TimeInv, [Next]_vars
             PROVE  TimeInv' /\ (Starts => ~LimitReached)
  OBVIOUS
<1>a. total \in Nat /\ now \in Nat /\ ticks \in Nat
  BY DEF TypeOK
<1>1. CASE StartExhausted
  BY <1>1, <1>a DEF StartExhausted, TimeInv, Starts, InCall, runVars, countVars, timeVars,
     loopVars
<1>2. CASE StartWithoutRuns
  BY <1>2, <1>a DEF StartWithoutRuns, TimeInv, Starts, InCall, runVars, countVars, timeVars,
     loopVars
<1>3. CASE Start
  BY <1>3, <1>a DEF Start, TimeInv, Starts, InCall, runVars, countVars, timeVars, loopVars
<1>4. CASE EnterCall
  BY <1>4, <1>a DEF EnterCall, TimeInv, Starts, InCall, runVars, countVars, timeVars, loopVars
<1>5. CASE EndAtTotalBudget
  BY <1>5, <1>a DEF EndAtTotalBudget, TimeInv, Starts, InCall, runVars, countVars, timeVars,
     loopVars
<1>6. CASE NextTurn
  BY <1>6, <1>a DEF NextTurn, TimeInv, Starts, InCall, runVars, countVars, timeVars, loopVars
<1>7. CASE ExceptionEndsRun
  BY <1>7, <1>a DEF ExceptionEndsRun, TimeInv, Starts, InCall, runVars, countVars, timeVars,
     loopVars
<1>8. CASE ExceptionAfterExitEvent
  BY <1>8, <1>a DEF ExceptionAfterExitEvent, TimeInv, Starts, InCall, runVars, countVars,
     timeVars, loopVars
<1>9. CASE Done
  BY <1>9, <1>a DEF Done, TimeInv, Starts, InCall, runVars, countVars, timeVars, loopVars
<1>10. CASE NextChild
  BY <1>10, <1>a DEF NextChild, TimeInv, Starts, InCall, runVars, countVars, timeVars, loopVars
<1>11. CASE LoopEnds
  BY <1>11, <1>a DEF LoopEnds, TimeInv, Starts, InCall, runVars, countVars, timeVars, loopVars
<1>12. CASE LoopAtLimit
  BY <1>12, <1>a DEF LoopAtLimit, TimeInv, Starts, InCall, runVars, countVars, timeVars,
     loopVars
<1>13. CASE StartUnicorn
  BY <1>13, <1>a DEF StartUnicorn, TimeInv, Starts, InCall, runVars, countVars, timeVars,
     loopVars
<1>14. CASE LoopHandlesExit
  BY <1>14, <1>a DEF LoopHandlesExit, TimeInv, Starts, InCall, runVars, countVars, timeVars,
     loopVars
<1>15. CASE UnicornStopped
  <2>1. pc = "stopped" /\ pc' \in InCall /\ UNCHANGED timeVars
    BY <1>15 DEF UnicornStopped, InCall, countVars
  <2> QED BY <2>1 DEF TimeInv, Starts, InCall, timeVars
<1>16. CASE StopWithoutExit
  BY <1>16, <1>a DEF StopWithoutExit, TimeInv, Starts, InCall, runVars, countVars, timeVars,
     loopVars
<1>17. CASE HandleCpuException
  BY <1>17, <1>a DEF HandleCpuException, TimeInv, Starts, InCall, runVars, countVars, timeVars,
     loopVars
<1>18. CASE ApiAtLimit
  BY <1>18, <1>a DEF ApiAtLimit, TimeInv, Starts, InCall, runVars, countVars, timeVars, loopVars
<1>19. CASE EnterApi
  BY <1>19, <1>a DEF EnterApi, TimeInv, Starts, InCall, runVars, countVars, timeVars, loopVars
<1>20. CASE ExitAtTotalTime
  BY <1>20, <1>a DEF ExitAtTotalTime, TimeInv, Starts, InCall, runVars, countVars, timeVars,
     loopVars
<1>21. CASE HandleReturn
  BY <1>21, <1>a DEF HandleReturn, TimeInv, Starts, InCall, runVars, countVars, timeVars,
     loopVars
<1>22. CASE HandleRecovery
  BY <1>22, <1>a DEF HandleRecovery, TimeInv, Starts, InCall, runVars, countVars, timeVars,
     loopVars
<1>23. CASE HandleCallbackReturn
  BY <1>23, <1>a DEF HandleCallbackReturn, TimeInv, Starts, InCall, runVars, countVars,
     timeVars, loopVars
<1>24. CASE Handled
  BY <1>24, <1>a DEF Handled, TimeInv, Starts, InCall, runVars, countVars, timeVars, loopVars
<1>25. CASE FinishCall
  BY <1>25, <1>a DEF FinishCall, TotalAfter, TimeInv, Starts, InCall
<1>26. CASE ApiReturns
  BY <1>26, <1>a DEF ApiReturns, TimeInv, Starts, InCall, runVars, countVars, timeVars, loopVars
<1>27. CASE ApiEndsRun
  BY <1>27, <1>a DEF ApiEndsRun, TimeInv, Starts, InCall, runVars, countVars, timeVars, loopVars
<1>28. CASE ApiStartsCallback
  BY <1>28, <1>a DEF ApiStartsCallback, TimeInv, Starts, InCall, runVars, countVars, timeVars,
     loopVars
<1>29. CASE ApiRaisesInGuest
  BY <1>29, <1>a DEF ApiRaisesInGuest, TimeInv, Starts, InCall, runVars, countVars, timeVars,
     loopVars
<1>30. ASSUME NEW t \in Threads, ApiCreatesThread(t)
       PROVE  TimeInv' /\ (Starts => ~LimitReached)
  BY <1>30, <1>a DEF ApiCreatesThread, TimeInv, Starts, InCall, runVars, countVars, timeVars,
     loopVars
<1>31. ASSUME NEW t \in Threads, ApiResumesThread(t)
       PROVE  TimeInv' /\ (Starts => ~LimitReached)
  BY <1>31, <1>a DEF ApiResumesThread, TimeInv, Starts, InCall, runVars, countVars, timeVars,
     loopVars
<1>32. ASSUME NEW t \in Threads, ApiSuspendsThread(t)
       PROVE  TimeInv' /\ (Starts => ~LimitReached)
  BY <1>32, <1>a DEF ApiSuspendsThread, TimeInv, Starts, InCall, runVars, countVars, timeVars,
     loopVars
<1>33. CASE ApiHandlerRaises
  BY <1>33, <1>a DEF ApiHandlerRaises, TimeInv, Starts, InCall, runVars, countVars, timeVars,
     loopVars
<1>34. CASE ApiArgumentFault
  BY <1>34, <1>a DEF ApiArgumentFault, TimeInv, Starts, InCall, runVars, countVars, timeVars,
     loopVars
<1>35. CASE ApiHookRaises
  BY <1>35, <1>a DEF ApiHookRaises, TimeInv, Starts, InCall, runVars, countVars, timeVars,
     loopVars
<1>36. CASE ApiUnsupported
  BY <1>36, <1>a DEF ApiUnsupported, TimeInv, Starts, InCall, runVars, countVars, timeVars,
     loopVars
<1>37. CASE ApiLimitReached
  BY <1>37, <1>a DEF ApiLimitReached, TimeInv, Starts, InCall, runVars, countVars, timeVars,
     loopVars
<1>38. CASE ApiLimitNotReached
  BY <1>38, <1>a DEF ApiLimitNotReached, TimeInv, Starts, InCall, runVars, countVars, timeVars,
     loopVars
<1>39. CASE ApiDidNotReturn
  BY <1>39, <1>a DEF ApiDidNotReturn, TimeInv, Starts, InCall, runVars, countVars, timeVars,
     loopVars
<1>40. CASE ApiDispatched
  BY <1>40, <1>a DEF ApiDispatched, TimeInv, Starts, InCall, runVars, countVars, timeVars,
     loopVars
<1>41. CASE GuestInstruction
  BY <1>41, <1>a DEF GuestInstruction, TimeInv, Starts, InCall, runVars, countVars, timeVars,
     loopVars
<1>42. ASSUME NEW kind \in ExitKinds, RecordExit(kind)
       PROVE  TimeInv' /\ (Starts => ~LimitReached)
  BY <1>42, <1>a DEF RecordExit, TimeInv, Starts, InCall, runVars, countVars, timeVars, loopVars
<1>43. CASE EngineStops
  BY <1>43, <1>a DEF EngineStops, TimeInv, Starts, InCall, runVars, countVars, timeVars,
     loopVars
<1>44. CASE HookStops
  BY <1>44, <1>a DEF HookStops, TimeInv, Starts, InCall, runVars, countVars, timeVars, loopVars
<1>45. CASE HookFails
  BY <1>45, <1>a DEF HookFails, TimeInv, Starts, InCall, runVars, countVars, timeVars, loopVars
<1>46. CASE UnhandledInterrupt
  BY <1>46, <1>a DEF UnhandledInterrupt, TimeInv, Starts, InCall, runVars, countVars, timeVars,
     loopVars
<1>47. CASE DeferredWork
  BY <1>47, <1>a DEF DeferredWork, TimeInv, Starts, InCall, runVars, countVars, timeVars,
     loopVars
<1>48. CASE EngineRaises
  BY <1>48, <1>a DEF EngineRaises, TimeInv, Starts, InCall, runVars, countVars, timeVars,
     loopVars
<1>49. CASE Tick
  BY <1>49, <1>a DEF Tick, TimeInv, Starts, InCall, runVars, countVars, timeVars, loopVars
<1>50. CASE SetExitEvent
  BY <1>50, <1>a DEF SetExitEvent, TimeInv, Starts, InCall, runVars, countVars, timeVars,
     loopVars
<1>51. CASE UNCHANGED vars
  BY <1>51, <1>a DEF vars, TimeInv, Starts, InCall, runVars, countVars, timeVars, loopVars
<1> QED
  BY <1>1, <1>2, <1>3, <1>4, <1>5, <1>6, <1>7, <1>8, <1>9, <1>10, <1>11, <1>12, <1>13,
     <1>14, <1>15, <1>16, <1>17, <1>18, <1>19, <1>20, <1>21, <1>22, <1>23, <1>24, <1>25, <1>26,
     <1>27, <1>28, <1>29, <1>30, <1>31, <1>32, <1>33, <1>34, <1>35, <1>36, <1>37, <1>38, <1>39,
     <1>40, <1>41, <1>42, <1>43, <1>44, <1>45, <1>46, <1>47, <1>48, <1>49, <1>50, <1>51 DEF
     Next, LoopStep, ApiStep, GuestStep, Terminated

\* ticks is the time of all calls.
LEMMA TimeInvariant == Spec => []TimeInv
<1>1. Init => TimeInv
  BY DEF Init, TimeInv, InCall
<1>2. LoopInv /\ TimeInv /\ [Next]_vars => TimeInv'
  BY TimeStep DEF LoopInv, TypeInv
<1> QED BY <1>1, <1>2, LoopInvariant, PTL DEF Spec

\* Once the calls took the total time together, neither Unicorn nor an API
\* starts again, and at the end nothing is left.
THEOREM TotalTimeIsKept == Spec => TotalTimeEndsAll
<1>1. LoopInv /\ TimeInv /\ [Next]_vars =>
        (TotalTime > 0 /\ Starts => ticks < TotalTime /\ ~exhausted)
  <2> SUFFICES ASSUME TypeOK, Control, TimeInv, [Next]_vars, TotalTime > 0, Starts
               PROVE  ticks < TotalTime /\ ~exhausted
    BY DEF LoopInv, TypeInv
  <2>1. ~LimitReached
    BY TimeStep
  <2>2. now < Deadline
    BY <2>1, LimitsAssumption
       DEF LimitReached, DeadlineReached, Deadline, TotalIsNearer, TotalLeft, TypeOK
  <2>3. total + now < TotalTime
    BY <2>2, DeadlineInTotalTime
  <2>4. ~exhausted
    BY DEF Starts, Control
  <2> QED BY <2>3, <2>4 DEF TimeInv, Starts, InCall
<1>2. LoopInv /\ TimeInv /\ [Next]_vars =>
        [TotalTime > 0 /\ pc \in {"loop", "exit"} /\ pc' \in {"guest", "api"}
           => ticks < TotalTime /\ ~exhausted]_vars
  BY <1>1 DEF Starts
<1>3. Spec => NothingStartsAfterTotalTime
  BY <1>2, LoopInvariant, TimeInvariant, PTL DEF Spec, NothingStartsAfterTotalTime
<1> QED BY <1>3, EndLeavesNothing, PTL DEF TotalTimeEndsAll
=============================================================================
