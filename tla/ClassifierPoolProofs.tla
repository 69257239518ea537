------------------------ MODULE ClassifierPoolProofs ------------------------
(***************************************************************************)
(* Proofs about ClassifierPool for any number of classifiers and threads.  *)
(***************************************************************************)
EXTENDS ClassifierPool, Integers, FiniteSetTheorems, TLAPS

-----------------------------------------------------------------------------
(* The list: what borrowing and returning do to its members.               *)
LEMMA Members ==
  ASSUME NEW q \in Seq(Agents)
  PROVE  /\ Len(q) \in Nat /\ DOMAIN q = 1..Len(q)
         /\ ToSet(q) = {q[k] : k \in 1..Len(q)}
BY DEF ToSet

LEMMA TakeFirst ==
  ASSUME NEW q \in Seq(Agents), q # <<>>, IsInjective(q)
  PROVE  /\ Tail(q) \in Seq(Agents) /\ IsInjective(Tail(q))
         /\ Head(q) \in Agents /\ Head(q) \notin ToSet(Tail(q))
         /\ ToSet(q) = {Head(q)} \cup ToSet(Tail(q))
<1>1. /\ Tail(q) \in Seq(Agents) /\ Len(q) \in Nat \ {0}
      /\ Head(q) = q[1] /\ Head(q) \in Agents
      /\ Len(Tail(q)) = Len(q) - 1
      /\ \A k \in 1..Len(Tail(q)) : Tail(q)[k] = q[k + 1]
  OBVIOUS
<1>2. \A i, j \in 1..Len(q) : q[i] = q[j] => i = j
  BY Members DEF IsInjective
<1>3. IsInjective(Tail(q))
  <2> SUFFICES ASSUME NEW i \in 1..Len(Tail(q)), NEW j \in 1..Len(Tail(q)),
                      Tail(q)[i] = Tail(q)[j]
               PROVE  i = j
    BY <1>1, Members DEF IsInjective
  <2>1. /\ i \in Int /\ j \in Int
        /\ i + 1 \in 1..Len(q) /\ j + 1 \in 1..Len(q) /\ q[i + 1] = q[j + 1]
    BY <1>1
  <2>2. i + 1 = j + 1
    BY <1>2, <2>1
  <2> QED BY <2>1, <2>2
<1>4. ASSUME NEW k \in 1..Len(Tail(q))
      PROVE  Tail(q)[k] # Head(q) /\ Tail(q)[k] \in ToSet(q)
  <2>1. k + 1 \in 1..Len(q) /\ 1 \in 1..Len(q) /\ k + 1 # 1
    BY <1>1
  <2> QED BY <1>1, <1>2, <2>1, Members
<1>5. ASSUME NEW k \in 1..Len(q), k # 1
      PROVE  q[k] \in ToSet(Tail(q))
  <2>1. k - 1 \in 1..Len(Tail(q)) /\ Tail(q)[k - 1] = q[k]
    BY <1>1, <1>5
  <2> QED BY <1>1, <2>1, Members
<1>6. Head(q) \in ToSet(q)
  <2>1. 1 \in 1..Len(q)
    BY <1>1
  <2> QED BY <1>1, <2>1, Members
<1>7. ToSet(q) = {Head(q)} \cup ToSet(Tail(q)) /\ Head(q) \notin ToSet(Tail(q))
  <2> DEFINE p == Tail(q)
  <2>1. /\ ToSet(q) = {q[k] : k \in 1..Len(q)}
        /\ ToSet(p) = {p[k] : k \in 1..Len(p)}
    BY <1>1, Members
  <2>2. \A k \in 1..Len(p) : p[k] # Head(q) /\ p[k] \in ToSet(q)
    BY <1>4
  <2>3. \A k \in 1..Len(q) : q[k] = Head(q) \/ q[k] \in ToSet(p)
    BY <1>1, <1>5
  <2> HIDE DEF p
  <2>4. ToSet(q) = {Head(q)} \cup ToSet(p) /\ Head(q) \notin ToSet(p)
    BY <1>6, <2>1, <2>2, <2>3
  <2> QED BY <2>4 DEF p
<1> QED BY <1>1, <1>3, <1>7

LEMMA PutLast ==
  ASSUME NEW q \in Seq(Agents), IsInjective(q), NEW a \in Agents, a \notin ToSet(q)
  PROVE  /\ Append(q, a) \in Seq(Agents) /\ IsInjective(Append(q, a))
         /\ ToSet(Append(q, a)) = ToSet(q) \cup {a}
<1> DEFINE r == Append(q, a)
<1>1. /\ r \in Seq(Agents) /\ Len(q) \in Nat /\ Len(r) = Len(q) + 1
      /\ r[Len(q) + 1] = a
      /\ \A k \in 1..Len(q) : r[k] = q[k]
  OBVIOUS
<1>2. \A i, j \in 1..Len(q) : q[i] = q[j] => i = j
  BY Members DEF IsInjective
<1> HIDE DEF r
<1>3. ASSUME NEW k \in 1..Len(r)
      PROVE  \/ k \in 1..Len(q) /\ r[k] = q[k] /\ q[k] \in ToSet(q)
             \/ k = Len(q) + 1 /\ r[k] = a
  <2>1. k \in 1..Len(q) => q[k] \in ToSet(q)
    BY Members
  <2> QED BY <1>1, <2>1
<1>4. IsInjective(r)
  <2> SUFFICES ASSUME NEW i \in 1..Len(r), NEW j \in 1..Len(r), r[i] = r[j]
               PROVE  i = j
    BY <1>1, Members DEF IsInjective
  <2>1. \A k \in 1..Len(q) : q[k] # a
    BY Members
  <2> QED BY <1>2, <1>3, <2>1
<1>5. a \in ToSet(r) /\ \A k \in 1..Len(q) : q[k] \in ToSet(r)
  <2>1. Len(q) + 1 \in 1..Len(r) /\ \A k \in 1..Len(q) : k \in 1..Len(r)
    BY <1>1
  <2>2. ToSet(r) = {r[k] : k \in 1..Len(r)}
    BY <1>1, Members
  <2> QED BY <1>1, <2>1, <2>2
<1>6. ToSet(r) = ToSet(q) \cup {a}
  <2>1. /\ ToSet(q) = {q[k] : k \in 1..Len(q)}
        /\ ToSet(r) = {r[k] : k \in 1..Len(r)}
    BY <1>1, Members
  <2> QED BY <1>3, <1>5, <2>1
<1> QED BY <1>1, <1>4, <1>6 DEF r

-----------------------------------------------------------------------------
Inv == TypeOK /\ Exclusive /\ Conserved

LEMMA InvInit == Init => Inv
<1> SUFFICES ASSUME Init
             PROVE  Inv
  OBVIOUS
<1> USE PoolAssumption DEF Init
<1> DEFINE n == Cardinality(Agents)
<1>1. n \in Nat /\ IsFiniteSet(1..n) /\ Cardinality(1..n) = n
  BY FS_CardinalityType, FS_Interval
<1>2. /\ agentList_ \in [1..n -> Agents]
      /\ \A i, j \in 1..n : agentList_[i] = agentList_[j] => i = j
  BY DEF SetToSeqs
<1>3. agentList_ \in Seq(Agents) /\ Len(agentList_) = n
  BY <1>1, <1>2
<1>4. IsInjective(agentList_)
  BY <1>2 DEF IsInjective
<1>5. agentList_ \in Surjection(1..n, Agents)
  <2>1. agentList_ \in Injection(1..n, Agents)
    BY <1>2, <1>4 DEF Injection
  <2> QED BY <1>1, <2>1, FS_Injection
<1>6. Free = Agents
  <2>1. \A a \in Agents : \E k \in 1..n : agentList_[k] = a
    BY <1>5 DEF Surjection
  <2>2. ToSet(agentList_) = {agentList_[k] : k \in 1..n}
    BY <1>3, Members
  <2> QED BY <1>2, <2>1, <2>2 DEF Free
<1>7. Borrowed = {}
  BY DEF Borrowed
<1>8. TypeOK
  BY <1>3 DEF TypeOK
<1> QED BY <1>4, <1>6, <1>7, <1>8 DEF Inv, Exclusive, Conserved

LEMMA InvStep == Inv /\ [Next]_vars => Inv'
<1> SUFFICES ASSUME Inv, [Next]_vars
             PROVE  Inv'
  OBVIOUS
<1> USE PoolAssumption
<1>1. ASSUME NEW t \in Threads, GetClassifier(t), agentList_ # <<>>
      PROVE  Inv'
  <2>1. /\ cascade_[t] = NULL /\ inside' = inside \cup {t} /\ down' = down
        /\ cascade_' = [cascade_ EXCEPT ![t] = Head(agentList_)]
        /\ agentList_' = Tail(agentList_)
    BY <1>1 DEF GetClassifier, Inv, TypeOK
  <2>2. /\ Tail(agentList_) \in Seq(Agents) /\ IsInjective(Tail(agentList_))
        /\ Head(agentList_) \in Agents /\ Head(agentList_) \notin Free'
        /\ Free = {Head(agentList_)} \cup Free'
    BY <1>1, <2>1, TakeFirst DEF Inv, TypeOK, Conserved, Free
  <2>3. Borrowed' = Borrowed \cup {Head(agentList_)}
    BY <2>1, <2>2 DEF Borrowed, Inv, TypeOK
  <2>4. TypeOK'
    BY <2>1, <2>2 DEF Inv, TypeOK
  <2>5. \A s \in Threads : cascade_[s] # Head(agentList_)
    BY <2>2 DEF Inv, Exclusive, Borrowed
  <2>6. Exclusive'
    BY <2>1, <2>2, <2>3, <2>5 DEF Inv, TypeOK, Exclusive
  <2>7. Conserved'
    BY <2>1, <2>2, <2>3 DEF Inv, Conserved
  <2> QED BY <2>4, <2>6, <2>7 DEF Inv
<1>2. ASSUME NEW t \in Threads, ReturnResource(t)
      PROVE  Inv'
  <2> DEFINE a == cascade_[t]
  <2>1. /\ a \in Agents /\ inside' = inside \ {t} /\ down' = down
        /\ cascade_' = [cascade_ EXCEPT ![t] = NULL]
        /\ agentList_' = Append(agentList_, a)
    BY <1>2 DEF ReturnResource, Inv, TypeOK
  <2>2. a \in Borrowed /\ a \notin Free
    BY <2>1 DEF Inv, Exclusive, Borrowed
  <2>3. \A s \in Threads : s # t => cascade_[s] # a
    BY <2>1 DEF Inv, Exclusive
  <2>4. /\ agentList_' \in Seq(Agents) /\ IsInjective(agentList_')
        /\ Free' = Free \cup {a}
    BY <2>1, <2>2, PutLast DEF Inv, TypeOK, Conserved, Free
  <2>5. Borrowed' = Borrowed \ {a}
    BY <2>1, <2>3 DEF Borrowed, Inv, TypeOK
  <2>6. TypeOK'
    BY <2>1, <2>3, <2>4 DEF Inv, TypeOK
  <2>7. Exclusive'
    BY <2>1, <2>4, <2>5 DEF Inv, TypeOK, Exclusive
  <2>8. Conserved'
    BY <2>2, <2>4, <2>5 DEF Inv, Conserved
  <2> QED BY <2>6, <2>7, <2>8 DEF Inv
<1>3. CASE UNCHANGED <<agentList_, cascade_>> /\ inside' \in SUBSET Threads
           /\ inside \subseteq inside' /\ down' \in BOOLEAN
  BY <1>3 DEF Inv, TypeOK, Exclusive, Conserved, Free, Borrowed
<1> QED
  BY <1>1, <1>2, <1>3
  DEF Next, GetClassifier, DetectOnNull, vars, Inv, TypeOK

(* Classifiers are lent to one thread at a time and never lost.            *)
THEOREM Invariance == Spec => []Inv
BY InvInit, InvStep, PTL DEF Spec

(* No two threads use one classifier at once.                              *)
THEOREM AlwaysExclusive == Spec => []Exclusive
BY Invariance, PTL DEF Inv

(* The pool keeps all its classifiers.                                     *)
THEOREM AlwaysConserved == Spec => []Conserved
BY Invariance, PTL DEF Inv

LEMMA EmptyMeansAllOut ==
  ASSUME Inv, agentList_ = <<>>, NEW a \in Agents
  PROVE  \E s \in inside : cascade_[s] = a
<1>1. Free = {}
  BY DEF Free, ToSet
<1> QED BY <1>1, PoolAssumption DEF Inv, TypeOK, Conserved, Borrowed

(* A thread that gets no classifier finds them all in the hands of others. *)
THEOREM NullNeedsAllOut == Spec => NullOnlyWhenAllOut
<1>1. ASSUME Inv, [Next]_vars, NEW t \in Threads, t \in inside' \ inside,
             cascade_'[t] = NULL
      PROVE  \A a \in Agents : \E s \in inside : s # t /\ cascade_[s] = a
  <2>1. PICK u \in Threads :
          GetClassifier(u) \/ ReturnResource(u) \/ DetectOnNull(u)
    BY <1>1 DEF Next, vars
  <2>2. GetClassifier(t)
    BY <1>1, <2>1 DEF GetClassifier, ReturnResource, DetectOnNull
  <2>3. agentList_ = <<>>
    <3>1. agentList_ # <<>> => Head(agentList_) \in Agents
      BY <1>1, TakeFirst DEF Inv, TypeOK, Conserved
    <3> QED BY <1>1, <2>2, <3>1, PoolAssumption DEF GetClassifier, Inv, TypeOK
  <2> QED BY <1>1, <2>3, EmptyMeansAllOut
<1>2. Inv /\ [Next]_vars =>
        [\A t \in Threads : t \in inside' \ inside /\ cascade_'[t] = NULL =>
           \A a \in Agents : \E s \in inside : s # t /\ cascade_[s] = a]_vars
  BY <1>1
<1> QED BY <1>2, Invariance, PTL DEF Spec, NullOnlyWhenAllOut

-----------------------------------------------------------------------------
(* With no more threads than classifiers, as with the ten threads of one   *)
(* decode pool and ten classifiers, the null pointer is never used.        *)
THEOREM EnoughClassifiers ==
  ASSUME Cardinality(Threads) <= Cardinality(Agents)
  PROVE  Spec => [](~down)
<1> USE PoolAssumption
<1> DEFINE Served == ~down /\ \A t \in inside : cascade_[t] # NULL
<1>1. Init => Served
  BY DEF Init
<1>2. ASSUME Inv, Served, NEW t \in Threads \ inside
      PROVE  agentList_ # <<>>
  <2> SUFFICES ASSUME agentList_ = <<>>
               PROVE  FALSE
    OBVIOUS
  <2> DEFINE holder == [a \in Agents |-> CHOOSE s \in inside : cascade_[s] = a]
             others == Threads \ {t}
  <2>1. \A a \in Agents : holder[a] \in inside /\ cascade_[holder[a]] = a
    BY <1>2, EmptyMeansAllOut
  <2>2. holder \in [Agents -> others]
    BY <1>2, <2>1 DEF Inv, TypeOK
  <2>3. IsFiniteSet(others) /\ Cardinality(others) < Cardinality(Agents)
    <3>1. /\ t \in Threads /\ IsFiniteSet(others)
          /\ Cardinality(others) = Cardinality(Threads) - 1
      BY FS_RemoveElement
    <3>2. Cardinality(Threads) \in Nat /\ Cardinality(Agents) \in Nat
      BY FS_CardinalityType
    <3> QED BY <3>1, <3>2
  <2> HIDE DEF holder, others
  <2>4. PICK a \in Agents, b \in Agents : a # b /\ holder[a] = holder[b]
    BY <2>2, <2>3, FS_PigeonHole
  <2> QED BY <2>1, <2>4
<1>3. Inv /\ Served /\ [Next]_vars => Served'
  <2> SUFFICES ASSUME Inv, Served, [Next]_vars
               PROVE  Served'
    OBVIOUS
  <2>1. ASSUME NEW t \in Threads, GetClassifier(t)
        PROVE  Served'
    <3>1. agentList_ # <<>>
      BY <1>2, <2>1 DEF GetClassifier
    <3>2. Head(agentList_) \in Agents
      BY <3>1, TakeFirst DEF Inv, TypeOK, Conserved
    <3> QED BY <2>1, <3>1, <3>2 DEF GetClassifier, Inv, TypeOK
  <2>2. ASSUME NEW t \in Threads, ReturnResource(t)
        PROVE  Served'
    BY <2>2 DEF ReturnResource, Inv, TypeOK
  <2>3. ASSUME NEW t \in Threads, DetectOnNull(t)
        PROVE  FALSE
    BY <2>3 DEF DetectOnNull
  <2> QED BY <2>1, <2>2, <2>3 DEF Next, vars
<1>4. Served => ~down
  OBVIOUS
<1> HIDE DEF Served
<1> QED BY <1>1, <1>3, <1>4, Invariance, PTL DEF Spec
=============================================================================
