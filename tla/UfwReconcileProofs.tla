------------------------- MODULE UfwReconcileProofs -------------------------
(* Proofs about UfwReconcile, for any number of calls and any set of ports   *)
(* and sources: types always, and what a reconciliation promises when calls  *)
(* come one after the other (MaxConcurrent = 1).                             *)
EXTENDS UfwReconcile, FiniteSetTheorems, FunctionTheorems,
        SequenceTheorems, TLAPS

V6(s) == s \in V6Sources \cup {Any6}

\* A rule for each port and source, of the family of its source.
OneRule(rs) ==
    /\ rs \in Seq(Rule)
    /\ \A n \in 1..Len(rs) : rs[n].v6 <=> V6(rs[n].src)
    /\ \A m, n \in 1..Len(rs) :
            rs[m].port = rs[n].port /\ rs[m].src = rs[n].src => m = n

Want(c) == Wanted(arg[c].desired)

LEMMA Constants ==
    /\ Any4 \in AllSources /\ Any6 \in AllSources /\ Any4 # Any6
    /\ ~V6(Any4) /\ V6(Any6)
    /\ AllSources \subseteq Nat
BY UfwAssumption DEF AllSources, V6, Any4

\* What the numbers of a port's rules have to do with its sources.
LEMMA ListedSources ==
    ASSUME NEW rs \in Seq(Rule), NEW p
    PROVE  SourcesOf(rs, p) = {rs[n].src : n \in Listed(rs, p)}
<1>1. DOMAIN rs = 1..Len(rs)
  OBVIOUS
<1>2. QED
  BY <1>1 DEF SourcesOf, Listed, Range

\* Rules joined from two lists.
LEMMA Joining ==
    ASSUME NEW a \in Seq(Rule), NEW b \in Seq(Rule)
    PROVE  /\ a \o b \in Seq(Rule)
           /\ Len(a \o b) = Len(a) + Len(b)
           /\ \A n \in 1..(Len(a) + Len(b)) :
                  (a \o b)[n] = IF n <= Len(a) THEN a[n] ELSE b[n - Len(a)]
BY ConcatProperties

\* A part of a list of rules.
LEMMA Cutting ==
    ASSUME NEW rs \in Seq(Rule), NEW m \in 1..(Len(rs) + 1), NEW n \in (m - 1)..Len(rs)
    PROVE  /\ SubSeq(rs, m, n) \in Seq(Rule)
           /\ Len(SubSeq(rs, m, n)) = n - m + 1
           /\ \A i \in 1..(n - m + 1) : SubSeq(rs, m, n)[i] = rs[m + i - 1]
<1>1. \A i \in m..n : rs[i] \in Rule
  OBVIOUS
<1>2. QED
  BY <1>1, SubSeqProperties

\* Deleting a rule moves the later ones up by one.
LEMMA Removing ==
    ASSUME NEW rs, OneRule(rs), NEW k \in 1..Len(rs)
    PROVE  /\ OneRule(RemoveAt(rs, k))
           /\ Len(RemoveAt(rs, k)) = Len(rs) - 1
           /\ \A n \in 1..(Len(rs) - 1) :
                  RemoveAt(rs, k)[n] = IF n < k THEN rs[n] ELSE rs[n + 1]
<1> DEFINE new == RemoveAt(rs, k)
<1> DEFINE front == SubSeq(rs, 1, k - 1)
<1> DEFINE back == SubSeq(rs, k + 1, Len(rs))
<1> HIDE DEF new, front, back
<1>1. rs \in Seq(Rule) /\ Len(rs) \in Nat
  BY DEF OneRule
<1>2. /\ front \in Seq(Rule) /\ Len(front) = k - 1
      /\ \A n \in 1..(k - 1) : front[n] = rs[n]
  BY <1>1, Cutting DEF front
<1>3. /\ back \in Seq(Rule) /\ Len(back) = Len(rs) - k
      /\ \A n \in 1..(Len(rs) - k) : back[n] = rs[k + n]
  <2>1. k + 1 \in 1..(Len(rs) + 1) /\ Len(rs) \in (k + 1 - 1)..Len(rs)
    BY <1>1
  <2>2. /\ back \in Seq(Rule)
        /\ Len(back) = Len(rs) - (k + 1) + 1
        /\ \A n \in 1..(Len(rs) - (k + 1) + 1) : back[n] = rs[(k + 1) + n - 1]
    BY <1>1, <2>1, Cutting DEF back
  <2>3. Len(rs) - (k + 1) + 1 = Len(rs) - k
    BY <1>1
  <2>4. \A n \in 1..(Len(rs) - k) : (k + 1) + n - 1 = k + n
    BY <1>1
  <2>5. QED
    BY <2>2, <2>3, <2>4
<1>0. new = front \o back
  BY DEF RemoveAt, new, front, back
<1>4. new \in Seq(Rule) /\ Len(new) = Len(rs) - 1
  <2>1. new \in Seq(Rule) /\ Len(new) = Len(front) + Len(back)
    BY <1>2, <1>3, <1>0, Joining
  <2>2. (k - 1) + (Len(rs) - k) = Len(rs) - 1
    BY <1>1
  <2>3. QED
    BY <1>2, <1>3, <2>1, <2>2
<1>5. ASSUME NEW n \in 1..(Len(rs) - 1)
      PROVE  new[n] = IF n < k THEN rs[n] ELSE rs[n + 1]
  <2>1. new[n] = IF n <= k - 1 THEN front[n] ELSE back[n - (k - 1)]
    BY <1>1, <1>2, <1>3, <1>0, Joining
  <2>2. CASE n < k
    BY <1>1, <1>2, <2>1, <2>2
  <2>3. CASE ~(n < k)
    <3>1. n - (k - 1) \in 1..(Len(rs) - k) /\ k + (n - (k - 1)) = n + 1
      BY <1>1, <2>3
    <3>2. QED
      BY <1>1, <1>3, <2>1, <2>3, <3>1
  <2>4. QED
    BY <2>2, <2>3
<1>6. OneRule(new)
  <2> DEFINE At(n) == IF n < k THEN n ELSE n + 1
  <2>1. /\ \A n \in 1..Len(new) : At(n) \in 1..Len(rs) /\ new[n] = rs[At(n)]
        /\ \A m, n \in 1..Len(new) : At(m) = At(n) => m = n
    BY <1>1, <1>4, <1>5
  <2> HIDE DEF At
  <2>2. ASSUME NEW n \in 1..Len(new) PROVE new[n].v6 <=> V6(new[n].src)
    BY <2>1 DEF OneRule
  <2>3. ASSUME NEW m \in 1..Len(new), NEW n \in 1..Len(new),
               new[m].port = new[n].port, new[m].src = new[n].src
        PROVE  m = n
    BY <2>1, <2>3 DEF OneRule
  <2>4. QED
    BY <1>4, <2>2, <2>3 DEF OneRule
<1>7. QED
  BY <1>4, <1>5, <1>6 DEF new

\* Inserting a rule at position k moves the rules from there on down by one.
LEMMA Inserting ==
    ASSUME NEW rs \in Seq(Rule), NEW k \in 1..(Len(rs) + 1), NEW r \in Rule
    PROVE  /\ InsertAt(rs, k, r) \in Seq(Rule)
           /\ Len(InsertAt(rs, k, r)) = Len(rs) + 1
           /\ \A n \in 1..(Len(rs) + 1) :
                  InsertAt(rs, k, r)[n] =
                      IF n < k THEN rs[n] ELSE IF n = k THEN r ELSE rs[n - 1]
<1> DEFINE new == InsertAt(rs, k, r)
<1> DEFINE front == SubSeq(rs, 1, k - 1)
<1> DEFINE back == SubSeq(rs, k, Len(rs))
<1> DEFINE head == front \o <<r>>
<1> HIDE DEF new, front, back, head
<1>1. Len(rs) \in Nat
  OBVIOUS
<1>2. /\ front \in Seq(Rule) /\ Len(front) = k - 1
      /\ \A n \in 1..(k - 1) : front[n] = rs[n]
  BY <1>1, Cutting DEF front
<1>3. /\ back \in Seq(Rule) /\ Len(back) = Len(rs) - k + 1
      /\ \A n \in 1..(Len(rs) - k + 1) : back[n] = rs[k + n - 1]
  BY <1>1, Cutting DEF back
<1>4. <<r>> \in Seq(Rule) /\ Len(<<r>>) = 1 /\ <<r>>[1] = r
  OBVIOUS
<1>5. /\ head \in Seq(Rule) /\ Len(head) = k
      /\ \A n \in 1..k : head[n] = IF n < k THEN rs[n] ELSE r
  <2>1. /\ head \in Seq(Rule) /\ Len(head) = Len(front) + Len(<<r>>)
        /\ \A n \in 1..(Len(front) + Len(<<r>>)) :
               head[n] = IF n <= Len(front) THEN front[n] ELSE <<r>>[n - Len(front)]
    BY <1>2, <1>4, Joining DEF head
  <2>2. Len(front) + Len(<<r>>) = k
    BY <1>2, <1>4
  <2>3. ASSUME NEW n \in 1..k PROVE head[n] = IF n < k THEN rs[n] ELSE r
    <3>1. CASE n < k
      BY <1>2, <2>1, <2>2, <3>1
    <3>2. CASE n = k
      <4>1. head[n] = <<r>>[n - Len(front)] /\ n - Len(front) = 1
        BY <1>2, <2>1, <2>2, <3>2
      <4>2. QED
        BY <1>4, <3>2, <4>1
    <3>3. QED
      BY <3>1, <3>2
  <2>4. QED
    BY <2>1, <2>2, <2>3
<1>6. new = head \o back
  BY DEF InsertAt, new, head, front, back
<1>7. new \in Seq(Rule) /\ Len(new) = Len(rs) + 1
  <2>1. new \in Seq(Rule) /\ Len(new) = Len(head) + Len(back)
    BY <1>3, <1>5, <1>6, Joining
  <2>2. k + (Len(rs) - k + 1) = Len(rs) + 1
    BY <1>1
  <2>3. QED
    BY <1>3, <1>5, <2>1, <2>2
<1>8. ASSUME NEW n \in 1..(Len(rs) + 1)
      PROVE  new[n] = IF n < k THEN rs[n] ELSE IF n = k THEN r ELSE rs[n - 1]
  <2>1. new[n] = IF n <= k THEN head[n] ELSE back[n - k]
    BY <1>1, <1>3, <1>5, <1>6, Joining
  <2>2. CASE n <= k
    BY <1>1, <1>5, <2>1, <2>2
  <2>3. CASE ~(n <= k)
    <3>1. n - k \in 1..(Len(rs) - k + 1) /\ k + (n - k) - 1 = n - 1
      BY <1>1, <2>3
    <3>2. QED
      BY <1>3, <2>1, <2>3, <3>1
  <2>4. QED
    BY <2>2, <2>3
<1>9. QED
  BY <1>7, <1>8 DEF new

\* A new rule is in the list once, and only its port has one more source.
LEMMA Adding ==
    ASSUME NEW rs, OneRule(rs), NEW r \in Rule, r.v6 <=> V6(r.src)
    PROVE  /\ OneRule(AddRule(rs, r))
           /\ SourcesOf(AddRule(rs, r), r.port) = SourcesOf(rs, r.port) \cup {r.src}
           /\ \A p : p # r.port => SourcesOf(AddRule(rs, r), p) = SourcesOf(rs, p)
<1> DEFINE new == AddRule(rs, r)
<1>1. rs \in Seq(Rule) /\ Len(rs) \in Nat /\ Range(rs) = {rs[n] : n \in 1..Len(rs)}
  BY DEF OneRule, Range
<1>2. CASE r \in Range(rs)
  BY <1>2 DEF AddRule, SourcesOf
<1>3. CASE r \notin Range(rs)
  <2>1. PICK k \in 1..(Len(rs) + 1) :
          /\ new \in Seq(Rule) /\ Len(new) = Len(rs) + 1
          /\ \A n \in 1..(Len(rs) + 1) :
                new[n] = IF n < k THEN rs[n] ELSE IF n = k THEN r ELSE rs[n - 1]
    <3>1. CASE r.v6
      <4>1. new = Append(rs, r)
        BY <1>3, <3>1 DEF AddRule
      <4>2. /\ new \in Seq(Rule) /\ Len(new) = Len(rs) + 1
            /\ new[Len(rs) + 1] = r /\ \A n \in 1..Len(rs) : new[n] = rs[n]
        BY <1>1, <4>1, AppendProperties
      <4> HIDE DEF new
      <4>3. \A n \in 1..(Len(rs) + 1) :
                new[n] = IF n < Len(rs) + 1 THEN rs[n]
                         ELSE IF n = Len(rs) + 1 THEN r ELSE rs[n - 1]
        BY <1>1, <4>2
      <4>4. QED
        BY <1>1, <4>2, <4>3
    <3>2. CASE ~r.v6
      <4> DEFINE four == {n \in 1..Len(rs) : ~rs[n].v6}
      <4>1. Cardinality(four) \in 0..Len(rs)
        <5>1. IsFiniteSet(1..Len(rs)) /\ Cardinality(1..Len(rs)) = Len(rs)
          BY <1>1, FS_Interval
        <5>2. four \in SUBSET (1..Len(rs))
          OBVIOUS
        <5>3. QED
          BY <1>1, <5>1, <5>2, FS_Subset, FS_CardinalityType
      <4>2. new = InsertAt(rs, Cardinality(four) + 1, r)
        BY <1>3, <3>2 DEF AddRule
      <4> DEFINE i == Cardinality(four) + 1
      <4> HIDE DEF new, four
      <4>3. i \in 1..(Len(rs) + 1)
        BY <1>1, <4>1
      <4>4. new = InsertAt(rs, i, r)
        BY <4>2
      <4> HIDE DEF i
      <4>5. rs \in Seq(Rule)
        BY <1>1
      <4>6. /\ InsertAt(rs, i, r) \in Seq(Rule)
            /\ Len(InsertAt(rs, i, r)) = Len(rs) + 1
            /\ \A n \in 1..(Len(rs) + 1) :
                  InsertAt(rs, i, r)[n] =
                      IF n < i THEN rs[n] ELSE IF n = i THEN r ELSE rs[n - 1]
        BY <4>3, <4>5, Inserting
      <4>7. new \in Seq(Rule) /\ Len(new) = Len(rs) + 1
        BY <4>4, <4>6
      <4>8. \A n \in 1..(Len(rs) + 1) :
                new[n] = IF n < i THEN rs[n] ELSE IF n = i THEN r ELSE rs[n - 1]
        BY <4>4, <4>6
      <4>9. QED
        BY <4>3, <4>7, <4>8
    <3>3. QED
      BY <3>1, <3>2
  <2> HIDE DEF new
  <2> DEFINE At(n) == IF n < k THEN n ELSE n - 1
  <2>2. /\ \A n \in 1..Len(new) : n # k => At(n) \in 1..Len(rs) /\ new[n] = rs[At(n)]
        /\ \A m, n \in 1..Len(new) : m # k /\ n # k /\ At(m) = At(n) => m = n
        /\ k \in 1..Len(new) /\ new[k] = r
    BY <1>1, <2>1
  <2> HIDE DEF At
  <2>3. \A m \in 1..Len(rs) : ~(rs[m].port = r.port /\ rs[m].src = r.src)
    <3> SUFFICES ASSUME NEW m \in 1..Len(rs), rs[m].port = r.port, rs[m].src = r.src
                 PROVE  FALSE
      OBVIOUS
    <3>1. rs[m] \in Rule /\ (rs[m].v6 <=> r.v6)
      BY <1>1 DEF OneRule
    <3>2. rs[m] = r
      BY <3>1 DEF Rule
    <3>3. QED
      BY <1>1, <1>3, <3>2
  <2>4. OneRule(new)
    <3>1. ASSUME NEW n \in 1..Len(new) PROVE new[n].v6 <=> V6(new[n].src)
      <4>1. CASE n = k
        BY <2>2, <4>1
      <4>2. CASE n # k
        BY <2>2, <4>2 DEF OneRule
      <4>3. QED
        BY <4>1, <4>2
    <3>2. ASSUME NEW m \in 1..Len(new), NEW n \in 1..Len(new),
                 new[m].port = new[n].port, new[m].src = new[n].src
          PROVE  m = n
      <4>1. CASE m = k \/ n = k
        BY <2>2, <2>3, <3>2, <4>1
      <4>2. CASE m # k /\ n # k
        BY <2>2, <3>2, <4>2 DEF OneRule
      <4>3. QED
        BY <4>1, <4>2
    <3>3. QED
      BY <2>1, <3>1, <3>2 DEF OneRule
  <2>5. Range(new) = Range(rs) \cup {r}
    <3>1. Range(new) = {new[n] : n \in 1..Len(new)}
      BY <2>1 DEF Range
    <3>2. ASSUME NEW n \in 1..Len(rs) PROVE rs[n] \in Range(new)
      <4>1. CASE n < k
        BY <1>1, <2>1, <3>1, <4>1
      <4>2. CASE ~(n < k)
        <5>1. n + 1 \in 1..Len(new) /\ new[n + 1] = rs[(n + 1) - 1]
          BY <1>1, <2>1, <4>2
        <5>2. QED
          BY <1>1, <3>1, <5>1
      <4>3. QED
        BY <4>1, <4>2
    <3>3. r \in Range(new)
      BY <1>1, <2>1, <3>1
    <3>4. ASSUME NEW n \in 1..Len(new) PROVE new[n] \in Range(rs) \cup {r}
      <4>1. CASE n = k
        BY <2>2, <4>1
      <4>2. CASE n # k
        BY <1>1, <2>2, <4>2
      <4>3. QED
        BY <4>1, <4>2
    <3>5. QED
      BY <1>1, <3>1, <3>2, <3>3, <3>4
  <2>6. QED
    BY <2>4, <2>5 DEF SourcesOf, new
<1>4. QED
  BY <1>2, <1>3

\* The sources that one command for s allows.
Opened(s) == IF s \in {Any4, Any6} THEN {Any4, Any6} ELSE {s}

LEMMA Allowing ==
    ASSUME NEW rs, OneRule(rs), NEW p \in Ports, NEW s \in AllSources
    PROVE  /\ OneRule(Allow(rs, p, s))
           /\ SourcesOf(Allow(rs, p, s), p) = SourcesOf(rs, p) \cup Opened(s)
           /\ \A q : q # p => SourcesOf(Allow(rs, p, s), q) = SourcesOf(rs, q)
<1>1. CASE s \in {Any4, Any6}
  <2> DEFINE r4 == [port |-> p, src |-> Any4, v6 |-> FALSE]
  <2> DEFINE r6 == [port |-> p, src |-> Any6, v6 |-> TRUE]
  <2> DEFINE rs4 == AddRule(rs, r4)
  <2>1. /\ r4 \in Rule /\ r4.port = p /\ r4.src = Any4 /\ (r4.v6 <=> V6(Any4))
        /\ r6 \in Rule /\ r6.port = p /\ r6.src = Any6 /\ (r6.v6 <=> V6(Any6))
    BY Constants DEF Rule
  <2>2. Allow(rs, p, s) = AddRule(rs4, r6)
    BY <1>1 DEF Allow
  <2> HIDE DEF r4, r6, rs4
  <2>3. /\ OneRule(rs4) /\ SourcesOf(rs4, p) = SourcesOf(rs, p) \cup {Any4}
        /\ \A q : q # p => SourcesOf(rs4, q) = SourcesOf(rs, q)
    <3>1. r4.v6 <=> V6(r4.src)
      BY <2>1
    <3>2. QED
      BY <2>1, <3>1, Adding DEF rs4
  <2>4. /\ OneRule(AddRule(rs4, r6))
        /\ SourcesOf(AddRule(rs4, r6), p) = SourcesOf(rs4, p) \cup {Any6}
        /\ \A q : q # p => SourcesOf(AddRule(rs4, r6), q) = SourcesOf(rs4, q)
    <3>1. r6.v6 <=> V6(r6.src)
      BY <2>1
    <3>2. QED
      <4>1. /\ OneRule(AddRule(rs4, r6))
            /\ SourcesOf(AddRule(rs4, r6), r6.port) = SourcesOf(rs4, r6.port) \cup {r6.src}
            /\ \A q : q # r6.port => SourcesOf(AddRule(rs4, r6), q) = SourcesOf(rs4, q)
        BY <2>1, <2>3, <3>1, Adding
      <4>2. QED
        BY <2>1, <4>1
  <2>5. Opened(s) = {Any4, Any6}
    BY <1>1 DEF Opened
  <2>6. QED
    BY <2>2, <2>3, <2>4, <2>5
<1>2. CASE s \notin {Any4, Any6}
  <2> DEFINE r == [port |-> p, src |-> s, v6 |-> s \in V6Sources]
  <2>1. r \in Rule /\ r.port = p /\ r.src = s
    BY DEF Rule
  <2>2. r.v6 <=> V6(r.src)
    BY <1>2 DEF V6
  <2>3. Allow(rs, p, s) = AddRule(rs, r)
    BY <1>2 DEF Allow
  <2>4. Opened(s) = {s}
    BY <1>2 DEF Opened
  <2> HIDE DEF r
  <2>5. QED
    BY <2>1, <2>2, <2>3, <2>4, Adding
<1>3. QED
  BY <1>1, <1>2

\* A finite set of rules of which each is determined by its port and source is
\* numbered without gaps: as many ranks as rules, and no two rules of one rank.
LEMMA Numbering ==
    ASSUME NEW set \in SUBSET {r \in Rule : r.v6 = (r.src \in V6Sources \cup {Any6})}
    PROVE  OneRule(Listing(set))
<1> DEFINE N == Cardinality(set)
<1> DEFINE Below(r) == {q \in set : Before(q, r)}
<1> DEFINE rank == [r \in set |-> Cardinality(Below(r))]
<1>1. \A r \in set : /\ r \in Rule /\ (r.v6 <=> V6(r.src))
                     /\ r.port \in Nat /\ r.src \in Nat /\ r.v6 \in BOOLEAN
  BY UfwAssumption, Constants DEF Rule, V6
<1>2. \A q, r \in set : q.port = r.port /\ q.src = r.src => q = r
  <2> SUFFICES ASSUME NEW q \in set, NEW r \in set, q.port = r.port, q.src = r.src
               PROVE  q = r
    OBVIOUS
  <2>1. q.v6 <=> r.v6
    BY <1>1
  <2>2. QED
    BY <1>1, <2>1 DEF Rule
<1>3. IsFiniteSet(set) /\ N \in Nat
  <2> DEFINE f == [r \in set |-> <<r.port, r.src>>]
  <2>1. IsFiniteSet(AllSources)
    <3>1. IsFiniteSet(Sources \cup {Any4})
      BY UfwAssumption, FS_AddElement
    <3>2. IsFiniteSet((Sources \cup {Any4}) \cup {Any6})
      BY <3>1, FS_AddElement
    <3>3. AllSources = (Sources \cup {Any4}) \cup {Any6}
      BY DEF AllSources
    <3>4. QED
      BY <3>2, <3>3
  <2>2. IsFiniteSet(Ports \X AllSources)
    BY <2>1, UfwAssumption, FS_Product
  <2>3. f \in [set -> Ports \X AllSources]
    BY <1>1 DEF Rule
  <2>4. \A a, b \in set : f[a] = f[b] => a = b
    BY <1>2
  <2> HIDE DEF f
  <2>5. f \in Injection(set, Ports \X AllSources)
    BY <2>3, <2>4, Fun_IsInj
  <2>6. QED
    BY <2>2, <2>5, FS_Injection, FS_CardinalityType
<1>4. \A r \in set : ~Before(r, r)
  BY <1>1 DEF Before
<1>5. \A q, r \in set : q # r => Before(q, r) \/ Before(r, q)
  BY <1>1, <1>2 DEF Before
<1>6. \A q, r, t \in set : Before(q, r) /\ Before(r, t) => Before(q, t)
  BY <1>1 DEF Before
<1> HIDE DEF N
<1>7. rank \in [set -> 0..(N - 1)]
  <2> SUFFICES ASSUME NEW r \in set PROVE Cardinality(Below(r)) \in 0..(N - 1)
    OBVIOUS
  <2>1. Below(r) \in SUBSET set /\ Below(r) # set
    BY <1>4
  <2> HIDE DEF Below
  <2>2. /\ IsFiniteSet(Below(r)) /\ Cardinality(Below(r)) <= N
        /\ Cardinality(Below(r)) # N
    BY <1>3, <2>1, FS_Subset DEF N
  <2>3. QED
    BY <1>3, <2>2, FS_CardinalityType
<1>8. \A q, r \in set : Before(q, r) => rank[q] # rank[r]
  <2> SUFFICES ASSUME NEW q \in set, NEW r \in set, Before(q, r)
               PROVE  Cardinality(Below(q)) # Cardinality(Below(r))
    OBVIOUS
  <2>1. Below(q) \in SUBSET Below(r) /\ q \in Below(r) /\ q \notin Below(q)
    BY <1>4, <1>6
  <2>2. Below(r) \in SUBSET set
    OBVIOUS
  <2> HIDE DEF Below
  <2>3. QED
    BY <1>3, <2>1, <2>2, FS_Subset
<1>9. \A q, r \in set : rank[q] = rank[r] => q = r
  BY <1>5, <1>8
<1>10. \A n \in 1..N : \E r \in set : rank[r] = n - 1
  <2> HIDE DEF rank
  <2>1. rank \in Injection(set, 0..(N - 1))
    BY <1>7, <1>9, Fun_IsInj
  <2>2. IsFiniteSet(0..(N - 1)) /\ Cardinality(0..(N - 1)) = N
    BY <1>3, FS_Interval
  <2>3. rank \in Surjection(set, 0..(N - 1))
    BY <2>1, <2>2, FS_Injection DEF N
  <2>4. \A k \in 0..(N - 1) : \E r \in set : rank[r] = k
    BY <2>3 DEF Surjection
  <2>5. QED
    BY <1>3, <2>4
<1>11. \A n \in 1..N : \E r \in set : Cardinality(Below(r)) = n - 1
  BY <1>10
<1> DEFINE list == Listing(set)
<1>12. list = [n \in 1..N |-> CHOOSE r \in set : Cardinality(Below(r)) = n - 1]
  BY DEF Listing, N
<1> HIDE DEF list, Below
<1>13. \A n \in 1..N : list[n] \in set /\ Cardinality(Below(list[n])) = n - 1
  BY <1>11, <1>12
<1>14. list \in Seq(Rule) /\ Len(list) = N
  BY <1>1, <1>3, <1>12, <1>13
<1>15. \A n \in 1..N : list[n].v6 <=> V6(list[n].src)
  BY <1>1, <1>13
<1>16. ASSUME NEW m \in 1..N, NEW n \in 1..N,
              list[m].port = list[n].port, list[m].src = list[n].src
       PROVE  m = n
  <2>1. list[m] = list[n]
    BY <1>2, <1>13, <1>16
  <2>2. m - 1 = n - 1
    BY <1>13, <2>1
  <2>3. QED
    BY <1>3, <2>2
<1>17. QED
  BY <1>14, <1>15, <1>16 DEF OneRule, list
-----------------------------------------------------------------------------
\* Types, the rules once each, and a port for each call that runs.
TypeInv ==
    /\ TypeOK
    /\ OneRule(rules)
    /\ \A c \in Running : arg[c].port \in Ports

LEMMA SomeSources ==
    ASSUME NEW rs \in Seq(Rule), NEW p
    PROVE  SourcesOf(rs, p) \in SUBSET AllSources
<1>1. \A r \in Range(rs) : r \in Rule
  <2>1. Range(rs) = {rs[n] : n \in 1..Len(rs)}
    BY DEF Range
  <2>2. QED
    BY <2>1
<1>2. QED
  BY <1>1 DEF SourcesOf, Rule

LEMMA WantedSources ==
    ASSUME NEW d \in SUBSET AllSources
    PROVE  Wanted(d) \in SUBSET AllSources
BY Constants DEF Wanted

LEMMA ListedNumbers ==
    ASSUME NEW rs \in Seq(Rule), NEW p
    PROVE  Listed(rs, p) \subseteq 1..Len(rs) /\ Listed(rs, p) \subseteq Nat \ {0}
BY DEF Listed

LEMMA StartTypes == Init => TypeInv
<1> SUFFICES ASSUME Init PROVE TypeInv
  OBVIOUS
<1>1. OneRule(rules)
  BY Numbering DEF Init
<1>2. Running = {}
  BY DEF Init, Running
<1>3. NoArg \in [port : Ports \cup {0}, desired : SUBSET AllSources, update : BOOLEAN]
  BY DEF NoArg
<1>4. NoReport \in [added : SUBSET AllSources, removed : SUBSET AllSources]
  BY DEF NoReport
<1>5. TypeOK
  BY <1>1, <1>3, <1>4 DEF Init, TypeOK, OneRule
<1>6. QED
  BY <1>1, <1>2, <1>5 DEF TypeInv

\* One command of any call leaves a list with each rule once.
LEMMA RulesStep == TypeInv /\ [Next]_vars => OneRule(rules')
<1> SUFFICES ASSUME TypeInv, [Next]_vars PROVE OneRule(rules')
  OBVIOUS
<1>1. OneRule(rules)
  BY DEF TypeInv
<1>2. ASSUME NEW c \in Calls, Delete(c) PROVE OneRule(rules')
  <2>1. PICK n \in FirstToDelete(c) : n <= Len(rules) /\ rules' = RemoveAt(rules, n)
    BY <1>2 DEF Delete
  <2>2. n \in 1..Len(rules)
    BY <1>1, <2>1 DEF FirstToDelete, TypeInv, TypeOK, OneRule
  <2>3. QED
    BY <1>1, <2>1, <2>2, Removing
<1>3. ASSUME NEW c \in Calls, Add(c) PROVE OneRule(rules')
  <2>1. PICK s \in FirstToAdd(c) : rules' = Allow(rules, arg[c].port, s)
    BY <1>3 DEF Add
  <2>2. s \in AllSources /\ c \in Running
    BY <1>3 DEF FirstToAdd, TypeInv, TypeOK, Add, Running
  <2>3. arg[c].port \in Ports
    BY <2>2 DEF TypeInv
  <2>4. QED
    BY <1>1, <2>1, <2>2, <2>3, Allowing
<1>4. ASSUME NEW c \in Calls,
             Begin(c) \/ ListBefore(c) \/ Plan(c) \/ Summarize(c) \/ CommandFails(c)
      PROVE  rules' = rules
  BY <1>4 DEF Begin, ListBefore, Plan, Summarize, CommandFails, Return
<1>5. CASE UNCHANGED vars
  BY <1>1, <1>5 DEF vars
<1>6. QED
  BY <1>1, <1>2, <1>3, <1>4, <1>5 DEF Next

LEMMA TypesStep == TypeInv /\ [Next]_vars => TypeInv'
<1> SUFFICES ASSUME TypeInv, [Next]_vars PROVE TypeInv'
  OBVIOUS
<1>0. OneRule(rules') /\ rules' \in Seq(Rule) /\ TypeOK /\ rules \in Seq(Rule)
  BY RulesStep DEF OneRule, TypeInv
<1> SUFFICES TypeOK' /\ \A d \in Running' : arg'[d].port \in Ports
  BY <1>0 DEF TypeInv
<1>1. ASSUME NEW c \in Calls, Begin(c)
      PROVE  TypeOK' /\ \A d \in Running' : arg'[d].port \in Ports
  <2>1. PICK p \in Ports, d \in SUBSET AllSources, u \in BOOLEAN :
          /\ arg' = [arg EXCEPT ![c] = [port |-> p, desired |-> d, update |-> u]]
          /\ start' = [start EXCEPT ![c] = SourcesOf(rules, p)]
          /\ Goto(c, IF u THEN "before" ELSE "list")
    BY <1>1 DEF Begin
  <2>2. SourcesOf(rules, p) \in SUBSET AllSources
    BY <1>0, SomeSources
  <2>3. UNCHANGED <<rules, dels, adds, report>>
    BY <1>1 DEF Begin
  <2>4. TypeOK'
    BY <1>0, <2>1, <2>2, <2>3 DEF TypeOK, Goto
  <2>5. \A e \in Running' : arg'[e].port \in Ports
    BY <1>0, <2>1 DEF TypeInv, TypeOK, Running, Goto
  <2>6. QED
    BY <2>4, <2>5
<1>2. ASSUME NEW c \in Calls, ListBefore(c)
      PROVE  TypeOK' /\ \A d \in Running' : arg'[d].port \in Ports
  <2> DEFINE p == arg[c].port
  <2> DEFINE d == arg[c].desired
  <2>1. ToAdd(rules, p, d) \in SUBSET AllSources
    BY <1>0, WantedSources DEF ToAdd, TypeOK
  <2>2. {rules[n].src : n \in ToDelete(rules, p, d)} \in SUBSET AllSources
    <3>1. ToDelete(rules, p, d) \subseteq 1..Len(rules)
      BY <1>0, ListedNumbers DEF ToDelete
    <3>2. \A n \in ToDelete(rules, p, d) : rules[n] \in Rule
      BY <1>0, <3>1
    <3>3. QED
      BY <3>2 DEF Rule
  <2>3. /\ report' = [report EXCEPT ![c] =
                [added |-> ToAdd(rules, p, d),
                 removed |-> {rules[n].src : n \in ToDelete(rules, p, d)}]]
        /\ Goto(c, "list")
        /\ UNCHANGED <<rules, arg, dels, adds, start>>
        /\ pc[c] = "before"
    BY <1>2 DEF ListBefore
  <2> HIDE DEF p, d
  <2>4. TypeOK'
    BY <1>0, <2>1, <2>2, <2>3 DEF TypeOK, Goto
  <2>5. QED
    BY <1>0, <2>3, <2>4 DEF TypeInv, TypeOK, Running, Goto
<1>3. ASSUME NEW c \in Calls, Plan(c)
      PROVE  TypeOK' /\ \A d \in Running' : arg'[d].port \in Ports
  <2>1. ToAdd(rules, arg[c].port, arg[c].desired) \in SUBSET AllSources
    BY <1>0, WantedSources DEF ToAdd, TypeOK
  <2>2. ToDelete(rules, arg[c].port, arg[c].desired) \in SUBSET (Nat \ {0})
    BY <1>0, ListedNumbers DEF ToDelete
  <2>3. TypeOK'
    BY <1>0, <1>3, <2>1, <2>2 DEF TypeOK, Goto, Plan
  <2>4. QED
    BY <1>0, <1>3, <2>3 DEF TypeInv, TypeOK, Running, Goto, Plan
<1>4. ASSUME NEW c \in Calls, Delete(c)
      PROVE  TypeOK' /\ \A d \in Running' : arg'[d].port \in Ports
  BY <1>0, <1>4 DEF TypeInv, TypeOK, Running, Delete
<1>5. ASSUME NEW c \in Calls, Add(c)
      PROVE  TypeOK' /\ \A d \in Running' : arg'[d].port \in Ports
  BY <1>0, <1>5 DEF TypeInv, TypeOK, Running, Add
<1>6. ASSUME NEW c \in Calls, Summarize(c) \/ CommandFails(c)
      PROVE  TypeOK' /\ \A d \in Running' : arg'[d].port \in Ports
  <2>1. PICK l \in {"ok", "error"} : Return(c, l)
    BY <1>6 DEF Summarize, CommandFails
  <2> DEFINE Args == [port : Ports \cup {0}, desired : SUBSET AllSources, update : BOOLEAN]
  <2> DEFINE Reports == [added : SUBSET AllSources, removed : SUBSET AllSources]
  <2>2. NoArg \in Args /\ NoReport \in Reports
    BY DEF NoArg, NoReport
  <2>3. arg \in [Calls -> Args] /\ report \in [Calls -> Reports]
    BY <1>0 DEF TypeOK
  <2> HIDE DEF Args, Reports
  <2>4. arg' \in [Calls -> Args] /\ report' \in [Calls -> Reports]
    BY <2>1, <2>2, <2>3 DEF Return
  <2>5. TypeOK'
    BY <1>0, <2>1, <2>4 DEF TypeOK, Return, Goto, Args, Reports
  <2>6. \A d \in Running' : d \in Running /\ arg'[d] = arg[d]
    BY <1>0, <2>1 DEF TypeOK, Return, Goto, Running
  <2>7. QED
    BY <2>5, <2>6 DEF TypeInv
<1>7. CASE UNCHANGED vars
  BY <1>0, <1>7 DEF vars, TypeInv, TypeOK, Running
<1>8. QED
  BY <1>1, <1>2, <1>3, <1>4, <1>5, <1>6, <1>7 DEF Next

\* Rule numbers stay positive and lists of rules well-formed whatever calls
\* overlap and fail (openport.go:120-159).
THEOREM UfwTypes == Spec => []TypeOK
<1>1. TypeInv => TypeOK
  BY DEF TypeInv
<1>2. QED
  BY <1>1, StartTypes, TypesStep, PTL DEF Spec
-----------------------------------------------------------------------------
(* One call at a time.                                                       *)
Alone == \A c, d \in Running : c = d

\* What a plan says of the rules while it is carried out.
PlanOK(c) ==
    /\ dels[c] \subseteq Listed(rules, arg[c].port)
    /\ \A n \in dels[c] : rules[n].src \in start[c] \ Want(c)
    /\ \A n \in Listed(rules, arg[c].port) \ dels[c] : rules[n].src \in Want(c) \cup Blanket(c)
    /\ adds[c] \subseteq Want(c) \ start[c]
    /\ Want(c) \ adds[c] \subseteq SourcesOf(rules, arg[c].port)

ReportOK(c) ==
    /\ report[c].added = Want(c) \ start[c]
    /\ report[c].removed = start[c] \ Want(c)

CallOK(c) ==
    /\ pc[c] \in {"before", "list"} => start[c] = SourcesOf(rules, arg[c].port)
    /\ pc[c] = "apply" => PlanOK(c)
    /\ pc[c] \in {"list", "apply"} /\ arg[c].update => ReportOK(c)

SerialInv == TypeInv /\ Alone /\ \A c \in Running : CallOK(c)

\* With each rule in the list once, the rules to delete are the unwanted ones.
LEMMA Planning ==
    ASSUME NEW rs, OneRule(rs), NEW p, NEW d
    PROVE  /\ ToDelete(rs, p, d) = {n \in Listed(rs, p) : rs[n].src \notin Wanted(d)}
           /\ {rs[n].src : n \in ToDelete(rs, p, d)} = SourcesOf(rs, p) \ Wanted(d)
<1>1. rs \in Seq(Rule)
  BY DEF OneRule
<1>2. ToDelete(rs, p, d) = {n \in Listed(rs, p) : rs[n].src \notin Wanted(d)}
  <2>1. \A m, n \in Listed(rs, p) : m < n => rs[m].src # rs[n].src
    <3> SUFFICES ASSUME NEW m \in Listed(rs, p), NEW n \in Listed(rs, p), m < n,
                        rs[m].src = rs[n].src
                 PROVE  FALSE
      OBVIOUS
    <3>1. m \in 1..Len(rs) /\ n \in 1..Len(rs) /\ rs[m].port = rs[n].port
      BY DEF Listed
    <3>2. m = n
      BY <3>1 DEF OneRule
    <3>3. QED
      BY <1>1, <3>1, <3>2
  <2>2. QED
    BY <2>1 DEF ToDelete, Kept
<1>3. SourcesOf(rs, p) = {rs[n].src : n \in Listed(rs, p)}
  BY <1>1, ListedSources
<1>4. QED
  BY <1>2, <1>3

\* After a step of a call no other call runs.
LEMMA OnlyActor ==
    ASSUME MaxConcurrent = 1, TypeInv, Alone, NEW c \in Calls,
           \/ Begin(c) \/ ListBefore(c) \/ Plan(c) \/ Delete(c) \/ Add(c)
           \/ Summarize(c) \/ CommandFails(c)
    PROVE  \A d \in Running' : d = c
<1>1. \A d \in Calls \ {c} : pc'[d] = pc[d]
  BY DEF Begin, ListBefore, Plan, Delete, Add, Summarize, CommandFails, Return, Goto,
         TypeInv, TypeOK
<1>2. \A d \in Running' : d \in Calls /\ (d # c => d \in Running)
  BY <1>1 DEF Running
<1>3. CASE c \in Running
  BY <1>2, <1>3 DEF Alone
<1>4. CASE Begin(c)
  <2>1. Cardinality(Running) < 1
    BY <1>4 DEF Begin
  <2>2. Running \in SUBSET Calls /\ IsFiniteSet(Calls)
    BY UfwAssumption DEF Running
  <2>3. IsFiniteSet(Running) /\ Cardinality(Running) \in Nat
    BY <2>2, FS_Subset, FS_CardinalityType
  <2>4. Running = {}
    BY <2>1, <2>3, FS_EmptySet
  <2>5. QED
    BY <1>2, <2>4
<1>5. CASE ~Begin(c)
  <2>1. c \in Running
    BY <1>5 DEF ListBefore, Plan, Delete, Add, Summarize, CommandFails, Running
  <2>2. QED
    BY <1>3, <2>1
<1>6. QED
  BY <1>4, <1>5

LEMMA BeginCall ==
    ASSUME TypeInv, NEW c \in Calls, Begin(c)
    PROVE  CallOK(c)'
<1>1. PICK p \in Ports, d \in SUBSET AllSources, u \in BOOLEAN :
        /\ arg' = [arg EXCEPT ![c] = [port |-> p, desired |-> d, update |-> u]]
        /\ start' = [start EXCEPT ![c] = SourcesOf(rules, p)]
        /\ Goto(c, IF u THEN "before" ELSE "list")
  BY DEF Begin
<1>2. /\ arg'[c].port = p /\ (arg'[c].update <=> u) /\ start'[c] = SourcesOf(rules, p)
      /\ pc'[c] = IF u THEN "before" ELSE "list"
  BY <1>1 DEF TypeInv, TypeOK, Goto
<1>3. rules' = rules
  BY DEF Begin
<1>4. QED
  BY <1>2, <1>3 DEF CallOK

LEMMA ReportCall ==
    ASSUME SerialInv, NEW c \in Calls, ListBefore(c)
    PROVE  CallOK(c)'
<1> DEFINE p == arg[c].port
<1> DEFINE d == arg[c].desired
<1>1. c \in Running /\ OneRule(rules) /\ start[c] = SourcesOf(rules, p)
  BY DEF SerialInv, TypeInv, CallOK, ListBefore, Running
<1>2. /\ report'[c].added = ToAdd(rules, p, d)
      /\ report'[c].removed = {rules[n].src : n \in ToDelete(rules, p, d)}
      /\ pc'[c] = "list" /\ UNCHANGED <<rules, arg, start>>
  BY DEF ListBefore, SerialInv, TypeInv, TypeOK, Goto
<1>3. ToAdd(rules, p, d) = Want(c) \ start[c]
  BY <1>1 DEF ToAdd, Want
<1>4. {rules[n].src : n \in ToDelete(rules, p, d)} = start[c] \ Want(c)
  BY <1>1, Planning DEF Want
<1>5. Want(c)' = Want(c)
  BY <1>2 DEF Want
<1>6. ReportOK(c)'
  BY <1>2, <1>3, <1>4, <1>5 DEF ReportOK
<1>7. QED
  BY <1>1, <1>2, <1>6 DEF CallOK

LEMMA PlanCall ==
    ASSUME SerialInv, NEW c \in Calls, Plan(c)
    PROVE  CallOK(c)'
<1> DEFINE p == arg[c].port
<1> DEFINE d == arg[c].desired
<1>1. /\ c \in Running /\ OneRule(rules) /\ start[c] = SourcesOf(rules, p)
      /\ (arg[c].update => ReportOK(c))
  BY DEF SerialInv, TypeInv, CallOK, Plan, Running
<1>2. /\ dels'[c] = ToDelete(rules, p, d) /\ adds'[c] = ToAdd(rules, p, d)
      /\ pc'[c] = "apply" /\ UNCHANGED <<rules, arg, start, report>>
  BY DEF Plan, SerialInv, TypeInv, TypeOK, Goto
<1>3. Want(c)' = Want(c) /\ Blanket(c)' = Blanket(c)
  BY <1>2 DEF Want, Blanket, IsBlanket
<1>4. Want(c) = Wanted(d)
  BY DEF Want
<1>5. /\ ToDelete(rules, p, d) = {n \in Listed(rules, p) : rules[n].src \notin Want(c)}
      /\ SourcesOf(rules, p) = {rules[n].src : n \in Listed(rules, p)}
  BY <1>1, <1>4, Planning, ListedSources DEF OneRule
<1>6. adds'[c] = Want(c) \ start[c]
  BY <1>1, <1>2, <1>4 DEF ToAdd
<1> HIDE DEF p, d
<1>7. PlanOK(c)'
  <2>1. /\ dels'[c] \subseteq Listed(rules, p)
        /\ \A n \in dels'[c] : rules[n].src \in start[c] \ Want(c)
        /\ \A n \in Listed(rules, p) \ dels'[c] : rules[n].src \in Want(c) \cup Blanket(c)
        /\ adds'[c] \subseteq Want(c) \ start[c]
        /\ Want(c) \ adds'[c] \subseteq SourcesOf(rules, p)
    BY <1>1, <1>2, <1>5, <1>6
  <2>2. QED
    BY <1>2, <1>3, <2>1 DEF PlanOK, p
<1>8. arg'[c].update => ReportOK(c)'
  BY <1>1, <1>2, <1>3 DEF ReportOK
<1>9. QED
  BY <1>2, <1>7, <1>8 DEF CallOK

\* The sources of a port without its k-th rule.
LEMMA Dropping ==
    ASSUME NEW rs, OneRule(rs), NEW k \in 1..Len(rs), NEW q
    PROVE  SourcesOf(RemoveAt(rs, k), q) = {rs[n].src : n \in Listed(rs, q) \ {k}}
<1> DEFINE new == RemoveAt(rs, k)
<1>1. /\ rs \in Seq(Rule) /\ Len(rs) \in Nat
      /\ new \in Seq(Rule) /\ Len(new) = Len(rs) - 1
      /\ \A n \in 1..(Len(rs) - 1) : new[n] = IF n < k THEN rs[n] ELSE rs[n + 1]
  BY Removing DEF OneRule
<1> HIDE DEF new
<1>2. SourcesOf(new, q) = {new[n].src : n \in Listed(new, q)}
  BY <1>1, ListedSources
<1>3. ASSUME NEW n \in Listed(new, q)
      PROVE  \E i \in Listed(rs, q) \ {k} : new[n].src = rs[i].src
  <2>1. n \in 1..(Len(rs) - 1) /\ new[n].port = q
    BY <1>1 DEF Listed
  <2>2. CASE n < k
    BY <1>1, <2>1, <2>2 DEF Listed
  <2>3. CASE ~(n < k)
    <3>1. n + 1 \in Listed(rs, q) \ {k} /\ new[n] = rs[n + 1]
      BY <1>1, <2>1, <2>3 DEF Listed
    <3>2. QED
      BY <3>1
  <2>4. QED
    BY <2>2, <2>3
<1>4. ASSUME NEW i \in Listed(rs, q) \ {k}
      PROVE  \E n \in Listed(new, q) : new[n].src = rs[i].src
  <2>1. i \in 1..Len(rs) /\ rs[i].port = q /\ i # k
    BY DEF Listed
  <2>2. CASE i < k
    <3>1. i \in Listed(new, q) /\ new[i] = rs[i]
      BY <1>1, <2>1, <2>2 DEF Listed
    <3>2. QED
      BY <3>1
  <2>3. CASE ~(i < k)
    <3>1. i - 1 \in 1..(Len(rs) - 1) /\ ~(i - 1 < k) /\ (i - 1) + 1 = i
      BY <1>1, <2>1, <2>3
    <3>2. i - 1 \in Listed(new, q) /\ new[i - 1] = rs[i]
      BY <1>1, <2>1, <3>1 DEF Listed
    <3>3. QED
      BY <3>2
  <2>4. QED
    BY <2>2, <2>3
<1>5. QED
  BY <1>2, <1>3, <1>4 DEF new

LEMMA DeleteCall ==
    ASSUME SerialInv, NEW c \in Calls, Delete(c)
    PROVE  /\ CallOK(c)'
           /\ \A q : q # arg[c].port => SourcesOf(rules', q) = SourcesOf(rules, q)
           /\ dels'[c] # dels[c]
<1> DEFINE p == arg[c].port
<1>1. /\ c \in Running /\ OneRule(rules) /\ PlanOK(c) /\ (arg[c].update => ReportOK(c))
      /\ dels[c] \subseteq Nat \ {0}
  BY DEF SerialInv, TypeInv, TypeOK, CallOK, Delete, Running
<1>2. PICK k \in FirstToDelete(c) :
        /\ k <= Len(rules) /\ rules' = RemoveAt(rules, k)
        /\ dels' = [dels EXCEPT ![c] = @ \ {k}]
  BY DEF Delete
<1>3. /\ k \in dels[c] /\ k \in 1..Len(rules) /\ \A m \in dels[c] : m <= k
      /\ dels'[c] = dels[c] \ {k}
      /\ rules \in Seq(Rule) /\ Len(rules) \in Nat
  BY <1>1, <1>2 DEF FirstToDelete, OneRule, SerialInv, TypeInv, TypeOK
<1>4. UNCHANGED <<pc, arg, adds, report, start>> /\ pc[c] = "apply"
  BY DEF Delete
<1>5. Want(c)' = Want(c) /\ Blanket(c)' = Blanket(c)
  BY <1>4 DEF Want, Blanket, IsBlanket
<1>6. /\ rules' \in Seq(Rule) /\ Len(rules') = Len(rules) - 1
      /\ \A n \in 1..(Len(rules) - 1) :
             rules'[n] = IF n < k THEN rules[n] ELSE rules[n + 1]
  BY <1>1, <1>2, <1>3, Removing DEF OneRule
<1>7. \A q : SourcesOf(rules', q) = {rules[n].src : n \in Listed(rules, q) \ {k}}
  BY <1>1, <1>2, <1>3, Dropping
<1>8. k \in Listed(rules, p) /\ rules[k].src \notin Want(c)
  BY <1>1, <1>3 DEF PlanOK
<1>9. ASSUME NEW q, q # p PROVE SourcesOf(rules', q) = SourcesOf(rules, q)
  <2>1. k \notin Listed(rules, q)
    BY <1>8, <1>9 DEF Listed
  <2>2. SourcesOf(rules, q) = {rules[n].src : n \in Listed(rules, q)}
    BY <1>3, ListedSources
  <2>3. QED
    BY <1>7, <2>1, <2>2
<1>10. \A m \in dels'[c] : m \in 1..(Len(rules) - 1) /\ rules'[m] = rules[m]
  <2> SUFFICES ASSUME NEW m \in dels'[c]
               PROVE  m \in 1..(Len(rules) - 1) /\ rules'[m] = rules[m]
    OBVIOUS
  <2>1. m \in Nat \ {0} /\ m < k
    BY <1>1, <1>3
  <2>2. QED
    BY <1>3, <1>6, <2>1
<1>11. dels'[c] \subseteq Listed(rules', p)
  BY <1>1, <1>3, <1>6, <1>10 DEF PlanOK, Listed
<1>12. \A n \in dels'[c] : rules'[n].src \in start[c] \ Want(c)
  BY <1>1, <1>3, <1>10 DEF PlanOK
<1>13. ASSUME NEW n \in Listed(rules', p) \ dels'[c]
       PROVE  rules'[n].src \in Want(c) \cup Blanket(c)
  <2>1. n \in 1..(Len(rules) - 1) /\ rules'[n].port = p
    BY <1>6 DEF Listed
  <2>2. CASE n < k
    <3>1. n \in Listed(rules, p) \ dels[c] /\ rules'[n] = rules[n]
      BY <1>3, <1>6, <1>13, <2>1, <2>2 DEF Listed
    <3>2. QED
      BY <1>1, <3>1 DEF PlanOK
  <2>3. CASE ~(n < k)
    <3>1. n + 1 \in 1..Len(rules) /\ ~(n + 1 <= k) /\ rules'[n] = rules[n + 1]
      BY <1>3, <1>6, <2>1, <2>3
    <3>2. n + 1 \in Listed(rules, p) \ dels[c]
      BY <1>3, <2>1, <3>1 DEF Listed
    <3>3. QED
      BY <1>1, <3>1, <3>2 DEF PlanOK
  <2>4. QED
    BY <2>2, <2>3
<1>14. Want(c) \ adds[c] \subseteq SourcesOf(rules', p)
  <2>1. SourcesOf(rules, p) = {rules[n].src : n \in Listed(rules, p)}
    BY <1>3, ListedSources
  <2>2. QED
    BY <1>1, <1>7, <1>8, <2>1 DEF PlanOK
<1>15. PlanOK(c)'
  BY <1>1, <1>4, <1>5, <1>11, <1>12, <1>13, <1>14 DEF PlanOK
<1>16. CallOK(c)'
  BY <1>1, <1>4, <1>5, <1>15 DEF CallOK, ReportOK
<1>17. QED
  BY <1>3, <1>9, <1>16

LEMMA AddCall ==
    ASSUME SerialInv, NEW c \in Calls, Add(c)
    PROVE  /\ CallOK(c)'
           /\ \A q : q # arg[c].port => SourcesOf(rules', q) = SourcesOf(rules, q)
           /\ adds'[c] # adds[c]
<1> DEFINE p == arg[c].port
<1>1. /\ c \in Running /\ OneRule(rules) /\ PlanOK(c) /\ (arg[c].update => ReportOK(c))
      /\ adds[c] \subseteq AllSources /\ p \in Ports /\ rules \in Seq(Rule)
  BY DEF SerialInv, TypeInv, TypeOK, CallOK, Add, Running
<1>2. PICK s \in FirstToAdd(c) :
        /\ rules' = Allow(rules, p, s)
        /\ adds' = [adds EXCEPT ![c] = @ \ {s}]
  BY DEF Add
<1>3. s \in adds[c] /\ s \in AllSources /\ adds'[c] = adds[c] \ {s}
  BY <1>1, <1>2 DEF FirstToAdd, SerialInv, TypeInv, TypeOK
<1>4. UNCHANGED <<pc, arg, dels, report, start>> /\ pc[c] = "apply" /\ dels[c] = {}
  BY DEF Add
<1>5. Want(c)' = Want(c) /\ Blanket(c)' = Blanket(c)
  BY <1>4 DEF Want, Blanket, IsBlanket
<1>6. /\ OneRule(rules') /\ rules' \in Seq(Rule)
      /\ SourcesOf(rules', p) = SourcesOf(rules, p) \cup Opened(s)
      /\ \A q : q # p => SourcesOf(rules', q) = SourcesOf(rules, q)
  BY <1>1, <1>2, <1>3, Allowing DEF OneRule
<1>7. s \in Want(c) /\ Opened(s) \subseteq Want(c) \cup Blanket(c) /\ s \in Opened(s)
  BY <1>1, <1>3 DEF PlanOK, Opened, Want, Blanket, IsBlanket
<1>8. SourcesOf(rules, p) \subseteq Want(c) \cup Blanket(c)
  <2>1. SourcesOf(rules, p) = {rules[n].src : n \in Listed(rules, p)}
    BY <1>1, ListedSources
  <2>2. QED
    BY <1>1, <1>4, <2>1 DEF PlanOK
<1>9. \A n \in Listed(rules', p) : rules'[n].src \in Want(c) \cup Blanket(c)
  <2>1. SourcesOf(rules', p) = {rules'[n].src : n \in Listed(rules', p)}
    BY <1>6, ListedSources
  <2>2. QED
    BY <1>6, <1>7, <1>8, <2>1
<1>10. Want(c) \ adds'[c] \subseteq SourcesOf(rules', p)
  BY <1>1, <1>3, <1>6, <1>7 DEF PlanOK
<1>11. PlanOK(c)'
  BY <1>1, <1>3, <1>4, <1>5, <1>9, <1>10 DEF PlanOK
<1>12. CallOK(c)'
  BY <1>1, <1>4, <1>5, <1>11 DEF CallOK, ReportOK
<1>13. QED
  BY <1>3, <1>6, <1>12

LEMMA SerialStart == Init => SerialInv
<1> SUFFICES ASSUME Init PROVE SerialInv
  OBVIOUS
<1>1. Running = {}
  BY DEF Init, Running
<1>2. QED
  BY <1>1, StartTypes DEF SerialInv, Alone

LEMMA SerialStep ==
    ASSUME MaxConcurrent = 1, SerialInv, [Next]_vars
    PROVE  SerialInv'
<1>1. TypeInv'
  BY TypesStep DEF SerialInv
<1>2. CASE UNCHANGED vars
  BY <1>1, <1>2 DEF vars, SerialInv, Alone, Running, CallOK, PlanOK, ReportOK, Want,
                    Blanket, IsBlanket
<1>3. ASSUME NEW c \in Calls,
             \/ Begin(c) \/ ListBefore(c) \/ Plan(c) \/ Delete(c) \/ Add(c)
             \/ Summarize(c) \/ CommandFails(c)
      PROVE  SerialInv'
  <2>1. \A d \in Running' : d = c
    BY <1>3, OnlyActor DEF SerialInv
  <2>2. c \in Running' => CallOK(c)'
    <3>1. CASE Begin(c)
      BY <3>1, BeginCall DEF SerialInv
    <3>2. CASE ListBefore(c)
      BY <3>2, ReportCall
    <3>3. CASE Plan(c)
      BY <3>3, PlanCall
    <3>4. CASE Delete(c)
      BY <3>4, DeleteCall
    <3>5. CASE Add(c)
      BY <3>5, AddCall
    <3>6. CASE Summarize(c) \/ CommandFails(c)
      <4>1. pc'[c] \in {"ok", "error"}
        BY <3>6 DEF Summarize, CommandFails, Return, Goto, SerialInv, TypeInv, TypeOK
      <4>2. QED
        BY <4>1 DEF Running
    <3>7. QED
      BY <1>3, <3>1, <3>2, <3>3, <3>4, <3>5, <3>6
  <2>3. Alone'
    BY <2>1 DEF Alone
  <2>4. \A d \in Running' : CallOK(d)'
    BY <2>1, <2>2
  <2>5. QED
    BY <1>1, <2>3, <2>4 DEF SerialInv
<1>4. QED
  BY <1>2, <1>3 DEF Next

\* The invariant of calls that do not overlap.
LEMMA SerialInvariant ==
    ASSUME MaxConcurrent = 1
    PROVE  Spec => []SerialInv
<1>1. SerialInv /\ [Next]_vars => SerialInv'
  BY SerialStep
<1>2. QED
  BY <1>1, SerialStart, PTL DEF Spec

\* What holds of the port of a running call.
LEMMA DuringCall ==
    ASSUME SerialInv, NEW c \in Running
    PROVE  /\ start[c] \cap Want(c) \subseteq SourcesOf(rules, arg[c].port)
           /\ SourcesOf(rules, arg[c].port) \subseteq start[c] \cup Want(c) \cup Blanket(c)
<1>1. c \in Calls /\ CallOK(c) /\ rules \in Seq(Rule)
  BY DEF SerialInv, TypeInv, TypeOK, Running
<1>2. CASE pc[c] \in {"before", "list"}
  BY <1>1, <1>2 DEF CallOK
<1>3. CASE pc[c] = "apply"
  <2>1. SourcesOf(rules, arg[c].port) = {rules[n].src : n \in Listed(rules, arg[c].port)}
    BY <1>1, ListedSources
  <2>2. PlanOK(c)
    BY <1>1, <1>3 DEF CallOK
  <2>3. QED
    BY <2>1, <2>2 DEF PlanOK
<1>4. QED
  BY <1>1, <1>2, <1>3 DEF Running, SerialInv, TypeInv, TypeOK

\* The step in which a call succeeds leaves exactly what the plan was made for.
LEMMA Success ==
    ASSUME MaxConcurrent = 1, SerialInv, [Next]_vars, NEW c \in Calls, Succeeds(c)
    PROVE  /\ c \in Running /\ CallOK(c)
           /\ Want(c) \subseteq SourcesOf(rules, arg[c].port)
           /\ SourcesOf(rules, arg[c].port) \subseteq Want(c) \cup Blanket(c)
<1>1. c \in Running /\ pc[c] = "apply" /\ pc'[c] = "ok"
  BY DEF Succeeds, Running
<1>2. CallOK(c) /\ PlanOK(c) /\ rules \in Seq(Rule)
  BY <1>1 DEF SerialInv, TypeInv, TypeOK, CallOK
<1>3. Summarize(c)
  <2>1. pc'[c] # pc[c]
    BY <1>1
  <2>2. PICK d \in Calls :
          \/ Begin(d) \/ ListBefore(d) \/ Plan(d) \/ Delete(d) \/ Add(d)
          \/ Summarize(d) \/ CommandFails(d)
    BY <2>1 DEF Next, vars
  <2>3. d = c
    BY <2>1, <2>2 DEF Begin, ListBefore, Plan, Delete, Add, Summarize, CommandFails,
                      Return, Goto, SerialInv, TypeInv, TypeOK
  <2>4. ~Begin(c) /\ ~ListBefore(c) /\ ~Plan(c)
    BY <1>1 DEF Begin, ListBefore, Plan
  <2>5. ~Delete(c) /\ ~Add(c)
    BY <2>1 DEF Delete, Add
  <2>6. ~CommandFails(c)
    BY <1>1 DEF CommandFails, Return, Goto, SerialInv, TypeInv, TypeOK
  <2>7. QED
    BY <2>2, <2>3, <2>4, <2>5, <2>6
<1>4. dels[c] = {} /\ adds[c] = {}
  BY <1>3 DEF Summarize
<1>5. SourcesOf(rules, arg[c].port) = {rules[n].src : n \in Listed(rules, arg[c].port)}
  BY <1>2, ListedSources
<1>6. QED
  BY <1>1, <1>2, <1>4, <1>5 DEF PlanOK

\* Clients that were allowed and stay wanted are never cut off while a call
\* reconciles (the kept rules of allowlist.go:148-155).
THEOREM KeptSourcesStay ==
    ASSUME MaxConcurrent = 1
    PROVE  Spec => []WantedStaysOpen
<1>1. SerialInv => WantedStaysOpen
  BY DuringCall DEF WantedStaysOpen, Want
<1>2. QED
  BY <1>1, SerialInvariant, PTL

\* No call admits anyone beyond the old and the wanted sources at any time, be
\* it half-way or after a failure (openport.go:126-150).
THEOREM NobodyElseAdmitted ==
    ASSUME MaxConcurrent = 1
    PROVE  Spec => []NeverWidens
<1>1. SerialInv => NeverWidens
  BY DuringCall DEF NeverWidens, Want
<1>2. QED
  BY <1>1, SerialInvariant, PTL

\* A successful call leaves exactly the wanted single sources (openport.go:118-120).
THEOREM EndsExactly ==
    ASSUME MaxConcurrent = 1
    PROVE  Spec => NarrowsExactly
<1> DEFINE Body == \A c \in Calls : Succeeds(c) /\ ~IsBlanket(c) =>
                        SourcesOf(rules, arg[c].port) = arg[c].desired
<1>1. SerialInv /\ [Next]_vars => Body
  <2> SUFFICES ASSUME SerialInv, [Next]_vars, NEW c \in Calls, Succeeds(c), ~IsBlanket(c)
               PROVE  SourcesOf(rules, arg[c].port) = arg[c].desired
    OBVIOUS
  <2>1. SourcesOf(rules, arg[c].port) = Want(c)
    BY Success DEF Blanket
  <2>2. Want(c) = arg[c].desired
    BY DEF IsBlanket, Want, Wanted
  <2>3. QED
    BY <2>1, <2>2
<1>2. QED
  BY <1>1, SerialInvariant, PTL DEF Spec, NarrowsExactly

\* Deleting by number, highest first, touches the rules of the call's port only
\* (allowlist.go:133-134).
THEOREM OthersUntouched ==
    ASSUME MaxConcurrent = 1
    PROVE  Spec => OtherPortsUntouched
<1> DEFINE Body == \A p \in Ports : SourcesOf(rules, p) # SourcesOf(rules', p) =>
                        \E c \in Calls : arg[c].port = p /\ Works(c)
<1>1. SerialInv /\ [Next]_vars => Body
  <2> SUFFICES ASSUME SerialInv, [Next]_vars, NEW p \in Ports,
                      SourcesOf(rules, p) # SourcesOf(rules', p)
               PROVE  \E c \in Calls : arg[c].port = p /\ Works(c)
    OBVIOUS
  <2>1. rules' # rules
    OBVIOUS
  <2>2. PICK c \in Calls : Delete(c) \/ Add(c)
    BY <2>1 DEF Next, vars, Begin, ListBefore, Plan, Summarize, CommandFails, Return
  <2>3. arg[c].port = p /\ (dels'[c] # dels[c] \/ adds'[c] # adds[c])
    BY <2>2, DeleteCall, AddCall
  <2>4. QED
    BY <2>3 DEF Works
<1>2. QED
  BY <1>1, SerialInvariant, PTL DEF Spec, OtherPortsUntouched

\* The lists that a successful UpdateAllowlist reports are what it changed
\* (openport.go:76-92).
THEOREM ReportIsTrue ==
    ASSUME MaxConcurrent = 1
    PROVE  Spec => ReportIsDelta
<1> DEFINE Body == \A c \in Calls : Succeeds(c) /\ arg[c].update =>
                        LET after == (start[c] \ report[c].removed) \cup report[c].added
                        IN  /\ after \subseteq SourcesOf(rules, arg[c].port)
                            /\ SourcesOf(rules, arg[c].port) \subseteq after \cup Blanket(c)
<1>1. SerialInv /\ [Next]_vars => Body
  <2> SUFFICES ASSUME SerialInv, [Next]_vars, NEW c \in Calls, Succeeds(c), arg[c].update
               PROVE  LET after == (start[c] \ report[c].removed) \cup report[c].added
                      IN  /\ after \subseteq SourcesOf(rules, arg[c].port)
                          /\ SourcesOf(rules, arg[c].port) \subseteq after \cup Blanket(c)
    OBVIOUS
  <2>1. ReportOK(c)
    BY Success DEF CallOK, Succeeds
  <2>2. (start[c] \ report[c].removed) \cup report[c].added = Want(c)
    BY <2>1 DEF ReportOK
  <2>3. QED
    BY <2>2, Success
<1>2. QED
  BY <1>1, SerialInvariant, PTL DEF Spec, ReportIsDelta
-----------------------------------------------------------------------------
(* Calls in any overlap.                                                     *)
\* What a call has yet to add is wanted by it, and is planned by then.
AddsWanted ==
    \A c \in Calls : /\ adds[c] \subseteq Want(c)
                     /\ pc[c] # "apply" => adds[c] = {}

LEMMA AddsWantedStep == TypeInv /\ AddsWanted /\ [Next]_vars => AddsWanted'
<1> SUFFICES ASSUME TypeInv, AddsWanted, [Next]_vars, NEW d \in Calls
             PROVE  adds'[d] \subseteq Want(d)' /\ (pc'[d] # "apply" => adds'[d] = {})
  BY DEF AddsWanted
<1>1. TypeOK /\ adds[d] \subseteq Want(d) /\ (pc[d] # "apply" => adds[d] = {})
  BY DEF AddsWanted, TypeInv
<1>2. CASE pc'[d] = pc[d] /\ arg'[d] = arg[d] /\ adds'[d] \subseteq adds[d]
  BY <1>1, <1>2 DEF Want
<1>3. CASE Begin(d)
  BY <1>1, <1>3 DEF Begin, Goto, TypeOK
<1>4. CASE ListBefore(d)
  BY <1>1, <1>4 DEF ListBefore, Goto, TypeOK
<1>5. CASE Plan(d)
  <2>1. adds'[d] = ToAdd(rules, arg[d].port, arg[d].desired) /\ arg' = arg
        /\ pc'[d] = "apply"
    BY <1>1, <1>5 DEF Plan, Goto, TypeOK
  <2>2. QED
    BY <2>1 DEF ToAdd, Want
<1>6. CASE Summarize(d) \/ CommandFails(d)
  BY <1>1, <1>6 DEF Summarize, CommandFails, Return, TypeOK
<1>7. CASE \/ UNCHANGED vars
           \/ Delete(d) \/ Add(d)
           \/ \E c \in Calls \ {d} : \/ Begin(c) \/ ListBefore(c) \/ Plan(c) \/ Delete(c)
                                     \/ Add(c) \/ Summarize(c) \/ CommandFails(c)
  <2>1. pc'[d] = pc[d] /\ arg'[d] = arg[d] /\ adds'[d] \subseteq adds[d]
    BY <1>1, <1>7 DEF vars, Begin, ListBefore, Plan, Delete, Add, Summarize,
                      CommandFails, Return, Goto, TypeOK
  <2>2. QED
    BY <1>2, <2>1
<1>8. QED
  BY <1>3, <1>4, <1>5, <1>6, <1>7 DEF Next

\* A step opens a port to nobody but those whom a call for this port has yet to
\* add, and the other family of everyone.
LEMMA StepOpens ==
    ASSUME TypeInv, AddsWanted, [Next]_vars, NEW p \in Ports,
           NEW s \in SourcesOf(rules', p) \ SourcesOf(rules, p)
    PROVE  \E c \in Running : arg[c].port = p /\ s \in Want(c) \cup Blanket(c)
<1>1. OneRule(rules) /\ rules' # rules
  BY DEF TypeInv
<1>2. PICK c \in Calls : Delete(c) \/ Add(c)
  BY <1>1 DEF Next, vars, Begin, ListBefore, Plan, Summarize, CommandFails, Return
<1>3. c \in Running
  BY <1>2 DEF Delete, Add, Running
<1>4. CASE Delete(c)
  <2>1. PICK k \in FirstToDelete(c) : k <= Len(rules) /\ rules' = RemoveAt(rules, k)
    BY <1>4 DEF Delete
  <2>2. k \in 1..Len(rules)
    BY <1>1, <2>1 DEF FirstToDelete, TypeInv, TypeOK, OneRule
  <2>3. SourcesOf(rules', p) = {rules[n].src : n \in Listed(rules, p) \ {k}}
    BY <1>1, <2>1, <2>2, Dropping
  <2>4. SourcesOf(rules, p) = {rules[n].src : n \in Listed(rules, p)}
    BY <1>1, ListedSources DEF OneRule
  <2>5. QED
    BY <2>3, <2>4
<1>5. CASE Add(c)
  <2>1. PICK t \in FirstToAdd(c) : rules' = Allow(rules, arg[c].port, t)
    BY <1>5 DEF Add
  <2>2. t \in adds[c] /\ t \in AllSources /\ t \in Want(c) /\ arg[c].port \in Ports
    BY <1>3, <2>1 DEF FirstToAdd, TypeInv, TypeOK, AddsWanted
  <2>3. /\ SourcesOf(rules', arg[c].port) = SourcesOf(rules, arg[c].port) \cup Opened(t)
        /\ \A q : q # arg[c].port => SourcesOf(rules', q) = SourcesOf(rules, q)
    BY <1>1, <2>1, <2>2, Allowing
  <2>4. arg[c].port = p /\ s \in Opened(t)
    BY <2>3
  <2>5. s \in Want(c) \cup Blanket(c)
    BY <2>2, <2>4 DEF Opened, Want, Blanket, IsBlanket
  <2>6. QED
    BY <1>3, <2>4, <2>5
<1>6. QED
  BY <1>2, <1>4, <1>5

\* However many calls overlap and fail, and whichever rules their stale numbers
\* hit, none opens a port to anybody whom no call for it wants (openport.go:126-150).
THEOREM OverlapOpensOnlyWanted == Spec => OpensOnlyWanted
<1> DEFINE Body == \A p \in Ports, s \in AllSources :
                      s \in SourcesOf(rules', p) \ SourcesOf(rules, p) =>
                          \E c \in Running : /\ arg[c].port = p
                                             /\ s \in Wanted(arg[c].desired) \cup Blanket(c)
<1>1. Init => AddsWanted
  BY DEF Init, AddsWanted
<1>2. TypeInv /\ AddsWanted /\ [Next]_vars => Body
  BY StepOpens DEF Want
<1>3. QED
  BY <1>1, <1>2, StartTypes, TypesStep, AddsWantedStep, PTL DEF Spec, OpensOnlyWanted
-----------------------------------------------------------------------------
(* The refinement of PortAllowlist.                                          *)
\* A source yet to be added is there already only if it came with its twin, and
\* then nothing is left to delete.
TwinOK(c) ==
    \A s \in adds[c] \cap SourcesOf(rules, arg[c].port) :
        dels[c] = {} /\ {Any4, Any6} \subseteq SourcesOf(rules, arg[c].port)

RefinementInv ==
    /\ SerialInv
    /\ \A c \in Running : pc[c] = "apply" => TwinOK(c)

\* A deletion withdraws one unwanted source from the port of the call.
LEMMA DeleteWithdraws ==
    ASSUME SerialInv, NEW c \in Calls, Delete(c)
    PROVE  /\ arg[c].port \in Ports /\ dels[c] # {}
           /\ \E s \in SourcesOf(rules, arg[c].port) \ Want(c) :
                  SourcesOf(rules', arg[c].port) = SourcesOf(rules, arg[c].port) \ {s}
<1> DEFINE p == arg[c].port
<1>1. c \in Running /\ OneRule(rules) /\ PlanOK(c) /\ p \in Ports /\ rules \in Seq(Rule)
  BY DEF SerialInv, TypeInv, CallOK, Delete, Running, OneRule
<1>2. PICK k \in FirstToDelete(c) : k <= Len(rules) /\ rules' = RemoveAt(rules, k)
  BY DEF Delete
<1>3. k \in dels[c] /\ k \in 1..Len(rules)
  BY <1>1, <1>2 DEF FirstToDelete, SerialInv, TypeInv, TypeOK
<1>4. k \in Listed(rules, p) /\ rules[k].src \notin Want(c)
  BY <1>1, <1>3 DEF PlanOK
<1>5. /\ SourcesOf(rules, p) = {rules[n].src : n \in Listed(rules, p)}
      /\ SourcesOf(rules', p) = {rules[n].src : n \in Listed(rules, p) \ {k}}
  BY <1>1, <1>2, <1>3, Dropping, ListedSources
<1>6. \A n \in Listed(rules, p) : rules[n].src = rules[k].src => n = k
  BY <1>1, <1>3, <1>4 DEF Listed, OneRule
<1>7. SourcesOf(rules', p) = SourcesOf(rules, p) \ {rules[k].src}
  BY <1>4, <1>5, <1>6
<1>8. QED
  BY <1>1, <1>3, <1>4, <1>5, <1>7

\* An addition comes when nothing unwanted is left, and admits one wanted source.
LEMMA AddAdmits ==
    ASSUME SerialInv, NEW c \in Calls, Add(c)
    PROVE  /\ arg[c].port \in Ports /\ dels[c] = {}
           /\ SourcesOf(rules, arg[c].port) \subseteq Want(c) \cup Blanket(c)
           /\ \E s \in adds[c] \cap Want(c) :
                  /\ SourcesOf(rules', arg[c].port)
                         = SourcesOf(rules, arg[c].port) \cup Opened(s)
                  /\ adds'[c] = adds[c] \ {s}
<1> DEFINE p == arg[c].port
<1>1. /\ c \in Running /\ OneRule(rules) /\ PlanOK(c) /\ p \in Ports /\ rules \in Seq(Rule)
      /\ adds[c] \subseteq AllSources /\ dels[c] = {}
  BY DEF SerialInv, TypeInv, TypeOK, CallOK, Add, Running
<1>2. PICK s \in FirstToAdd(c) :
        /\ rules' = Allow(rules, p, s)
        /\ adds' = [adds EXCEPT ![c] = @ \ {s}]
  BY DEF Add
<1>3. s \in adds[c] /\ s \in AllSources /\ s \in Want(c) /\ adds'[c] = adds[c] \ {s}
  BY <1>1, <1>2 DEF FirstToAdd, PlanOK, SerialInv, TypeInv, TypeOK
<1>4. SourcesOf(rules', p) = SourcesOf(rules, p) \cup Opened(s)
  BY <1>1, <1>2, <1>3, Allowing
<1>5. SourcesOf(rules, p) = {rules[n].src : n \in Listed(rules, p)}
  BY <1>1, ListedSources
<1>6. SourcesOf(rules, p) \subseteq Want(c) \cup Blanket(c)
  BY <1>1, <1>5 DEF PlanOK
<1>7. QED
  BY <1>1, <1>3, <1>4, <1>6

\* While a call acts no other one's request or outcome changes.
LEMMA OthersSeenTheSame ==
    ASSUME TypeInv, NEW c \in Calls, NEW d \in Calls \ {c},
           \/ Begin(c) \/ ListBefore(c) \/ Plan(c) \/ Delete(c) \/ Add(c)
           \/ Summarize(c) \/ CommandFails(c)
    PROVE  Request(d)' = Request(d) /\ Outcome(d)' = Outcome(d)
<1>1. pc'[d] = pc[d] /\ arg'[d] = arg[d]
  BY DEF Begin, ListBefore, Plan, Delete, Add, Summarize, CommandFails, Return, Goto,
         TypeInv, TypeOK
<1>2. d \in Running' <=> d \in Running
  BY <1>1 DEF Running
<1>3. QED
  BY <1>1, <1>2 DEF Request, Outcome

\* Twins come together, whatever is deleted or fails.
LEMMA TwinStep ==
    ASSUME MaxConcurrent = 1, RefinementInv, [Next]_vars
    PROVE  RefinementInv'
<1>1. SerialInv /\ SerialInv'
  BY SerialStep DEF RefinementInv
<1>2. CASE UNCHANGED vars
  BY <1>1, <1>2 DEF vars, RefinementInv, Running, TwinOK
<1>3. ASSUME NEW c \in Calls,
             \/ Begin(c) \/ ListBefore(c) \/ Plan(c) \/ Delete(c) \/ Add(c)
             \/ Summarize(c) \/ CommandFails(c)
      PROVE  RefinementInv'
  <2>0. TypeOK /\ rules \in Seq(Rule) /\ \A d \in Running' : d = c
    BY <1>1, <1>3, OnlyActor DEF SerialInv, TypeInv, TypeOK
  <2>1. ASSUME pc'[c] = "apply" PROVE TwinOK(c)'
    <3>1. CASE Plan(c)
      <4>1. /\ adds'[c] = ToAdd(rules, arg[c].port, arg[c].desired)
            /\ rules' = rules /\ arg' = arg
        BY <2>0, <3>1 DEF Plan, TypeOK
      <4>2. adds'[c] \cap SourcesOf(rules', arg'[c].port) = {}
        BY <4>1 DEF ToAdd
      <4>3. QED
        BY <4>2 DEF TwinOK
    <3>2. CASE Delete(c)
      <4>1. /\ dels[c] # {} /\ adds' = adds /\ arg' = arg /\ c \in Running
            /\ SourcesOf(rules', arg[c].port) \subseteq SourcesOf(rules, arg[c].port)
        BY <1>1, <3>2, DeleteWithdraws DEF Delete, Running
      <4>2. TwinOK(c)
        BY <3>2, <4>1 DEF RefinementInv, Delete
      <4>3. QED
        BY <4>1, <4>2 DEF TwinOK
    <3>3. CASE Add(c)
      <4>1. dels[c] = {} /\ dels' = dels /\ arg' = arg /\ c \in Running
        BY <3>3 DEF Add, Running
      <4>2. TwinOK(c)
        BY <3>3, <4>1 DEF RefinementInv, Add
      <4>3. PICK s \in adds[c] :
              /\ SourcesOf(rules', arg[c].port)
                     = SourcesOf(rules, arg[c].port) \cup Opened(s)
              /\ adds'[c] = adds[c] \ {s}
        BY <1>1, <3>3, AddAdmits
      <4>4. \A t \in Opened(s) \ {s} : {Any4, Any6} \subseteq Opened(s)
        BY DEF Opened
      <4>5. QED
        BY <4>1, <4>2, <4>3, <4>4 DEF TwinOK
    <3>4. ~Begin(c) /\ ~ListBefore(c) /\ ~Summarize(c) /\ ~CommandFails(c)
      BY <2>0, <2>1 DEF Begin, ListBefore, Summarize, CommandFails, Return, Goto, TypeOK
    <3>5. QED
      BY <1>3, <3>1, <3>2, <3>3, <3>4
  <2>2. QED
    BY <1>1, <2>0, <2>1 DEF RefinementInv
<1>4. QED
  BY <1>2, <1>3 DEF Next

\* A step of one call is a step of that call in the abstract state.
LEMMA SeenOfCall ==
    ASSUME TypeInv, NEW c \in Calls,
           \/ Begin(c) \/ ListBefore(c) \/ Plan(c) \/ Delete(c) \/ Add(c)
           \/ Summarize(c) \/ CommandFails(c)
    PROVE  /\ Asked' = [Asked EXCEPT ![c] = Request(c)']
           /\ Outcomes' = [Outcomes EXCEPT ![c] = Outcome(c)']
<1>1. \A d \in Calls \ {c} : Request(d)' = Request(d) /\ Outcome(d)' = Outcome(d)
  BY OthersSeenTheSame
<1>2. QED
  BY <1>1 DEF Asked, Outcomes

\* A command that changes the sources of one port.
LEMMA SeenOfRules ==
    ASSUME NEW p \in Ports, NEW S, SourcesOf(rules', p) = S,
           \A q : q # p => SourcesOf(rules', q) = SourcesOf(rules, q)
    PROVE  AllowedOn' = [AllowedOn EXCEPT ![p] = S]
BY DEF AllowedOn

LEMMA StartIsAllowlist == Init => Allowlist!AllowlistInit
<1> SUFFICES ASSUME Init PROVE Allowlist!AllowlistInit
  OBVIOUS
<1>1. rules \in Seq(Rule)
  BY StartTypes DEF TypeInv, TypeOK
<1>2. AllowedOn \in [Ports -> SUBSET AllSources]
  BY <1>1, SomeSources DEF AllowedOn
<1>3. \A c \in Calls : Request(c) = NoRequest /\ Outcome(c) = "none"
  BY DEF Init, Request, Outcome, Running
<1>4. QED
  BY <1>2, <1>3 DEF Allowlist!AllowlistInit, Asked, Outcomes

\* Each step of a lone call is one of the abstract call, or none.
LEMMA StepIsAllowlist ==
    ASSUME MaxConcurrent = 1, RefinementInv, [Next]_vars
    PROVE  [Allowlist!AllowlistNext]_<<AllowedOn, Asked, Outcomes>>
<1>1. SerialInv /\ TypeInv /\ TypeOK
  BY DEF RefinementInv, SerialInv, TypeInv
<1>2. CASE UNCHANGED vars
  BY <1>2 DEF vars, AllowedOn, Asked, Outcomes, Request, Outcome, Running
<1>3. ASSUME NEW c \in Calls,
             \/ Begin(c) \/ ListBefore(c) \/ Plan(c) \/ Delete(c) \/ Add(c)
             \/ Summarize(c) \/ CommandFails(c)
      PROVE  [Allowlist!AllowlistNext]_<<AllowedOn, Asked, Outcomes>>
  <2> DEFINE p == arg[c].port
  <2>1. /\ Asked' = [Asked EXCEPT ![c] = Request(c)']
        /\ Outcomes' = [Outcomes EXCEPT ![c] = Outcome(c)']
    BY <1>1, <1>3, SeenOfCall
  <2>2. Asked[c] = Request(c) /\ Outcomes[c] = Outcome(c)
    BY DEF Asked, Outcomes
  <2>3. ASSUME c \in Running
        PROVE  Outcomes[c] = "pending" /\ Asked[c].port = p /\ Asked[c].wanted = Want(c)
    BY <1>1, <2>2, <2>3 DEF Request, Outcome, Running, Want
  <2>4. ASSUME Request(c)' = Request(c), Outcome(c)' = Outcome(c)
        PROVE  Asked' = Asked /\ Outcomes' = Outcomes
    BY <2>1, <2>4 DEF Asked, Outcomes
  <2>5. Allowlist!Extent(Want(c)) = Want(c) \cup Blanket(c)
    BY DEF Allowlist!Extent, Blanket, IsBlanket, Want
  <2>6. CASE Begin(c)
    <3>1. PICK q \in Ports, d \in SUBSET AllSources, u \in BOOLEAN :
            /\ arg' = [arg EXCEPT ![c] = [port |-> q, desired |-> d, update |-> u]]
            /\ pc' = [pc EXCEPT ![c] = IF u THEN "before" ELSE "list"]
      BY <2>6 DEF Begin, Goto
    <3>2. pc[c] = "idle" /\ rules' = rules /\ c \in Running' /\ pc'[c] \in {"before", "list"}
      BY <1>1, <2>6, <3>1 DEF Begin, Running, TypeOK
    <3>3. Request(c)' = [port |-> q, wanted |-> Wanted(d)] /\ Outcome(c)' = "pending"
      <4>1. arg'[c].port = q /\ arg'[c].desired = d
        BY <1>1, <3>1 DEF TypeOK
      <4>2. Outcome(c)' = "pending"
        BY <3>2 DEF Outcome
      <4>3. QED
        BY <3>2, <4>1, <4>2 DEF Request
    <3>4. Wanted(d) \in (SUBSET AllSources) \ {{}}
      BY WantedSources DEF Wanted
    <3>5. Running = {}
      <4>1. Running \in SUBSET Calls /\ IsFiniteSet(Calls) /\ Cardinality(Running) < 1
        BY <2>6, UfwAssumption DEF Begin, Running
      <4>2. IsFiniteSet(Running) /\ Cardinality(Running) \in Nat
        BY <4>1, FS_Subset, FS_CardinalityType
      <4>3. QED
        BY <4>1, <4>2, FS_EmptySet
    <3>6. \A d2 \in Calls : Outcomes[d2] # "pending"
      BY <3>5 DEF Outcomes, Outcome, Running
    <3>7. Outcomes[c] = "none" /\ AllowedOn' = AllowedOn
      BY <3>2 DEF Outcomes, Outcome, AllowedOn
    <3>8. Allowlist!Ask(c)
      <4>1. \E r \in Ports, wanted \in (SUBSET AllSources) \ {{}} :
                Asked' = [Asked EXCEPT ![c] = [port |-> r, wanted |-> wanted]]
        BY <2>1, <3>3, <3>4
      <4>2. Outcomes' = [Outcomes EXCEPT ![c] = "pending"]
        BY <2>1, <3>3
      <4>3. QED
        BY <3>6, <3>7, <4>1, <4>2 DEF Allowlist!Ask
    <3>9. QED
      BY <3>8 DEF Allowlist!AllowlistNext
  <2>7. CASE ListBefore(c) \/ Plan(c)
    <3>1. /\ rules' = rules /\ arg' = arg /\ c \in Running /\ c \in Running'
          /\ pc'[c] \in {"list", "apply"} /\ pc[c] \in {"before", "list"}
      BY <1>1, <2>7 DEF ListBefore, Plan, Goto, Running, TypeOK
    <3>2. Request(c)' = Request(c) /\ Outcome(c)' = Outcome(c) /\ AllowedOn' = AllowedOn
      BY <3>1 DEF Request, Outcome, AllowedOn
    <3>3. QED
      BY <2>4, <3>2
  <2>8. CASE Delete(c)
    <3>1. pc' = pc /\ arg' = arg /\ c \in Running
      BY <2>8 DEF Delete, Running
    <3>2. Request(c)' = Request(c) /\ Outcome(c)' = Outcome(c)
      BY <3>1 DEF Request, Outcome, Running
    <3>3. p \in Ports
      BY <1>1, <2>8, DeleteWithdraws
    <3>4. PICK s \in SourcesOf(rules, p) \ Want(c) :
            SourcesOf(rules', p) = SourcesOf(rules, p) \ {s}
      BY <1>1, <2>8, DeleteWithdraws
    <3>5. \A q : q # p => SourcesOf(rules', q) = SourcesOf(rules, q)
      BY <1>1, <2>8, DeleteCall
    <3>6. AllowedOn[p] = SourcesOf(rules, p)
      BY <3>3 DEF AllowedOn
    <3>7. AllowedOn' = [AllowedOn EXCEPT ![p] = AllowedOn[p] \ {s}]
      BY <3>3, <3>4, <3>5, <3>6, SeenOfRules
    <3>8. Allowlist!Withdraw(c)
      BY <2>3, <2>4, <3>1, <3>2, <3>4, <3>6, <3>7 DEF Allowlist!Withdraw, Asked, Outcomes
    <3>9. QED
      BY <3>8 DEF Allowlist!AllowlistNext
  <2>9. CASE Add(c)
    <3>1. pc' = pc /\ arg' = arg /\ c \in Running
      BY <2>9 DEF Add, Running
    <3>2. Request(c)' = Request(c) /\ Outcome(c)' = Outcome(c)
      BY <3>1 DEF Request, Outcome, Running
    <3>3. p \in Ports /\ SourcesOf(rules, p) \subseteq Want(c) \cup Blanket(c)
      BY <1>1, <2>9, AddAdmits
    <3>4. PICK s \in adds[c] \cap Want(c) :
            SourcesOf(rules', p) = SourcesOf(rules, p) \cup Opened(s)
      BY <1>1, <2>9, AddAdmits
    <3>5. \A q : q # p => SourcesOf(rules', q) = SourcesOf(rules, q)
      BY <1>1, <2>9, AddCall
    <3>6. AllowedOn[p] = SourcesOf(rules, p)
      BY <3>3 DEF AllowedOn
    <3>7. AllowedOn' = [AllowedOn EXCEPT ![p] = AllowedOn[p] \cup Opened(s)]
      BY <3>3, <3>4, <3>5, <3>6, SeenOfRules
    <3>8. CASE s \in SourcesOf(rules, p)
      <4>1. TwinOK(c)
        BY <2>9, <3>1 DEF RefinementInv, Add
      <4>2. Opened(s) \subseteq SourcesOf(rules, p)
        BY <3>4, <3>8, <4>1 DEF TwinOK, Opened
      <4>3. AllowedOn' = AllowedOn
        BY <3>6, <3>7, <4>2 DEF AllowedOn
      <4>4. QED
        BY <2>4, <3>2, <4>3
    <3>9. CASE s \notin SourcesOf(rules, p)
      <4>1. Allowlist!Extent({s}) = Opened(s)
        BY DEF Allowlist!Extent, Opened
      <4>2. Allowlist!Admit(c)
        BY <2>3, <2>4, <2>5, <3>1, <3>2, <3>3, <3>4, <3>6, <3>7, <3>9, <4>1
           DEF Allowlist!Admit, Asked, Outcomes
      <4>3. QED
        BY <4>2 DEF Allowlist!AllowlistNext
    <3>10. QED
      BY <3>8, <3>9
  <2>10. CASE Summarize(c)
    <3>1. /\ c \in Running /\ pc[c] = "apply" /\ rules' = rules
          /\ pc'[c] = "ok" /\ c \notin Running'
      BY <1>1, <2>10 DEF Summarize, Return, Goto, Running, TypeOK
    <3>2. Request(c)' = NoRequest /\ Outcome(c)' = "done" /\ AllowedOn' = AllowedOn
      BY <3>1 DEF Request, Outcome, AllowedOn
    <3>3. Succeeds(c) /\ p \in Ports
      BY <1>1, <3>1 DEF Succeeds, TypeInv
    <3>4. AllowedOn[p] = SourcesOf(rules, p)
      BY <3>3 DEF AllowedOn
    <3>5. /\ Want(c) \subseteq AllowedOn[p]
          /\ AllowedOn[p] \subseteq Want(c) \cup Blanket(c)
      BY <1>1, <3>3, <3>4, Success
    <3>6. Allowlist!Finish(c)
      BY <2>1, <2>3, <2>5, <3>1, <3>2, <3>5
         DEF Allowlist!Finish, Allowlist!Leave, Asked, Outcomes
    <3>7. QED
      BY <3>6 DEF Allowlist!AllowlistNext
  <2>11. CASE CommandFails(c)
    <3>1. c \in Running /\ rules' = rules /\ pc'[c] = "error" /\ c \notin Running'
      BY <1>1, <2>11 DEF CommandFails, Return, Goto, Running, TypeOK
    <3>2. Request(c)' = NoRequest /\ Outcome(c)' = "failed" /\ AllowedOn' = AllowedOn
      BY <3>1 DEF Request, Outcome, AllowedOn
    <3>3. Allowlist!GiveUp(c)
      BY <2>1, <2>3, <3>1, <3>2 DEF Allowlist!GiveUp, Allowlist!Leave, Asked, Outcomes
    <3>4. QED
      BY <3>3 DEF Allowlist!AllowlistNext
  <2>12. QED
    BY <1>3, <2>6, <2>7, <2>8, <2>9, <2>10, <2>11
<1>4. QED
  BY <1>2, <1>3 DEF Next

\* With calls one after the other, whatever the rules are, are numbered and fail,
\* the ports' allowlists change only as PortAllowlist says: nothing but the call's
\* port, nobody wanted withdrawn, nobody unwanted admitted, done only when
\* it is (openport.go:118-159).
THEOREM ImplementsAllowlist ==
    ASSUME MaxConcurrent = 1
    PROVE  Spec => KeepsAllowlists
<1>1. Init => RefinementInv
  BY SerialStart DEF RefinementInv, Init, Running
<1>2. RefinementInv /\ [Next]_vars => RefinementInv'
  BY TwinStep
<1>3. RefinementInv /\ [Next]_vars => [Allowlist!AllowlistNext]_<<AllowedOn, Asked, Outcomes>>
  BY StepIsAllowlist
<1>4. Allowlist!allowlistVars = <<AllowedOn, Asked, Outcomes>>
  BY DEF Allowlist!allowlistVars, Asked, Outcomes
<1>5. QED
  BY <1>1, <1>2, <1>3, <1>4, StartIsAllowlist, PTL
     DEF Spec, KeepsAllowlists, Allowlist!AllowlistSpec, Allowlist!allowlistVars,
         Asked, Outcomes
=============================================================================
