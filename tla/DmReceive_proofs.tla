-------------------------- MODULE DmReceive_proofs ---------------------------
(* Proofs about MessageList for any packets, own messages and bounds, and  *)
(* about DmReceive, where MessageJob supplies the packets.                 *)
EXTENDS DmReceive, FiniteSetTheorems, FunctionTheorems,
        WellFoundedInduction, TLAPS

-----------------------------------------------------------------------------
(* Lists and what they contain                                             *)

LEMMA ConcatElements ==
    ASSUME NEW S, NEW s \in Seq(S), NEW t \in Seq(S)
    PROVE  s \o t \in Seq(S) /\ Elements(s \o t) = Elements(s) \cup Elements(t)
<1> PICK r : r = s \o t
    OBVIOUS
<1>1. /\ r \in Seq(S) /\ DOMAIN r = 1 .. Len(s) + Len(t)
      /\ DOMAIN s = 1 .. Len(s) /\ DOMAIN t = 1 .. Len(t)
      /\ Len(s) \in Nat /\ Len(t) \in Nat
      /\ \A i \in 1 .. Len(s) : r[i] = s[i]
      /\ \A i \in 1 .. Len(t) : r[Len(s) + i] = t[i]
    OBVIOUS
<1>2. ASSUME NEW i \in DOMAIN r PROVE r[i] \in Elements(s) \cup Elements(t)
    <2>1. CASE i <= Len(s)
        BY <1>1, <2>1 DEF Elements
    <2>2. CASE ~(i <= Len(s))
        <3>1. i - Len(s) \in 1 .. Len(t) /\ Len(s) + (i - Len(s)) = i
            BY <1>1, <2>2
        <3> QED BY <1>1, <3>1 DEF Elements
    <2> QED BY <2>1, <2>2
<1>3. /\ \A i \in DOMAIN s : s[i] \in Elements(r)
      /\ \A i \in DOMAIN t : t[i] \in Elements(r)
    <2>1. \A i \in DOMAIN s : i \in DOMAIN r
        BY <1>1
    <2>2. \A i \in DOMAIN t : Len(s) + i \in DOMAIN r
        BY <1>1
    <2> QED BY <1>1, <2>1, <2>2 DEF Elements
<1> QED BY <1>1, <1>2, <1>3 DEF Elements

LEMMA ConcatTimes ==
    ASSUME NEW s \in Seq(Nat), NEW t \in Seq(Nat)
    PROVE  s \o t \in Seq(Nat) /\ Elements(s \o t) = Elements(s) \cup Elements(t)
BY ConcatElements

LEMMA WiderSeq ==
    ASSUME NEW S, NEW T, S \subseteq T, NEW s \in Seq(S)
    PROVE  s \in Seq(T)
<1>1. Len(s) \in Nat /\ s \in [1 .. Len(s) -> T]
    OBVIOUS
<1> QED BY <1>1

LEMMA AppendElements ==
    ASSUME NEW S, NEW s \in Seq(S), NEW e \in S
    PROVE  Append(s, e) \in Seq(S) /\ Elements(Append(s, e)) = Elements(s) \cup {e}
<1>1. <<e>> \in Seq(S) /\ Append(s, e) = s \o <<e>>
    OBVIOUS
<1>2. Elements(<<e>>) = {e}
    BY DEF Elements
<1>3. /\ s \o <<e>> \in Seq(S)
      /\ Elements(s \o <<e>>) = Elements(s) \cup Elements(<<e>>)
    BY <1>1, ConcatElements
<1> QED BY <1>1, <1>2, <1>3

LEMMA TailElements ==
    ASSUME NEW S, NEW s \in Seq(S), s # <<>>
    PROVE  /\ Head(s) \in S /\ Tail(s) \in Seq(S)
           /\ Elements(s) = {Head(s)} \cup Elements(Tail(s))
<1>1. <<Head(s)>> \in Seq(S) /\ Tail(s) \in Seq(S) /\ s = <<Head(s)>> \o Tail(s)
    OBVIOUS
<1>2. Elements(<<Head(s)>>) = {Head(s)}
    BY DEF Elements
<1>3. Elements(s) = Elements(<<Head(s)>>) \cup Elements(Tail(s))
    BY <1>1, ConcatElements
<1>4. Head(s) \in S
    OBVIOUS
<1> QED BY <1>1, <1>2, <1>3, <1>4

LEMMA ReverseElements ==
    ASSUME NEW S, NEW s \in Seq(S)
    PROVE  Reverse(s) \in Seq(S) /\ Elements(Reverse(s)) = Elements(s)
<1> PICK r : r = Reverse(s)
    OBVIOUS
<1>1. /\ r \in Seq(S) /\ DOMAIN r = 1 .. Len(s) /\ DOMAIN s = 1 .. Len(s)
      /\ Len(s) \in Nat
      /\ \A i \in 1 .. Len(s) : r[i] = s[(Len(s) - i) + 1]
    BY DEF Reverse
<1>2. \A i \in 1 .. Len(s) : /\ (Len(s) - i) + 1 \in 1 .. Len(s)
                             /\ (Len(s) - ((Len(s) - i) + 1)) + 1 = i
    BY <1>1
<1> QED BY <1>1, <1>2 DEF Elements

(* What is left when place i is taken out.                                 *)
LEMMA RemoveElements ==
    ASSUME NEW S, NEW s \in Seq(S), NEW i \in DOMAIN s
    PROVE  LET r == SubSeq(s, 1, i - 1) \o SubSeq(s, i + 1, Len(s))
           IN  r \in Seq(S) /\ Elements(s) \ {s[i]} \subseteq Elements(r)
<1> PICK t, u : t = SubSeq(s, 1, i - 1) /\ u = SubSeq(s, i + 1, Len(s))
    OBVIOUS
<1>1. DOMAIN s = 1 .. Len(s) /\ Len(s) \in Nat /\ i \in 1 .. Len(s)
    OBVIOUS
<1>2. /\ t \in Seq(S) /\ DOMAIN t = 1 .. i - 1
      /\ \A j \in 1 .. i - 1 : t[j] = s[j]
    BY <1>1
<1>3. /\ u \in Seq(S) /\ DOMAIN u = 1 .. Len(s) - i
      /\ \A j \in 1 .. Len(s) - i : u[j] = s[i + j]
    BY <1>1
<1>4. ASSUME NEW j \in DOMAIN s, j # i PROVE s[j] \in Elements(t) \cup Elements(u)
    <2>1. CASE j < i
        <3>1. j \in 1 .. i - 1
            BY <1>1, <2>1
        <3> QED BY <1>2, <3>1 DEF Elements
    <2>2. CASE ~(j < i)
        <3>1. j - i \in 1 .. Len(s) - i /\ i + (j - i) = j
            BY <1>1, <2>2, <1>4
        <3> QED BY <1>3, <3>1 DEF Elements
    <2> QED BY <2>1, <2>2
<1>5. ASSUME NEW m \in Elements(s), m # s[i]
      PROVE  m \in Elements(t) \cup Elements(u)
    <2>1. PICK j \in DOMAIN s : m = s[j]
        BY DEF Elements
    <2> QED BY <2>1, <1>4, <1>5
<1>6. t \o u \in Seq(S) /\ Elements(t \o u) = Elements(t) \cup Elements(u)
    BY <1>2, <1>3, ConcatElements
<1> QED BY <1>5, <1>6

LEMMA PrefixElements ==
    ASSUME NEW S, NEW s \in Seq(S), NEW n \in Nat, n <= Len(s)
    PROVE  SubSeq(s, 1, n) \in Seq(S) /\ Elements(SubSeq(s, 1, n)) \subseteq Elements(s)
BY DEF Elements
-----------------------------------------------------------------------------
(* Queries                                                                 *)

(* Sets that grow one after the other are told apart by their sizes, and   *)
(* every size up to the largest occurs.                                    *)
LEMMA Ranked ==
    ASSUME NEW S, IsFiniteSet(S), NEW under \in [S -> SUBSET S],
           \A m \in S : m \in under[m],
           \A m, k \in S : /\ m # k => under[m] # under[k]
                           /\ under[m] \subseteq under[k] \/ under[k] \subseteq under[m]
    PROVE  /\ \A i \in 1 .. Cardinality(S) :
                  \E m \in S : Cardinality(under[m]) = i
           /\ \A s \in [1 .. Cardinality(S) -> S] :
                  (\A i \in 1 .. Cardinality(S) : Cardinality(under[s[i]]) = i)
                      => s \in Seq(S) /\ Elements(s) = S
<1> DEFINE n == Cardinality(S)
           rank == [m \in S |-> Cardinality(under[m])]
<1>1. n \in Nat
    BY FS_CardinalityType
<1>2. ASSUME NEW m \in S
      PROVE  IsFiniteSet(under[m]) /\ Cardinality(under[m]) \in 1 .. n
    <2>1. under[m] \in SUBSET S /\ under[m] # {}
        OBVIOUS
    <2>2. IsFiniteSet(under[m]) /\ Cardinality(under[m]) <= n
        BY <2>1, FS_Subset
    <2>3. Cardinality(under[m]) \in Nat /\ Cardinality(under[m]) # 0
        BY <2>1, <2>2, FS_CardinalityType, FS_EmptySet
    <2> QED BY <1>1, <2>2, <2>3
<1>3. ASSUME NEW m \in S, NEW k \in S, Cardinality(under[m]) = Cardinality(under[k])
      PROVE  m = k
    <2>1. CASE under[m] \subseteq under[k]
        BY <1>2, <1>3, <2>1, FS_Subset
    <2>2. CASE under[k] \subseteq under[m]
        BY <1>2, <1>3, <2>2, FS_Subset
    <2> QED BY <2>1, <2>2
<1>4. rank \in Injection(S, 1 .. n)
    BY <1>2, <1>3, Fun_IsInj
<1>5. IsFiniteSet(1 .. n) /\ Cardinality(1 .. n) = n
    BY <1>1, FS_Interval
<1>6. rank \in Surjection(S, 1 .. n)
    BY <1>4, <1>5, FS_Injection
<1>7. ASSUME NEW i \in 1 .. n PROVE \E m \in S : Cardinality(under[m]) = i
    <2> HIDE DEF rank, n
    <2>1. \A j \in 1 .. n : \E m \in S : rank[m] = j
        BY <1>6, Fun_SurjectionProperties
    <2>2. PICK m \in S : rank[m] = i
        BY <2>1
    <2> QED BY <2>2 DEF rank
<1>8. ASSUME NEW s \in [1 .. n -> S],
             \A i \in 1 .. n : Cardinality(under[s[i]]) = i
      PROVE  s \in Seq(S) /\ Elements(s) = S
    <2>1. s \in Seq(S) /\ DOMAIN s = 1 .. n
        BY <1>1
    <2>2. ASSUME NEW m \in S PROVE m \in Elements(s)
        <3>1. Cardinality(under[m]) \in 1 .. n
            BY <1>2
        <3>2. s[Cardinality(under[m])] = m
            BY <3>1, <1>3, <1>8
        <3> QED BY <2>1, <3>1, <3>2 DEF Elements
    <2>3. Elements(s) \subseteq S
        BY <2>1 DEF Elements
    <2> QED BY <2>1, <2>2, <2>3
<1> QED BY <1>7, <1>8

(* A query returns every row it is for, and no other.                      *)
LEMMA AscendingElements ==
    ASSUME NEW S, S \subseteq Nat, IsFiniteSet(S)
    PROVE  /\ Ascending(S) \in Seq(S) /\ Elements(Ascending(S)) = S
           /\ \A i \in 1 .. Cardinality(S) :
                  \E m \in S : Cardinality({n \in S : n <= m}) = i
<1> DEFINE under == [m \in S |-> {n \in S : n <= m}]
<1>1. /\ under \in [S -> SUBSET S]
      /\ \A m \in S : m \in under[m]
    OBVIOUS
<1>2. ASSUME NEW m \in S, NEW k \in S
      PROVE  /\ m # k => under[m] # under[k]
             /\ under[m] \subseteq under[k] \/ under[k] \subseteq under[m]
    <2> PICK T, U : T = under[m] /\ U = under[k]
        OBVIOUS
    <2>1. /\ \A n : n \in T <=> n \in S /\ n <= m
          /\ \A n : n \in U <=> n \in S /\ n <= k
          /\ m \in Nat /\ k \in Nat
        OBVIOUS
    <2> HIDE DEF under
    <2>2. m # k => T # U
        BY <2>1
    <2>3. CASE m <= k
        <3>1. ASSUME NEW n \in T PROVE n \in U
            <4>1. n \in Nat /\ n \in S
                BY <2>1
            <4> QED BY <2>1, <2>3, <4>1
        <3> QED BY <2>2, <3>1
    <2>4. CASE k <= m
        <3>1. ASSUME NEW n \in U PROVE n \in T
            <4>1. n \in Nat /\ n \in S
                BY <2>1
            <4> QED BY <2>1, <2>4, <4>1
        <3> QED BY <2>2, <3>1
    <2> QED BY <2>1, <2>3, <2>4
<1>3. \A m \in S : Cardinality(under[m]) = Cardinality({n \in S : n <= m})
    OBVIOUS
<1> HIDE DEF under
<1>4. \A i \in 1 .. Cardinality(S) :
          \E m \in S : Cardinality({n \in S : n <= m}) = i
    <2>1. \A i \in 1 .. Cardinality(S) : \E m \in S : Cardinality(under[m]) = i
        BY <1>1, <1>2, Ranked
    <2> QED BY <2>1, <1>3
<1> PICK s : s = Ascending(S)
    OBVIOUS
<1>5. \A i \in 1 .. Cardinality(S) :
          s[i] \in S /\ Cardinality({n \in S : n <= s[i]}) = i
    BY <1>4 DEF Ascending
<1>6. s \in [1 .. Cardinality(S) -> S]
    BY <1>5 DEF Ascending
<1>7. \A i \in 1 .. Cardinality(S) : Cardinality(under[s[i]]) = i
    BY <1>3, <1>5
<1>8. s \in Seq(S) /\ Elements(s) = S
    BY <1>1, <1>2, <1>6, <1>7, Ranked
<1> QED BY <1>4, <1>8

LEMMA DescendingElements ==
    ASSUME NEW S, S \subseteq Nat, IsFiniteSet(S)
    PROVE  Descending(S) \in Seq(S) /\ Elements(Descending(S)) = S
<1> DEFINE under == [m \in S |-> {n \in S : n >= m}]
<1>1. /\ under \in [S -> SUBSET S]
      /\ \A m \in S : m \in under[m]
    OBVIOUS
<1>2. ASSUME NEW m \in S, NEW k \in S
      PROVE  /\ m # k => under[m] # under[k]
             /\ under[m] \subseteq under[k] \/ under[k] \subseteq under[m]
    <2> PICK T, U : T = under[m] /\ U = under[k]
        OBVIOUS
    <2>1. /\ \A n : n \in T <=> n \in S /\ n >= m
          /\ \A n : n \in U <=> n \in S /\ n >= k
          /\ m \in Nat /\ k \in Nat
        OBVIOUS
    <2> HIDE DEF under
    <2>2. m # k => T # U
        BY <2>1
    <2>3. CASE m <= k
        <3>1. ASSUME NEW n \in U PROVE n \in T
            <4>1. n \in Nat /\ n \in S
                BY <2>1
            <4> QED BY <2>1, <2>3, <4>1
        <3> QED BY <2>2, <3>1
    <2>4. CASE k <= m
        <3>1. ASSUME NEW n \in T PROVE n \in U
            <4>1. n \in Nat /\ n \in S
                BY <2>1
            <4> QED BY <2>1, <2>4, <4>1
        <3> QED BY <2>2, <3>1
    <2> QED BY <2>1, <2>3, <2>4
<1>3. \A m \in S : Cardinality(under[m]) = Cardinality({n \in S : n >= m})
    OBVIOUS
<1> HIDE DEF under
<1>4. \A i \in 1 .. Cardinality(S) :
          \E m \in S : Cardinality({n \in S : n >= m}) = i
    <2>1. \A i \in 1 .. Cardinality(S) : \E m \in S : Cardinality(under[m]) = i
        BY <1>1, <1>2, Ranked
    <2> QED BY <2>1, <1>3
<1> PICK s : s = Descending(S)
    OBVIOUS
<1>5. \A i \in 1 .. Cardinality(S) :
          s[i] \in S /\ Cardinality({n \in S : n >= s[i]}) = i
    BY <1>4 DEF Descending
<1>6. s \in [1 .. Cardinality(S) -> S]
    BY <1>5 DEF Descending
<1>7. \A i \in 1 .. Cardinality(S) : Cardinality(under[s[i]]) = i
    BY <1>3, <1>5
<1> QED BY <1>1, <1>2, <1>6, <1>7, Ranked

(* The first and the last message of a packet.                             *)
LEMMA LeastGreatest ==
    ASSUME NEW S, S \subseteq Nat, S # {}
    PROVE  /\ \E m \in S : \A n \in S : m <= n
           /\ IsFiniteSet(S) => \E m \in S : \A n \in S : n <= m
<1>1. PICK m \in S : \A n \in S : ~(<<n, m>> \in OpToRel(<, Nat))
    BY NatLessThanWellFounded, WFMin
<1>2. ASSUME NEW n \in S PROVE m <= n
    <2>1. n \in Nat /\ m \in Nat /\ <<n, m>> \in Nat \X Nat
        OBVIOUS
    <2>2. ~(n < m)
        BY <1>1, <2>1 DEF OpToRel
    <2> QED BY <2>1, <2>2
<1>3. ASSUME IsFiniteSet(S) PROVE \E k \in S : \A n \in S : n <= k
    <2>1. Cardinality(S) \in Nat /\ Cardinality(S) # 0
        BY <1>3, FS_CardinalityType, FS_EmptySet
    <2>2. PICK k \in S : Cardinality({n \in S : n <= k}) = Cardinality(S)
        <3>1. \A i \in 1 .. Cardinality(S) :
                  \E k \in S : Cardinality({n \in S : n <= k}) = i
            BY <1>3, AscendingElements
        <3>2. Cardinality(S) \in 1 .. Cardinality(S)
            BY <2>1
        <3> QED BY <3>1, <3>2
    <2>3. {n \in S : n <= k} = S
        BY <2>2, <1>3, FS_Subset
    <2> QED BY <2>3
<1> QED BY <1>2, <1>3
-----------------------------------------------------------------------------
(* The inductive invariant                                                 *)

Range2 == [type : {2}, isLoading : BOOLEAN, start : Nat, end : Nat]
Event  == [type : {1}, message : Own] \cup Range2 \cup [type : {3}]
              \cup [type : {6}, timestampStart : Nat]

Types ==
    /\ stored \subseteq Nat /\ IsFiniteSet(stored)
    /\ deleting \subseteq Own
    /\ messageUUIDList \subseteq Nat
    /\ arrived \subseteq Incoming \cup {{m} : m \in Own}
    /\ isLoading \in BOOLEAN
    /\ at \in {"poll", "row", "show", "page"}
    /\ rows \in Seq(Nat) /\ mutableList \in Seq(Nat) /\ new \in Seq(Nat)
    /\ messages \in Seq(Nat) /\ originalMessages \in Seq(Nat)
    /\ delayed \in Seq(Range2)
    /\ messageEventSyncList \in Seq(Event)

(* The coroutine takes the next event when the last query is used up, and  *)
(* is at a row only when there is one.                                     *)
Place ==
    /\ at = "row" => rows # <<>>
    /\ at \in {"poll", "page"} => rows = <<>>

(* SeenKept, for the moment the copy becomes the list: what was seen is in *)
(* the copy, or still held back while a page waits to be shown.            *)
Kept ==
    /\ SeenKept
    /\ at = "show" => messageUUIDList \subseteq Elements(new)
    /\ at = "page" => messageUUIDList \subseteq Elements(new) \cup Elements(originalMessages)

(* Only own messages are ever deleted, so a query finds what arrived.      *)
Stays == \A S \in arrived : S \ Own \subseteq stored

IInv == Types /\ Place /\ Kept /\ Stays /\ ArrivalSeen

LEMMA InitIInv == Init => IInv
<1> SUFFICES ASSUME Init PROVE IInv
    OBVIOUS
<1>1. <<PageEvent(Now)>> \in Seq(Event)
    BY BoundAssumption DEF PageEvent, Event
<1>2. <<>> \in Seq(Nat) /\ <<>> \in Seq(Range2)
    OBVIOUS
<1>3. Types
    BY <1>1, <1>2, MessageAssumption DEF Init, Types
<1>4. Place
    BY DEF Init, Place
<1>5. Kept
    BY DEF Init, Kept, SeenKept
<1>6. Stays /\ ArrivalSeen
    BY DEF Init, Stays, ArrivalSeen
<1> QED BY <1>3, <1>4, <1>5, <1>6 DEF IInv

(* The coroutine has seen m or will look for it.                           *)
Awaited(m) ==
    \/ m \in messageUUIDList \cup Elements(rows)
    \/ \E e \in Elements(delayed) \cup Elements(messageEventSyncList) : Covers(e, m)

StillAwaited == \A m \in stored \ Own : Awaited(m) => Awaited(m)'

(* Nothing that arrived is forgotten when what was seen is still seen, own *)
(* messages apart, and no event 2 is lost.                                 *)
LEMMA ArrivalKept ==
    ASSUME ArrivalSeen, arrived' = arrived,
           (messageUUIDList \cup Elements(rows)) \ Own
               \subseteq messageUUIDList' \cup Elements(rows'),
           \A e \in Elements(delayed) \cup Elements(messageEventSyncList) :
               e.type = 2 => e \in Elements(delayed') \cup Elements(messageEventSyncList')
    PROVE  ArrivalSeen' /\ StillAwaited
<1>1. ASSUME NEW m, m \notin Own, Awaited(m) PROVE Awaited(m)'
    <2>1. CASE m \in messageUUIDList \cup Elements(rows)
        BY <2>1, <1>1 DEF Awaited
    <2>2. CASE \E e \in Elements(delayed) \cup Elements(messageEventSyncList) : Covers(e, m)
        BY <2>2 DEF Covers, Awaited
    <2> QED BY <1>1, <2>1, <2>2 DEF Awaited
<1>2. ArrivalSeen'
    BY <1>1 DEF ArrivalSeen, Awaited
<1> QED BY <1>1, <1>2 DEF StillAwaited

-----------------------------------------------------------------------------
(* What is posted                                                          *)

LEMMA InsertStep ==
    ASSUME IInv, NEW S \in Incoming, NEW loading \in BOOLEAN, Insert(S, loading)
    PROVE  IInv'
<1> DEFINE first == CHOOSE m \in S : \A n \in S : m <= n
           last  == CHOOSE m \in S : \A n \in S : n <= m
<1> USE DEF IInv
<1>1. S \subseteq Nat /\ IsFiniteSet(S) /\ S # {}
    BY MessageAssumption
<1>2. first \in S /\ \A n \in S : first <= n
    BY <1>1, LeastGreatest
<1>3. last \in S /\ \A n \in S : n <= last
    BY <1>1, LeastGreatest
<1> PICK e : e = SocketEvent(first, last, loading)
    OBVIOUS
<1>4. delayed' = Append(delayed, e)
    BY DEF Insert, PostDelay
<1>5. e \in Range2 /\ e.type = 2 /\ e.start = first /\ e.end = last
    BY <1>1, <1>2, <1>3 DEF SocketEvent, Range2
<1> HIDE DEF first, last
<1>6. /\ delayed' \in Seq(Range2)
      /\ Elements(delayed') = Elements(delayed) \cup {e}
    BY <1>4, <1>5, AppendElements DEF Types
<1>7. stored' = stored \cup S /\ arrived' = arrived \cup {S}
    BY DEF Insert
<1>8. /\ UNCHANGED <<deleting, messageEventSyncList, at, rows, isLoading,
                     mutableList, new, messages, originalMessages, messageUUIDList>>
    BY DEF Insert, work, shown
<1>9. Types'
    <2>1. IsFiniteSet(stored') /\ stored' \subseteq Nat
        BY <1>1, <1>7, FS_Union DEF Types
    <2> QED BY <1>6, <1>7, <1>8, <2>1 DEF Types
<1>10. Place' /\ Kept'
    BY <1>8 DEF Place, Kept, SeenKept
<1>11. Stays'
    BY <1>7 DEF Stays
<1>12. ArrivalSeen'
    <2> SUFFICES ASSUME NEW T \in arrived', NEW m \in T \ Own
                 PROVE  \/ m \in messageUUIDList' \cup Elements(rows')
                        \/ \E f \in Elements(delayed') \cup Elements(messageEventSyncList') :
                               Covers(f, m)
        BY DEF ArrivalSeen
    <2>1. CASE T \in arrived
        BY <2>1, <1>6, <1>8 DEF ArrivalSeen
    <2>2. CASE T = S
        <3>1. Covers(e, m)
            BY <1>2, <1>3, <1>5, <2>2 DEF Covers
        <3> QED BY <3>1, <1>6
    <2> QED BY <2>1, <2>2, <1>7
<1> QED BY <1>9, <1>10, <1>11, <1>12

LEMMA UnreadOverStep == ASSUME IInv, UnreadOver PROVE IInv'
<1> USE DEF IInv
<1>1. messageEventSyncList' = Append(messageEventSyncList, OverEvent)
    BY DEF UnreadOver, Post
<1>2. OverEvent \in Event
    BY DEF OverEvent, Event
<1>3. /\ messageEventSyncList' \in Seq(Event)
      /\ Elements(messageEventSyncList') = Elements(messageEventSyncList) \cup {OverEvent}
    BY <1>1, <1>2, AppendElements DEF Types
<1>4. /\ UNCHANGED <<stored, arrived, deleting, delayed, at, rows, isLoading,
                     mutableList, new, messages, originalMessages, messageUUIDList>>
    BY DEF UnreadOver, source, work, shown
<1>5. Types' /\ Place'
    BY <1>3, <1>4 DEF Types, Place
<1>6. Kept' /\ Stays'
    BY <1>4 DEF Kept, SeenKept, Stays
<1>7. ArrivalSeen'
    BY <1>3, <1>4, ArrivalKept
<1> QED BY <1>5, <1>6, <1>7

LEMMA ElapseStep == ASSUME IInv, Elapse PROVE IInv' /\ StillAwaited
<1> USE DEF IInv
<1>1. /\ delayed # <<>> /\ delayed' = Tail(delayed)
      /\ messageEventSyncList' = Append(messageEventSyncList, Head(delayed))
    BY DEF Elapse, Post
<1>2. /\ Head(delayed) \in Range2 /\ delayed' \in Seq(Range2)
      /\ Elements(delayed) = {Head(delayed)} \cup Elements(delayed')
    BY <1>1, TailElements DEF Types
<1>3. Head(delayed) \in Event
    BY <1>2 DEF Event
<1>4. /\ messageEventSyncList' \in Seq(Event)
      /\ Elements(messageEventSyncList')
             = Elements(messageEventSyncList) \cup {Head(delayed)}
    BY <1>1, <1>3, AppendElements DEF Types
<1>5. /\ UNCHANGED <<stored, arrived, deleting, at, rows, isLoading,
                     mutableList, new, messages, originalMessages, messageUUIDList>>
    BY DEF Elapse, source, work, shown
<1>6. Types' /\ Place'
    BY <1>2, <1>4, <1>5 DEF Types, Place
<1>7. Kept' /\ Stays'
    BY <1>5 DEF Kept, SeenKept, Stays
<1>8. ArrivalSeen' /\ StillAwaited
    BY <1>2, <1>4, <1>5, ArrivalKept
<1> QED BY <1>6, <1>7, <1>8

LEMMA OwnStep ==
    ASSUME IInv, NEW m \in Own, insertOwnerMessageAndShow(m) PROVE IInv' /\ StillAwaited
<1> USE DEF IInv
<1>1. messageEventSyncList' = Append(messageEventSyncList, OwnEvent(m))
    BY DEF insertOwnerMessageAndShow, Post
<1>2. OwnEvent(m) \in Event
    BY DEF OwnEvent, Event
<1>3. /\ messageEventSyncList' \in Seq(Event)
      /\ Elements(messageEventSyncList') = Elements(messageEventSyncList) \cup {OwnEvent(m)}
    BY <1>1, <1>2, AppendElements DEF Types
<1>4. /\ stored' = stored \cup {m} /\ arrived' = arrived \cup {{m}}
      /\ UNCHANGED <<deleting, delayed, at, rows, isLoading,
                     mutableList, new, messages, originalMessages, messageUUIDList>>
    BY DEF insertOwnerMessageAndShow, work, shown
<1>5. Types'
    <2>1. IsFiniteSet(stored') /\ stored' \subseteq Nat
        BY <1>4, FS_AddElement, MessageAssumption DEF Types
    <2> QED BY <1>3, <1>4, <2>1 DEF Types
<1>6. Place' /\ Kept' /\ Stays'
    BY <1>4 DEF Place, Kept, SeenKept, Stays
<1>7. ArrivalSeen'
    <2> SUFFICES ASSUME NEW T \in arrived', NEW n \in T \ Own
                 PROVE  \/ n \in messageUUIDList' \cup Elements(rows')
                        \/ \E f \in Elements(delayed') \cup Elements(messageEventSyncList') :
                               Covers(f, n)
        BY DEF ArrivalSeen
    <2>1. T \in arrived
        BY <1>4
    <2> QED BY <2>1, <1>3, <1>4 DEF ArrivalSeen
<1>8. StillAwaited
    BY <1>3, <1>4 DEF StillAwaited, Awaited
<1> QED BY <1>5, <1>6, <1>7, <1>8

LEMMA LoadMoreStep == ASSUME IInv, LoadMore PROVE IInv' /\ StillAwaited
<1> DEFINE time == CHOOSE m \in Elements(messages) : \A n \in Elements(messages) : m <= n
<1> USE DEF IInv
<1>1. messageEventSyncList' = Append(messageEventSyncList, PageEvent(time))
    BY DEF LoadMore, Post
<1>2. time \in Nat
    <2>1. messages \in Seq(Nat) /\ messages # <<>>
        BY DEF LoadMore, Types
    <2>2. Elements(messages) \subseteq Nat /\ Elements(messages) # {}
        BY <2>1, TailElements DEF Elements
    <2> QED BY <2>2, LeastGreatest
<1>3. PageEvent(time) \in Event
    BY <1>2 DEF PageEvent, Event
<1> HIDE DEF time
<1>4. /\ messageEventSyncList' \in Seq(Event)
      /\ Elements(messageEventSyncList')
             = Elements(messageEventSyncList) \cup {PageEvent(time)}
    BY <1>1, <1>3, AppendElements DEF Types
<1>5. /\ UNCHANGED <<stored, arrived, deleting, delayed, at, rows, isLoading,
                     mutableList, new, messages, originalMessages, messageUUIDList>>
    BY DEF LoadMore, source, work, shown
<1>6. Types' /\ Place'
    BY <1>4, <1>5 DEF Types, Place
<1>7. Kept' /\ Stays'
    BY <1>5 DEF Kept, SeenKept, Stays
<1>8. ArrivalSeen' /\ StillAwaited
    BY <1>4, <1>5, ArrivalKept
<1> QED BY <1>6, <1>7, <1>8

LEMMA RemoveStep ==
    ASSUME IInv, NEW m \in Own, removeItem(m) PROVE IInv'
<1> USE DEF IInv
<1> DEFINE i == CHOOSE i \in DOMAIN messages :
                    messages[i] = m /\ \A k \in DOMAIN messages :
                                           messages[k] = m => k <= i
<1>1. /\ messages' = SubSeq(messages, 1, i - 1) \o SubSeq(messages, i + 1, Len(messages))
      /\ m \in Elements(messages)
      /\ messageUUIDList' = messageUUIDList \ {m}
      /\ deleting' = deleting \cup {m}
      /\ UNCHANGED <<stored, arrived, delayed, messageEventSyncList, at, rows,
                     isLoading, mutableList, new, originalMessages>>
    BY DEF removeItem, bus, work
<1>2. i \in DOMAIN messages /\ messages[i] = m
    <2> DEFINE D == {k \in DOMAIN messages : messages[k] = m}
    <2>1. DOMAIN messages = 1 .. Len(messages) /\ Len(messages) \in Nat
        BY DEF Types
    <2>2. D \subseteq Nat /\ \A k \in D : k <= Len(messages)
        BY <2>1
    <2>3. D # {}
        BY <1>1 DEF Elements
    <2> HIDE DEF D
    <2>4. IsFiniteSet(D)
        BY <2>1, <2>2, FS_BoundedSetOfNaturals
    <2>5. \E j \in D : \A k \in D : k <= j
        BY <2>2, <2>3, <2>4, LeastGreatest
    <2> QED BY <2>5 DEF D
<1> HIDE DEF i
<1>3. messages' \in Seq(Nat) /\ Elements(messages) \ {m} \subseteq Elements(messages')
    BY <1>1, <1>2, RemoveElements DEF Types
<1>4. Types' /\ Place'
    BY <1>1, <1>3 DEF Types, Place
<1>5. Kept' /\ Stays'
    BY <1>1, <1>3 DEF Kept, SeenKept, Stays
<1>6. ArrivalSeen'
    BY <1>1, ArrivalKept
<1> QED BY <1>4, <1>5, <1>6

LEMMA DeleteStep ==
    ASSUME IInv, NEW m \in Own, deleteMessage(m) PROVE IInv'
<1> USE DEF IInv
<1>1. /\ m \in deleting /\ deleting' = deleting \ {m} /\ stored' = stored \ {m}
      /\ UNCHANGED <<arrived, delayed, messageEventSyncList, at, rows, isLoading,
                     mutableList, new, messages, originalMessages, messageUUIDList>>
    BY DEF deleteMessage, bus, work, shown
<1>2. IsFiniteSet(stored') /\ stored' \subseteq Nat
    BY <1>1, FS_RemoveElement DEF Types
<1>3. Types' /\ Place'
    BY <1>1, <1>2 DEF Types, Place
<1>4. Kept' /\ Stays'
    BY <1>1 DEF Kept, SeenKept, Stays
<1>5. ArrivalSeen'
    BY <1>1, ArrivalKept
<1> QED BY <1>3, <1>4, <1>5

-----------------------------------------------------------------------------
(* buildMessageChange                                                      *)

LEMMA PollFacts ==
    ASSUME Types, NEW type, Poll(type)
    PROVE  LET e == Head(messageEventSyncList)
           IN  /\ at = "poll" /\ e \in Event /\ e.type = type
               /\ messageEventSyncList' \in Seq(Event)
               /\ Elements(messageEventSyncList) = {e} \cup Elements(messageEventSyncList')
               /\ UNCHANGED <<stored, arrived, deleting, delayed>>
<1>1. /\ messageEventSyncList # <<>> /\ at = "poll"
      /\ Head(messageEventSyncList).type = type
      /\ messageEventSyncList' = Tail(messageEventSyncList)
      /\ UNCHANGED <<stored, arrived, deleting, delayed>>
    BY DEF Poll, source
<1>2. messageEventSyncList \in Seq(Event)
    BY DEF Types
<1> QED BY <1>1, <1>2, TailElements

LEMMA AddOwnStep == ASSUME IInv, AddOwn PROVE IInv' /\ StillAwaited
<1> USE DEF IInv
<1> PICK e : e = Head(messageEventSyncList)
    OBVIOUS
<1>1. /\ at = "poll" /\ e \in Event /\ e.type = 1
      /\ messageEventSyncList' \in Seq(Event)
      /\ Elements(messageEventSyncList) = {e} \cup Elements(messageEventSyncList')
      /\ UNCHANGED <<stored, arrived, deleting, delayed>>
    BY PollFacts DEF AddOwn
<1>2. e.message \in Own /\ e.message \in Nat
    <2>1. e \in [type : {1}, message : Own]
        BY <1>1 DEF Event, Range2
    <2> QED BY <2>1, MessageAssumption
<1>3. /\ messages' = <<e.message>> \o messages
      /\ messageUUIDList' = messageUUIDList \cup {e.message}
      /\ UNCHANGED <<at, rows, isLoading, mutableList, new, originalMessages>>
    BY DEF AddOwn, work
<1>4. /\ messages' \in Seq(Nat)
      /\ Elements(messages') = {e.message} \cup Elements(messages)
    <2>1. <<e.message>> \in Seq(Nat) /\ messages \in Seq(Nat)
        BY <1>2 DEF Types
    <2>2. Elements(<<e.message>>) = {e.message}
        BY DEF Elements
    <2>3. /\ <<e.message>> \o messages \in Seq(Nat)
          /\ Elements(<<e.message>> \o messages)
                 = Elements(<<e.message>>) \cup Elements(messages)
        BY <2>1, ConcatTimes
    <2> QED BY <2>2, <2>3, <1>3
<1>5. Types' /\ Place'
    BY <1>1, <1>2, <1>3, <1>4 DEF Types, Place
<1>6. Kept' /\ Stays'
    BY <1>1, <1>3, <1>4 DEF Kept, SeenKept, Stays
<1>7. ArrivalSeen' /\ StillAwaited
    BY <1>1, <1>3, ArrivalKept
<1> QED BY <1>5, <1>6, <1>7

LEMMA QueryStep == ASSUME IInv, Query PROVE IInv' /\ StillAwaited
<1> USE DEF IInv
<1> PICK e : e = Head(messageEventSyncList)
    OBVIOUS
<1>1. /\ at = "poll" /\ e \in Event /\ e.type = 2
      /\ messageEventSyncList' \in Seq(Event)
      /\ Elements(messageEventSyncList) = {e} \cup Elements(messageEventSyncList')
      /\ UNCHANGED <<stored, arrived, deleting, delayed>>
    BY PollFacts DEF Query
<1>2. e.isLoading \in BOOLEAN /\ e.start \in Nat /\ e.end \in Nat
    BY <1>1 DEF Event, Range2
<1>3. /\ rows' = Ascending({m \in stored : e.start <= m /\ m <= e.end})
      /\ isLoading' = e.isLoading
      /\ at' = IF rows' = <<>> THEN "poll" ELSE "row"
      /\ mutableList' = <<>>
      /\ UNCHANGED <<new, messages, originalMessages, messageUUIDList>>
    BY DEF Query, getMessagesByConIdNewInsert, shown
<1>4. /\ rows' \in Seq(Nat)
      /\ Elements(rows') = {m \in stored : e.start <= m /\ m <= e.end}
    <2> DEFINE R == {m \in stored : e.start <= m /\ m <= e.end}
    <2>1. R \subseteq stored /\ stored \subseteq Nat /\ IsFiniteSet(stored)
        BY DEF Types
    <2> HIDE DEF R
    <2>2. R \subseteq Nat /\ IsFiniteSet(R)
        BY <2>1, FS_Subset
    <2>3. Ascending(R) \in Seq(R) /\ Elements(Ascending(R)) = R
        BY <2>2, AscendingElements
    <2>4. Ascending(R) \in Seq(Nat)
        BY <2>2, <2>3, WiderSeq
    <2> QED BY <1>3, <2>3, <2>4 DEF R
<1>5. Types'
    <2>1. <<>> \in Seq(Nat)
        OBVIOUS
    <2> QED BY <1>1, <1>2, <1>3, <1>4, <2>1 DEF Types
<1>6. Place' /\ Stays'
    BY <1>1, <1>3 DEF Place, Stays
<1>7. Kept'
    BY <1>1, <1>3 DEF Kept, SeenKept
<1>8. StillAwaited
    <2> SUFFICES ASSUME NEW m \in stored \ Own, Awaited(m) PROVE Awaited(m)'
        BY DEF StillAwaited
    <2>1. Elements(rows) = {}
        BY <1>1 DEF Place, Elements
    <2>2. CASE m \in messageUUIDList
        BY <2>2, <1>3 DEF Awaited
    <2>3. CASE Covers(e, m)
        BY <2>3, <1>4 DEF Covers, Awaited
    <2>4. CASE \E f \in Elements(delayed) \cup Elements(messageEventSyncList') : Covers(f, m)
        BY <2>4, <1>1 DEF Awaited
    <2> QED BY <2>1, <2>2, <2>3, <2>4, <1>1 DEF Awaited
<1>9. ArrivalSeen'
    BY <1>1, <1>8 DEF ArrivalSeen, Stays, StillAwaited, Awaited
<1> QED BY <1>5, <1>6, <1>7, <1>8, <1>9

LEMMA RowStep == ASSUME IInv, Row PROVE IInv' /\ StillAwaited
<1> USE DEF IInv
<1> PICK h, mut : /\ h = Head(rows)
                  /\ mut = IF h \in messageUUIDList THEN mutableList
                           ELSE Append(mutableList, h)
    OBVIOUS
<1>1. /\ at = "row" /\ rows' = Tail(rows) /\ mutableList' = mut
      /\ messageUUIDList' = messageUUIDList \cup {h}
      /\ UNCHANGED <<stored, arrived, deleting, delayed, messageEventSyncList, isLoading>>
    BY DEF Row, source, bus
<1>2. /\ h \in Nat /\ rows' \in Seq(Nat)
      /\ Elements(rows) = {h} \cup Elements(rows')
    <2>1. rows \in Seq(Nat) /\ rows # <<>>
        BY <1>1 DEF Types, Place
    <2> QED BY <2>1, <1>1, TailElements
<1>3. /\ mut \in Seq(Nat)
      /\ h \notin messageUUIDList => h \in Elements(mut)
    <2>1. mutableList \in Seq(Nat)
        BY DEF Types
    <2>2. /\ Append(mutableList, h) \in Seq(Nat)
          /\ Elements(Append(mutableList, h)) = Elements(mutableList) \cup {h}
        BY <2>1, <1>2, AppendElements
    <2> QED BY <2>1, <2>2
<1>4. messages \in Seq(Nat) /\ originalMessages \in Seq(Nat)
    BY DEF Types
<1>5. /\ originalMessages \o mut \in Seq(Nat)
      /\ Elements(originalMessages \o mut) = Elements(originalMessages) \cup Elements(mut)
    BY <1>3, <1>4, ConcatTimes
<1>6. ASSUME NEW s \in Seq(Nat)
      PROVE  /\ Reverse(s) \o messages \in Seq(Nat)
             /\ Elements(Reverse(s) \o messages) = Elements(s) \cup Elements(messages)
    <2>1. Reverse(s) \in Seq(Nat) /\ Elements(Reverse(s)) = Elements(s)
        BY ReverseElements
    <2> QED BY <2>1, <1>4, ConcatTimes
<1>7. /\ new' \in Seq(Nat) /\ messages' \in Seq(Nat) /\ originalMessages' \in Seq(Nat)
      /\ at' \in {"poll", "row", "show"}
      /\ at' = "row" => rows' # <<>>
      /\ at' = "poll" => rows' = <<>>
      /\ messageUUIDList' \subseteq Elements(messages') \cup Elements(originalMessages')
                                        \cup (IF at' = "show" THEN Elements(new') ELSE {})
      /\ at' = "show" => messageUUIDList' \subseteq Elements(new')
  <2>0. Elements(<<>>) = {} /\ <<>> \in Seq(Nat)
      BY DEF Elements
  <2>1. /\ new \in Seq(Nat)
        /\ messageUUIDList \subseteq Elements(messages) \cup Elements(originalMessages)
        /\ messageUUIDList' \subseteq messageUUIDList \cup {h}
      BY <1>1 DEF Types, Kept, SeenKept
  <2>2. CASE /\ mutableList' # <<>> /\ isLoading
             /\ originalMessages' = originalMessages \o mutableList'
             /\ Advance
             /\ UNCHANGED <<new, messages>>
      BY <2>0, <2>1, <2>2, <1>1, <1>3, <1>4, <1>5 DEF Advance
  <2>3. CASE /\ mutableList' # <<>> /\ ~isLoading
             /\ originalMessages' = IF originalMessages = <<>> THEN <<>>
                                    ELSE originalMessages \o mutableList'
             /\ new' = Reverse(IF originalMessages = <<>> THEN mutableList'
                               ELSE originalMessages') \o messages
             /\ at' = "show"
             /\ UNCHANGED messages
    <3>1. CASE originalMessages = <<>>
      <4>1. /\ originalMessages' = <<>> /\ at' = "show" /\ messages' = messages
            /\ new' = Reverse(mut) \o messages
          BY <2>3, <3>1, <1>1
      <4>2. new' \in Seq(Nat) /\ Elements(new') = Elements(mut) \cup Elements(messages)
          BY <4>1, <1>3, <1>6
      <4>3. messageUUIDList' \subseteq Elements(new')
          BY <4>2, <2>0, <2>1, <3>1, <1>3
      <4> QED BY <4>1, <4>2, <4>3, <2>0, <2>1, <1>4
    <3>2. CASE originalMessages # <<>>
      <4>1. /\ originalMessages' = originalMessages \o mut /\ at' = "show"
            /\ messages' = messages
            /\ new' = Reverse(originalMessages \o mut) \o messages
          BY <2>3, <3>2, <1>1
      <4>2. /\ new' \in Seq(Nat)
            /\ Elements(new') = Elements(originalMessages) \cup Elements(mut)
                                    \cup Elements(messages)
          BY <4>1, <1>5, <1>6
      <4>3. messageUUIDList' \subseteq Elements(new')
          BY <4>2, <2>1, <1>3
      <4> QED BY <4>1, <4>2, <4>3, <1>4, <1>5
    <3> QED BY <3>1, <3>2
  <2>4. CASE /\ mutableList' = <<>>
             /\ messages' = Reverse(originalMessages) \o messages
             /\ originalMessages' = <<>>
             /\ Advance
             /\ UNCHANGED new
    <3>1. /\ messages' \in Seq(Nat)
          /\ Elements(messages') = Elements(originalMessages) \cup Elements(messages)
        BY <2>4, <1>4, <1>6
    <3>2. h \in messageUUIDList
        BY <2>0, <2>4, <2>1, <1>1, <1>3
    <3> QED BY <2>0, <2>4, <2>1, <3>1, <3>2, <1>1 DEF Advance
  <2> QED BY <2>2, <2>3, <2>4 DEF Row
<1>8. Types' /\ Place'
    BY <1>1, <1>2, <1>3, <1>7 DEF Types, Place
<1>9. Kept' /\ Stays'
    BY <1>1, <1>7 DEF Kept, SeenKept, Stays
<1>10. ArrivalSeen' /\ StillAwaited
    BY <1>1, <1>2, ArrivalKept
<1> QED BY <1>8, <1>9, <1>10

LEMMA ReleaseStep == ASSUME IInv, Release PROVE IInv' /\ StillAwaited
<1> USE DEF IInv
<1> PICK e : e = Head(messageEventSyncList)
    OBVIOUS
<1>1. /\ at = "poll" /\ e \in Event /\ e.type = 3
      /\ messageEventSyncList' \in Seq(Event)
      /\ Elements(messageEventSyncList) = {e} \cup Elements(messageEventSyncList')
      /\ UNCHANGED <<stored, arrived, deleting, delayed>>
    BY PollFacts DEF Release
<1>2. /\ new' = Reverse(originalMessages) \o messages
      /\ at' = IF originalMessages = <<>> THEN "poll" ELSE "show"
      /\ UNCHANGED <<rows, isLoading, mutableList, messages, originalMessages,
                     messageUUIDList>>
    BY DEF Release, shown
<1>3. /\ new' \in Seq(Nat)
      /\ Elements(new') = Elements(originalMessages) \cup Elements(messages)
    <2>1. originalMessages \in Seq(Nat) /\ messages \in Seq(Nat)
        BY DEF Types
    <2>2. /\ Reverse(originalMessages) \in Seq(Nat)
          /\ Elements(Reverse(originalMessages)) = Elements(originalMessages)
        BY <2>1, ReverseElements
    <2> QED BY <2>1, <2>2, <1>2, ConcatTimes
<1>4. Types' /\ Place'
    BY <1>1, <1>2, <1>3 DEF Types, Place
<1>5. Kept' /\ Stays'
    BY <1>1, <1>2, <1>3 DEF Kept, SeenKept, Stays
<1>6. ArrivalSeen' /\ StillAwaited
    BY <1>1, <1>2, ArrivalKept
<1> QED BY <1>4, <1>5, <1>6

LEMMA ShowStep == ASSUME IInv, Show PROVE IInv' /\ StillAwaited
<1> USE DEF IInv
<1>1. /\ at = "show" /\ messages' = new /\ originalMessages' = <<>>
      /\ at' = IF rows = <<>> THEN "poll" ELSE "row"
      /\ UNCHANGED <<stored, arrived, deleting, delayed, messageEventSyncList,
                     rows, isLoading, mutableList, new, messageUUIDList>>
    BY DEF Show, source, bus
<1>2. Types' /\ Place'
    <2>1. <<>> \in Seq(Nat)
        OBVIOUS
    <2> QED BY <1>1, <2>1 DEF Types, Place
<1>3. Kept' /\ Stays'
    BY <1>1 DEF Kept, SeenKept, Stays
<1>4. ArrivalSeen' /\ StillAwaited
    BY <1>1, ArrivalKept
<1> QED BY <1>2, <1>3, <1>4

LEMMA PageStep == ASSUME IInv, Page PROVE IInv' /\ StillAwaited
<1> USE DEF IInv
<1> PICK e : e = Head(messageEventSyncList)
    OBVIOUS
<1> DEFINE R == {m \in stored : m < Wrap(e.timestampStart * Scale)}
           all == Descending(R)
           n == IF Len(all) < PageSize THEN Len(all) ELSE PageSize
<1> PICK older : older = SubSeq(all, 1, n)
    OBVIOUS
<1>1. /\ at = "poll" /\ e \in Event /\ e.type = 6
      /\ messageEventSyncList' \in Seq(Event)
      /\ Elements(messageEventSyncList) = {e} \cup Elements(messageEventSyncList')
      /\ UNCHANGED <<stored, arrived, deleting, delayed>>
    BY PollFacts DEF Page
<1>2. /\ new' = messages \o Descending(Elements(older) \ messageUUIDList)
      /\ messageUUIDList' = messageUUIDList \cup Elements(older)
      /\ at' = IF older = <<>> THEN "poll" ELSE "page"
      /\ UNCHANGED <<rows, isLoading, mutableList, messages, originalMessages>>
    BY DEF Page, getMessagesByConIdDesc
<1>3. stored \subseteq Nat /\ IsFiniteSet(stored) /\ R \subseteq stored
    BY DEF Types
<1> HIDE DEF R
<1>4. all \in Seq(R) /\ Elements(all) = R
    <2>1. R \subseteq Nat /\ IsFiniteSet(R)
        BY <1>3, FS_Subset
    <2> QED BY <2>1, DescendingElements
<1> HIDE DEF all
<1>5. Elements(older) \subseteq R
    <2>1. n \in Nat /\ n <= Len(all)
        BY <1>4, BoundAssumption
    <2> HIDE DEF n
    <2> QED BY <2>1, <1>4, PrefixElements
<1> HIDE DEF n
<1> PICK U : U = Elements(older) \ messageUUIDList
    OBVIOUS
<1>6. Descending(U) \in Seq(Nat) /\ Elements(Descending(U)) = U
    <2>1. U \subseteq stored
        BY <1>3, <1>5
    <2>2. U \subseteq Nat /\ IsFiniteSet(U)
        BY <2>1, <1>3, FS_Subset
    <2>3. Descending(U) \in Seq(U) /\ Elements(Descending(U)) = U
        BY <2>2, DescendingElements
    <2> QED BY <2>2, <2>3, WiderSeq
<1>7. /\ new' \in Seq(Nat)
      /\ Elements(new') = Elements(messages) \cup U
    <2>1. messages \in Seq(Nat)
        BY DEF Types
    <2> QED BY <2>1, <1>2, <1>6, ConcatTimes
<1>8. Types' /\ Place'
    <2>1. messageUUIDList' \subseteq Nat
        BY <1>2, <1>3, <1>5 DEF Types
    <2> QED BY <1>1, <1>2, <1>7, <2>1 DEF Types, Place
<1>9. Kept'
    <2>1. messageUUIDList \subseteq Elements(messages) \cup Elements(originalMessages)
        BY <1>1 DEF Kept, SeenKept
    <2>2. CASE older = <<>>
        <3>1. Elements(<<>>) = {}
            BY DEF Elements
        <3> QED BY <2>1, <2>2, <3>1, <1>2 DEF Kept, SeenKept
    <2>3. CASE older # <<>>
        BY <2>1, <2>3, <1>2, <1>7 DEF Kept, SeenKept
    <2> QED BY <2>2, <2>3
<1>10. Stays'
    BY <1>1 DEF Stays
<1>11. ArrivalSeen' /\ StillAwaited
    BY <1>1, <1>2, ArrivalKept
<1> QED BY <1>8, <1>9, <1>10, <1>11

LEMMA ShowPageStep == ASSUME IInv, ShowPage PROVE IInv' /\ StillAwaited
<1> USE DEF IInv
<1>1. /\ at = "page" /\ messages' = new /\ at' = "poll"
      /\ UNCHANGED <<stored, arrived, deleting, delayed, messageEventSyncList, rows,
                     isLoading, mutableList, new, originalMessages, messageUUIDList>>
    BY DEF ShowPage, source, bus
<1>2. Types' /\ Place'
    BY <1>1 DEF Types, Place
<1>3. Kept' /\ Stays'
    BY <1>1 DEF Kept, SeenKept, Stays
<1>4. ArrivalSeen' /\ StillAwaited
    BY <1>1, ArrivalKept
<1> QED BY <1>2, <1>3, <1>4

-----------------------------------------------------------------------------
(* The theorems                                                            *)

(* Every step of the socket, of the screen and of the coroutine preserves  *)
(* the inductive invariant.                                                *)
THEOREM Inductive == Spec => []IInv
<1>1. IInv /\ [Next]_vars => IInv'
    <2> SUFFICES ASSUME IInv, [Next]_vars PROVE IInv'
        OBVIOUS
    <2>1. CASE \E S \in Incoming, loading \in BOOLEAN : Insert(S, loading)
        BY <2>1, InsertStep
    <2>2. CASE UnreadOver
        BY <2>2, UnreadOverStep
    <2>3. CASE \E m \in Own : removeItem(m) \/ deleteMessage(m)
        BY <2>3, RemoveStep, DeleteStep
    <2>4. CASE Elapse \/ LoadMore
        BY <2>4, ElapseStep, LoadMoreStep
    <2>5. CASE \E m \in Own : insertOwnerMessageAndShow(m)
        BY <2>5, OwnStep
    <2>6. CASE Coroutine
        BY <2>6, AddOwnStep, QueryStep, RowStep, ReleaseStep, ShowStep, PageStep,
           ShowPageStep DEF Coroutine
    <2>7. CASE UNCHANGED vars
        BY <2>7 DEF vars, source, bus, work, shown, IInv, Types, Place, Kept,
           SeenKept, Stays, ArrivalSeen
    <2> QED BY <2>1, <2>2, <2>3, <2>4, <2>5, <2>6, <2>7 DEF Next, Screen
<1> QED BY <1>1, InitIInv, PTL DEF Spec

(* The lists, the queue and the place of the coroutine have their types.   *)
THEOREM TypeCorrect == Spec => []TypeOK
<1>1. IInv => TypeOK
    <2> SUFFICES ASSUME IInv PROVE TypeOK
        OBVIOUS
    <2>1. Types
        BY DEF IInv
    <2>2. \A e \in Elements(delayed) : e.type = 2
        <3>1. \A e \in Range2 : e.type = 2
            BY DEF Range2
        <3>2. Elements(delayed) \subseteq Range2
            BY <2>1 DEF Types, Elements
        <3> QED BY <3>1, <3>2
    <2>3. \A e \in Elements(messageEventSyncList) : e.type \in {1, 2, 3, 6}
        <3>1. \A e \in Event : e.type \in {1, 2, 3, 6}
            BY DEF Event, Range2
        <3>2. Elements(messageEventSyncList) \subseteq Event
            BY <2>1 DEF Types, Elements
        <3> QED BY <3>1, <3>2
    <2> QED BY <2>1, <2>2, <2>3, MessageAssumption DEF Types, TypeOK
<1> QED BY <1>1, Inductive, PTL

(* A message that was seen is on screen, held back, or in the copy that is *)
(* about to be shown.                                                      *)
THEOREM AlwaysKept == Spec => []SeenKept
<1>1. IInv => SeenKept
    BY DEF IInv, Kept
<1> QED BY <1>1, Inductive, PTL

(* What arrived while the screen is open has been seen or will be looked   *)
(* for, whatever pages, own messages and removals come in between.         *)
THEOREM AlwaysArrivalSeen == Spec => []ArrivalSeen
<1>1. IInv => ArrivalSeen
    BY DEF IInv
<1> QED BY <1>1, Inductive, PTL
-----------------------------------------------------------------------------
(* DmReceive: the decomposer's side                                        *)

JP == INSTANCE MessageJob_proofs

(* What MessageJob assumes of its constants.                               *)
LEMMA JobFacts ==
    /\ NoJob \notin Job
    /\ NoPacket \notin Packet
    /\ \A p \in Packet : /\ p.messages \in Seq(JP!Timetoken)
                         /\ p.isUnreadMessage \in BOOLEAN
BY ReceptionAssumption DEF JP!Timetoken

LEMMA SameInit == J!Init <=> JP!Init
BY DEF J!Init, JP!Init, J!NoEvent, JP!NoEvent

LEMMA SameNext == J!Next <=> JP!Next
BY DEF J!Next, J!Work, J!onDirectMessage, J!startMessageJob, J!stopMessageJob,
       J!Begin, J!End, J!LoopBusy, J!LoopIdle, J!Take, J!Convert, J!Wake, J!Early,
       J!insertMessages, J!handleMessageWrapper, J!updateConversationLastTimeToken,
       J!ClearTokens, J!jobs, J!local, J!queue, J!token, J!kept, J!NoEvent,
       J!UnreadOver, J!NewMessages, J!Elements, J!Newest, J!Goto, J!Throw,
       J!Queued, J!Message,
       JP!Next, JP!Work, JP!onDirectMessage, JP!startMessageJob, JP!stopMessageJob,
       JP!Begin, JP!End, JP!LoopBusy, JP!LoopIdle, JP!Take, JP!Convert, JP!Wake,
       JP!Early, JP!insertMessages, JP!handleMessageWrapper,
       JP!updateConversationLastTimeToken, JP!ClearTokens, JP!jobs, JP!local,
       JP!queue, JP!token, JP!kept, JP!NoEvent, JP!UnreadOver, JP!NewMessages,
       JP!Elements, JP!Newest, JP!Goto, JP!Throw, JP!Queued, JP!Message

LEMMA SameOrder == \A s : J!Ascending(s) <=> JP!Ascending(s)
BY DEF J!Ascending, JP!Ascending

(* The decomposer's invariant does not depend on what the screen does to   *)
(* the database, as long as only timetokens are in it.                     *)
LEMMA ReceptionFrame ==
    ASSUME JP!Reception, UNCHANGED decomposer, stored' \subseteq JP!Timetoken
    PROVE  JP!Reception'
<1> USE DEF decomposer
<1>1. JP!TypeOK'
    BY DEF JP!Reception, JP!TypeOK, JP!Timetoken, JP!Event, JP!NoEvent,
           JP!UnreadOver, JP!Pc
<1>2. JP!Shape' /\ JP!Ownership'
    BY DEF JP!Reception, JP!Shape, JP!Ownership, JP!OneLiveJob
<1>3. JP!Interval'
    BY DEF JP!Reception, JP!Interval, JP!ListCovers, JP!Ascending, JP!Elements,
           JP!Message
<1>4. JP!InReceived'
    BY DEF JP!Reception, JP!InReceived, JP!Elements
<1> QED BY <1>1, <1>2, <1>3, <1>4 DEF JP!Reception

LEMMA FiniteElements ==
    ASSUME NEW S, NEW s \in Seq(S) PROVE IsFiniteSet(Elements(s))
<1>1. Len(s) \in Nat /\ DOMAIN s = 1 .. Len(s)
    OBVIOUS
<1>2. IsFiniteSet(DOMAIN s)
    <2>1. 1 \in Int /\ Len(s) \in Int
        BY <1>1
    <2> QED BY <2>1, <1>1, FS_Interval
<1>3. s \in Surjection(DOMAIN s, Elements(s))
    <2>1. s \in [DOMAIN s -> Elements(s)]
        BY <1>1 DEF Elements
    <2>2. \A t \in Elements(s) : \E i \in DOMAIN s : s[i] = t
        BY DEF Elements
    <2> QED BY <2>1, <2>2, Fun_IsSurj
<1> QED BY <1>2, <1>3, FS_Surjection

(* What the decomposer posts is an event 2, an event 3 or none.            *)
LEMMA PostedEvent ==
    ASSUME JP!TypeOK'
    PROVE  /\ event'.type = 2 => event' \in Range2
           /\ event'.type \in {0, 2, 3}
BY DEF JP!TypeOK, JP!Event, JP!NoEvent, JP!UnreadOver, Range2

-----------------------------------------------------------------------------
(* DmReceive: the inductive invariant                                      *)

(* StoredIsSeen: what is stored is awaited by the screen, or in the list   *)
(* of the job that is about to post the event.                             *)
Looked ==
    cancelled = {} /\ (\A p \in received : JP!Ascending(p.messages)) =>
        \A m \in stored \ Own : Awaited(m) \/ m \in JP!Unreported

SystemInv == IInv /\ JP!Reception /\ Looked

LEMMA SystemInitInv == SystemInit => SystemInv
<1> SUFFICES ASSUME SystemInit PROVE SystemInv
    OBVIOUS
<1>1. JP!Reception
    BY JobFacts, SameInit, JP!ReceptionInit DEF SystemInit
<1>2. stored = {}
    BY DEF SystemInit, J!Init
<1> QED BY <1>1, <1>2, InitIInv DEF SystemInit, SystemInv, Looked

LEMMA ReceiveStep == ASSUME SystemInv, Receive PROVE SystemInv'
<1>1. /\ IInv /\ Types /\ JP!Reception /\ JP!TypeOK /\ Looked
      /\ JP!Next
    BY SameNext DEF SystemInv, Receive, IInv, JP!Reception
<1>2. JP!Reception' /\ JP!TypeOK'
    <2>1. JP!Reception'
        BY <1>1, JobFacts, JP!ReceptionStep
    <2> QED BY <2>1 DEF JP!Reception
<1>3. PICK e : e = event'
    OBVIOUS
<1>4. e.type = 2 => e \in Range2
    BY <1>2, <1>3, PostedEvent
<1>5. UNCHANGED <<arrived, deleting, at, rows, isLoading, mutableList, new,
                  messages, originalMessages, messageUUIDList>>
    BY DEF Receive, work, shown
<1>6. /\ delayed' \in Seq(Range2) /\ Elements(delayed) \subseteq Elements(delayed')
      /\ e.type = 2 => e \in Elements(delayed')
    <2>1. delayed' = IF e.type = 2 THEN Append(delayed, e) ELSE delayed
        BY <1>3 DEF Receive, Deliver
    <2>2. delayed \in Seq(Range2)
        BY <1>1 DEF Types
    <2> QED BY <2>1, <2>2, <1>4, AppendElements
<1>7. /\ messageEventSyncList' \in Seq(Event)
      /\ Elements(messageEventSyncList) \subseteq Elements(messageEventSyncList')
    <2>1. messageEventSyncList' = IF e.type = 3 THEN Append(messageEventSyncList, OverEvent)
                                  ELSE messageEventSyncList
        BY <1>3 DEF Receive, Deliver
    <2>2. messageEventSyncList \in Seq(Event) /\ OverEvent \in Event
        BY <1>1 DEF Types, OverEvent, Event
    <2> QED BY <2>1, <2>2, AppendElements
<1>8. /\ stored \subseteq stored' /\ stored' \subseteq Nat /\ IsFiniteSet(stored')
      /\ \A m \in stored' : m \in stored \/ m \in JP!Unreported'
    <2>1. \/ stored' = stored
          \/ /\ stored' = stored \cup JP!Elements(messageEntityList)
             /\ JP!Elements(messageEntityList) \subseteq JP!Unreported'
        BY <1>1, JobFacts, JP!StoredGrows
    <2>2. messageEntityList \in Seq(JP!Timetoken)
        BY <1>1 DEF JP!TypeOK
    <2>3. /\ JP!Elements(messageEntityList) = Elements(messageEntityList)
          /\ IsFiniteSet(Elements(messageEntityList))
        BY <2>2, FiniteElements DEF JP!Elements, Elements
    <2>4. stored' \subseteq Nat
        BY <1>2 DEF JP!TypeOK, JP!Timetoken
    <2>5. IsFiniteSet(stored')
        <3>1. IsFiniteSet(stored)
            BY <1>1 DEF Types
        <3>2. IsFiniteSet(stored \cup Elements(messageEntityList))
            BY <3>1, <2>3, FS_Union
        <3> QED BY <2>1, <2>3, <3>1, <3>2
    <2> QED BY <2>1, <2>4, <2>5
<1>9. Types' /\ Place' /\ Kept' /\ Stays'
    <2>1. Types'
        BY <1>1, <1>5, <1>6, <1>7, <1>8 DEF Types
    <2>2. Place' /\ Kept'
        BY <1>1, <1>5 DEF IInv, Place, Kept, SeenKept
    <2>3. Stays'
        BY <1>1, <1>5, <1>8 DEF IInv, Stays
    <2> QED BY <2>1, <2>2, <2>3
<1>10. ASSUME NEW m, Awaited(m) PROVE Awaited(m)'
    BY <1>5, <1>6, <1>7, <1>10 DEF Awaited
<1>11. ArrivalSeen'
    BY <1>1, <1>5, <1>10 DEF IInv, ArrivalSeen, Awaited
<1>12. Looked'
    <2> SUFFICES ASSUME cancelled' = {},
                        \A p \in received' : JP!Ascending(p.messages),
                        NEW m \in stored' \ Own
                 PROVE  Awaited(m)' \/ m \in JP!Unreported'
        BY DEF Looked
    <2>1. cancelled = {} /\ received \subseteq received'
        BY <1>1, JobFacts, JP!CancelledGrows, JP!ReceivedGrows
    <2>2. CASE m \notin stored
        BY <2>2, <1>8
    <2>3. CASE Awaited(m)
        BY <2>3, <1>10
    <2>4. CASE m \in JP!Unreported
        <3>1. \/ m \in JP!Unreported'
              \/ event'.type = 2 /\ event'.start <= m /\ m <= event'.end
            BY <1>1, <2>1, <2>4, JobFacts, JP!ReportedOrNot
        <3>2. ASSUME e.type = 2, e.start <= m, m <= e.end PROVE Awaited(m)'
            BY <1>6, <3>2 DEF Awaited, Covers
        <3> QED BY <1>3, <3>1, <3>2
    <2> QED BY <2>1, <2>2, <2>3, <2>4, <1>1 DEF Looked
<1> QED BY <1>2, <1>9, <1>11, <1>12, <1>8 DEF SystemInv, IInv

LEMMA ScreenStep == ASSUME IInv, Screen PROVE IInv' /\ StillAwaited
BY ElapseStep, LoadMoreStep, OwnStep, AddOwnStep, QueryStep, RowStep, ReleaseStep,
   ShowStep, PageStep, ShowPageStep DEF Screen, Coroutine

(* The open conversation adds no messages but the user's own ones.         *)
LEMMA ScreenStores ==
    ASSUME Screen PROVE stored' = stored \/ \E m \in Own : stored' = stored \cup {m}
BY DEF Screen, Coroutine, Elapse, LoadMore, insertOwnerMessageAndShow, Poll, AddOwn,
       Query, Row, Release, Show, Page, ShowPage, source

LEMMA DisplayStep == ASSUME SystemInv, Display PROVE SystemInv'
<1>1. IInv /\ JP!Reception /\ Looked /\ Screen /\ UNCHANGED decomposer
    BY DEF SystemInv, Display
<1>2. IInv' /\ StillAwaited
    BY <1>1, ScreenStep
<1>3. stored' \subseteq stored \cup Own
    BY <1>1, ScreenStores
<1>4. JP!Reception'
    <2>1. stored \subseteq JP!Timetoken
        BY <1>1 DEF JP!Reception, JP!TypeOK
    <2>2. Own \subseteq JP!Timetoken
        BY MessageAssumption, ReceptionAssumption DEF JP!Timetoken
    <2> QED BY <1>1, <1>3, <2>1, <2>2, ReceptionFrame
<1>5. Looked'
    <2> SUFFICES ASSUME cancelled = {},
                        \A p \in received : JP!Ascending(p.messages),
                        NEW m \in stored' \ Own
                 PROVE  Awaited(m)' \/ m \in JP!Unreported'
        BY <1>1 DEF Looked, decomposer, JP!Ascending
    <2>1. m \in stored
        BY <1>3
    <2>2. CASE Awaited(m)
        BY <2>1, <2>2, <1>2 DEF StillAwaited
    <2>3. CASE m \in JP!Unreported
        BY <2>3, <1>1 DEF JP!Unreported, JP!Elements, decomposer
    <2> QED BY <2>1, <2>2, <2>3, <1>1 DEF Looked
<1> QED BY <1>2, <1>4, <1>5 DEF SystemInv

LEMMA SystemFrame == ASSUME SystemInv, UNCHANGED <<vars, decomposer>> PROVE SystemInv'
<1>1. IInv'
    BY DEF SystemInv, vars, source, bus, work, shown, IInv, Types, Place, Kept,
           SeenKept, Stays, ArrivalSeen
<1>2. JP!Reception'
    <2>1. stored' \subseteq JP!Timetoken
        BY DEF SystemInv, JP!Reception, JP!TypeOK, vars, source
    <2> QED BY <2>1, ReceptionFrame DEF SystemInv
<1>3. Looked'
    BY DEF SystemInv, Looked, Awaited, JP!Unreported, JP!Elements, JP!Ascending,
           vars, source, bus, work, shown, decomposer
<1> QED BY <1>1, <1>2, <1>3 DEF SystemInv

-----------------------------------------------------------------------------
(* The theorems                                                            *)

THEOREM SystemInductive == SystemSpec => []SystemInv
<1>1. SystemInv /\ [SystemNext]_<<vars, decomposer>> => SystemInv'
    BY ReceiveStep, DisplayStep, SystemFrame DEF SystemNext
<1> QED BY <1>1, SystemInitInv, PTL DEF SystemSpec

(* What the decomposer stored has been seen by the open conversation or    *)
(* will be looked for, until a job is stopped, for any packets in order.   *)
THEOREM StoredIsAlwaysSeen == SystemSpec => []StoredIsSeen
<1>1. SystemInv => StoredIsSeen
    <2>1. \A m : m \in JP!Unreported <=>
                     \E j \in Job : pc[j] = "report" /\ m \in Elements(messageEntityList)
        BY DEF JP!Unreported, JP!Elements, Elements
    <2> QED BY <2>1, SameOrder DEF SystemInv, Looked, StoredIsSeen, Awaited
<1> QED BY <1>1, SystemInductive, PTL
=============================================================================
